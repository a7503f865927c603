---------------------------- MODULE LogFileProofs ----------------------------
(***************************************************************************)
(* Proofs about the log as a file, for recordings of any length, records   *)
(* of any two sizes of which the shorter holds a tag, and every way DOS    *)
(* may cut records short.                                                  *)
(*                                                                         *)
(* The argument follows the analyzer's position: as long as no record      *)
(* before it is torn, it is where a record starts, what has been shown are *)
(* the whole records before that one, and the next two bytes are its tag.  *)
(***************************************************************************)
EXTENDS LogFile, SequenceTheorems, TLAPS

ByteNames == (Nat \ {0}) \X Nat
Records   == [size : Sizes, kept : Nat]

\* Where in the file the records start, and where the last one ends: record m
\* is the bytes after position st[m].
Layout(st) ==
  /\ st \in [1 .. Len(sent) + 1 -> 0 .. Len(log)]
  /\ st[1] = 0 /\ st[Len(sent) + 1] = Len(log)
  /\ \A m \in 1 .. Len(sent) : st[m + 1] = st[m] + sent[m].kept
  /\ \A m, n \in 1 .. Len(sent) + 1 : m <= n => st[m] <= st[n]
  /\ \A m \in 1 .. Len(sent) : \A k \in 1 .. sent[m].kept :
       log[st[m] + k] = <<m, k - 1>>
  /\ \A i \in 1 .. Len(log) : \E m \in 1 .. Len(sent) :
       \E k \in 1 .. sent[m].kept : i = st[m] + k

\* The whole records before record n have been shown first.
Shows(n) == \E k \in 0 .. Len(shown) : ShowsWhole(k, n)

\* The analyzer is at the start of record j and has lost nothing.
InStep(st, j) ==
  /\ Intact(j) /\ pos = st[j]
  /\ ShowsWhole(Len(shown), j)
  /\ \A n \in 1 .. j : Shows(n)
  /\ pc = "done" => \A m \in j .. Len(sent) : ~Whole(m)

\* Nothing is kept of the records after record j.
Ends(j) == \A m \in j + 1 .. Len(sent) : sent[m].kept = 0

\* The analyzer has met the torn record j; the file ended with it, or anything
\* may have been shown since.
Lost(j) ==
  /\ Torn(j) /\ Intact(j)
  /\ \A n \in 1 .. j : Shows(n)
  /\ Ends(j) => pos = Len(log) /\ ShowsWhole(Len(shown), j)

\* The types of the variables but for the log's bytes, which Layout knows.
LogTypes ==
  /\ sent \in Seq(Records) /\ Len(sent) <= MaxRecords
  /\ \A m \in 1 .. Len(sent) : sent[m].kept <= sent[m].size
  /\ log \in Seq(ByteNames)
  /\ pc \in {"record", "analyze", "done"}
  /\ pos \in 0 .. Len(log)
  /\ shown \in Seq(0 .. Len(sent))

\* The inductive invariant.
LogInv ==
  /\ LogTypes
  /\ pc = "record" => pos = 0 /\ shown = <<>>
  /\ \E st : /\ Layout(st)
             /\ \/ \E j \in 1 .. Len(sent) + 1 : InStep(st, j)
                \/ \E j \in 1 .. Len(sent) : Lost(j)

-----------------------------------------------------------------------------
(* Facts about sequences.                                                  *)

LEMMA BytesSeq ==
  ASSUME NEW n \in Nat \ {0}, NEW length \in Nat
  PROVE  /\ Bytes(n, length) \in Seq(ByteNames)
         /\ Len(Bytes(n, length)) = length
         /\ \A i \in 1 .. length : Bytes(n, length)[i] = <<n, i - 1>>
<1>1. \A i \in 1 .. length : <<n, i - 1>> \in ByteNames
  BY DEF ByteNames
<1>2. [i \in 1 .. length |-> <<n, i - 1>>] \in [1 .. length -> ByteNames]
  BY <1>1
<1>3. QED
  BY <1>1, <1>2 DEF Bytes

\* A record has one of the two sizes, and a torn or whole one keeps something.
LEMMA RecordFacts ==
  ASSUME LogTypes, NEW m \in 1 .. Len(sent)
  PROVE  /\ sent[m].size \in Sizes /\ sent[m].size \in Nat /\ sent[m].size >= SHORT
         /\ sent[m].kept \in Nat /\ sent[m].kept <= sent[m].size
         /\ Whole(m) \/ Torn(m) <=> sent[m].kept > 0
         /\ ~(Whole(m) /\ Torn(m))
<1>1. sent[m] \in Records /\ sent[m].kept <= sent[m].size
  BY ElementOfSeq DEF LogTypes
<1>2. /\ sent[m].size \in Sizes /\ sent[m].size \in Nat /\ sent[m].size >= SHORT
      /\ sent[m].kept \in Nat
  BY <1>1, LogFileAssumption DEF Records, Sizes
<1>3. sent[m].size > 0
  BY <1>2, LogFileAssumption
<1>4. QED
  BY <1>1, <1>2, <1>3 DEF Whole, Torn

LEMMA Lengths ==
  ASSUME LogTypes
  PROVE  /\ Len(sent) \in Nat /\ DOMAIN sent = 1 .. Len(sent)
         /\ Len(log) \in Nat /\ DOMAIN log = 1 .. Len(log)
         /\ Len(shown) \in Nat /\ DOMAIN shown = 1 .. Len(shown)
         /\ pos \in 0 .. Len(log)
BY LenProperties DEF LogTypes

LEMMA Within ==
  \A a, b, c \in Nat : \A k \in 1 .. b : a + b <= c => a + k \in 1 .. c
OBVIOUS

-----------------------------------------------------------------------------
(* What has been shown.                                                    *)

\* Records that are not whole are not shown.
LEMMA NothingWhole ==
  ASSUME NEW k \in Nat, NEW m \in Nat, NEW n \in Nat, m <= n, ShowsWhole(k, m),
         \A l \in m .. n - 1 : ~Whole(l)
  PROVE  ShowsWhole(k, n)
<1>1. {l \in 1 .. m - 1 : Whole(l)} = {l \in 1 .. n - 1 : Whole(l)}
  <2>1. \A l \in 1 .. n - 1 : l \in 1 .. m - 1 \/ l \in m .. n - 1
    OBVIOUS
  <2>2. 1 .. m - 1 \subseteq 1 .. n - 1
    OBVIOUS
  <2>3. QED
    BY <2>1, <2>2
<1>2. QED
  BY <1>1 DEF ShowsWhole

\* What is shown later does not change what has been shown.
LEMMA StillShown ==
  ASSUME LogTypes, UNCHANGED sent, NEW x \in 0 .. Len(sent),
         shown' = shown \/ shown' = Append(shown, x)
  PROVE  /\ shown' \in Seq(0 .. Len(sent)) /\ Len(shown') \in Nat
         /\ Len(shown) <= Len(shown')
         /\ \A k \in 0 .. Len(shown), n \in Nat : ShowsWhole(k, n) => ShowsWhole(k, n)'
         /\ \A n \in Nat : Shows(n) => Shows(n)'
<1>1. /\ shown \in Seq(0 .. Len(sent)) /\ Len(shown) \in Nat
  BY Lengths DEF LogTypes
<1>2. /\ shown' \in Seq(0 .. Len(sent)) /\ Len(shown') \in Nat
      /\ Len(shown) <= Len(shown')
      /\ \A i \in 1 .. Len(shown) : shown'[i] = shown[i]
  <2>1. CASE shown' = shown
    BY <1>1, <2>1
  <2>2. CASE shown' = Append(shown, x)
    <3>1. /\ shown' \in Seq(0 .. Len(sent)) /\ Len(shown') = Len(shown) + 1
          /\ \A i \in 1 .. Len(shown) : shown'[i] = shown[i]
      BY <1>1, <2>2, AppendProperties
    <3>2. QED
      BY <1>1, <3>1
  <2>3. QED
    BY <2>1, <2>2
<1>3. ASSUME NEW k \in 0 .. Len(shown), NEW n \in Nat, ShowsWhole(k, n)
      PROVE  ShowsWhole(k, n)'
  <2>1. \A i \in 1 .. k : shown'[i] = shown[i]
    BY <1>1, <1>2
  <2>2. {shown'[i] : i \in 1 .. k} = {shown[i] : i \in 1 .. k}
    BY <2>1
  <2>3. \A m : Whole(m)' <=> Whole(m)
    BY DEF Whole
  <2>4. QED
    BY <1>3, <2>1, <2>2, <2>3 DEF ShowsWhole
<1>4. 0 .. Len(shown) \subseteq 0 .. Len(shown')
  BY <1>1, <1>2
<1>5. QED
  BY <1>2, <1>3, <1>4 DEF Shows

\* A whole record is shown next.
LEMMA NextShown ==
  ASSUME LogTypes, UNCHANGED sent, NEW m \in 1 .. Len(sent), Whole(m),
         ShowsWhole(Len(shown), m), shown' = Append(shown, m)
  PROVE  ShowsWhole(Len(shown), m + 1)'
<1> DEFINE k == Len(shown)
<1>1. /\ shown \in Seq(0 .. Len(sent)) /\ k \in Nat /\ Len(sent) \in Nat
  BY Lengths DEF LogTypes
<1>2. /\ Len(shown') = k + 1 /\ shown'[k + 1] = m
      /\ \A i \in 1 .. k : shown'[i] = shown[i]
  BY <1>1, AppendProperties
<1>3. /\ \A i, j \in 1 .. k : i < j => shown[i] < shown[j]
      /\ {shown[i] : i \in 1 .. k} = {l \in 1 .. m - 1 : Whole(l)}
  BY DEF ShowsWhole
<1> HIDE DEF k
<1>4. \A i \in 1 .. k : shown[i] \in 1 .. m - 1 /\ shown[i] < m
  <2>1. \A i \in 1 .. k : shown[i] \in 1 .. m - 1
    BY <1>3
  <2>2. QED
    BY <2>1
<1>5. \A i, j \in 1 .. k + 1 : i < j => shown'[i] < shown'[j]
  <2> TAKE i, j \in 1 .. k + 1
  <2> HAVE i < j
  <2>1. i \in 1 .. k
    BY <1>1
  <2>2. CASE j \in 1 .. k
    <3>1. \A a, b \in 1 .. k : a < b => shown[a] < shown[b]
      BY <1>3
    <3>2. shown[i] < shown[j]
      BY <2>1, <2>2, <3>1
    <3>3. shown'[i] = shown[i] /\ shown'[j] = shown[j]
      BY <1>2, <2>1, <2>2
    <3>4. QED
      BY <3>2, <3>3
  <2>3. CASE j = k + 1
    <3>1. shown[i] < m
      BY <1>4, <2>1
    <3>2. shown'[i] = shown[i] /\ shown'[j] = m
      BY <1>2, <2>1, <2>3
    <3>3. QED
      BY <3>1, <3>2, Zenon
  <2>4. j \in 1 .. k \/ j = k + 1
    BY <1>1
  <2>5. QED
    BY <2>2, <2>3, <2>4
<1>6. {shown'[i] : i \in 1 .. k + 1} = {shown[i] : i \in 1 .. k} \cup {m}
  <2>1. 1 .. k + 1 = (1 .. k) \cup {k + 1}
    BY <1>1
  <2>2. QED
    BY <1>2, <2>1
<1>7. {l \in 1 .. m - 1 : Whole(l)} \cup {m} = {l \in 1 .. m : Whole(l)}
  <2>1. 1 .. m = (1 .. m - 1) \cup {m}
    OBVIOUS
  <2>2. QED
    BY <2>1
<1>8. (m + 1) - 1 = m /\ \A l : Whole(l)' <=> Whole(l)
  BY DEF Whole
<1>9. QED
  BY <1>2, <1>3, <1>5, <1>6, <1>7, <1>8 DEF ShowsWhole

-----------------------------------------------------------------------------
(* What the analyzer finds.                                                *)

LEMMA LayoutFacts ==
  ASSUME LogTypes, NEW st, Layout(st)
  PROVE  /\ \A m \in 1 .. Len(sent) + 1 : st[m] \in Nat /\ st[m] <= Len(log)
         /\ \A m \in 1 .. Len(sent) : st[m + 1] = st[m] + sent[m].kept
         /\ \A m, n \in 1 .. Len(sent) + 1 : m <= n => st[m] <= st[n]
         /\ \A m \in 1 .. Len(sent) : \A k \in 1 .. sent[m].kept :
              log[st[m] + k] = <<m, k - 1>>
<1>1. \A m \in 1 .. Len(sent) + 1 : st[m] \in 0 .. Len(log)
  BY DEF Layout
<1>2. QED
  BY <1>1, Lengths DEF Layout

\* A byte of the file belongs to a record.
LEMMA ByteOf ==
  ASSUME LogTypes, NEW st, Layout(st), NEW i \in 1 .. Len(log)
  PROVE  \E m \in 1 .. Len(sent) : \E k \in 1 .. sent[m].kept :
           i = st[m] + k /\ log[i] = <<m, k - 1>>
BY DEF Layout

\* What is taken for a record is a record's number, or 0.
LEMMA RecordAtType ==
  ASSUME LogTypes, NEW st, Layout(st), NEW n \in Nat \ {0}, pos + n <= Len(log)
  PROVE  RecordAt(n) \in 0 .. Len(sent)
<1> DEFINE bytes == SubSeq(log, pos + 1, pos + n)
<1>1. pos \in Nat /\ Len(log) \in Nat /\ Len(sent) \in Nat
  BY Lengths
<1>2. \A i \in pos + 1 .. pos + n : log[i] \in ByteNames
  <2>1. \A i \in pos + 1 .. pos + n : i \in 1 .. Len(log)
    BY <1>1
  <2>2. QED
    BY <2>1, ElementOfSeq DEF LogTypes
<1>3. bytes[1] = log[pos + 1]
  <2>1. \A i \in 1 .. (pos + n) - (pos + 1) + 1 : bytes[i] = log[pos + 1 + i - 1]
    BY <1>1, <1>2, SubSeqProperties
  <2>2. 1 \in 1 .. (pos + n) - (pos + 1) + 1 /\ pos + 1 + 1 - 1 = pos + 1
    BY <1>1
  <2>3. QED
    BY <2>1, <2>2
<1>4. pos + 1 \in 1 .. Len(log)
  BY <1>1
<1>5. log[pos + 1][1] \in 1 .. Len(sent)
  BY <1>4, ByteOf
<1>6. QED
  BY <1>1, <1>3, <1>5 DEF RecordAt

\* At the start of a record its bytes are found, as many as DOS has written.
LEMMA RecordFound ==
  ASSUME LogTypes, NEW st, Layout(st), NEW m \in 1 .. Len(sent), pos = st[m],
         NEW n \in Nat \ {0}, n <= sent[m].kept
  PROVE  RecordAt(n) = m /\ pos + n <= Len(log)
<1> DEFINE bytes == SubSeq(log, pos + 1, pos + n)
<1>1. /\ pos \in Nat /\ Len(log) \in Nat /\ Len(sent) \in Nat
      /\ sent[m].kept \in Nat
  BY Lengths, RecordFacts
<1>2. pos + n <= Len(log)
  <2>1. m + 1 \in 1 .. Len(sent) + 1
    BY <1>1
  <2>2. st[m + 1] = pos + sent[m].kept /\ st[m + 1] <= Len(log)
    BY <2>1, LayoutFacts
  <2>3. QED
    BY <1>1, <2>2
<1>3. \A i \in 1 .. n : log[pos + i] = <<m, i - 1>>
  <2>1. \A i \in 1 .. n : i \in 1 .. sent[m].kept
    BY <1>1
  <2>2. QED
    BY <2>1, LayoutFacts
<1>4. \A i \in pos + 1 .. pos + n : log[i] \in ByteNames
  <2>1. \A i \in pos + 1 .. pos + n : i \in 1 .. Len(log)
    BY <1>1, <1>2
  <2>2. QED
    BY <2>1, ElementOfSeq DEF LogTypes
<1>5. /\ bytes \in Seq(ByteNames) /\ Len(bytes) = n
      /\ \A i \in 1 .. n : bytes[i] = log[pos + i]
  <2>0. pos + 1 \in Int /\ pos + n \in Int
    BY <1>1
  <2>1. /\ bytes \in Seq(ByteNames)
        /\ Len(bytes) = IF pos + 1 <= pos + n THEN (pos + n) - (pos + 1) + 1 ELSE 0
        /\ \A i \in 1 .. (pos + n) - (pos + 1) + 1 : bytes[i] = log[(pos + 1) + i - 1]
    BY <1>4, <2>0, SubSeqProperties
  <2>2. (pos + n) - (pos + 1) + 1 = n /\ pos + 1 <= pos + n
    BY <1>1
  <2>3. \A i \in 1 .. n : (pos + 1) + i - 1 = pos + i
    BY <1>1
  <2>4. QED
    BY <2>1, <2>2, <2>3
<1> HIDE DEF bytes
<1>6. bytes[1][1] = m
  <2>1. 1 \in 1 .. n
    OBVIOUS
  <2>2. bytes[1] = <<m, 1 - 1>>
    BY <1>3, <1>5, <2>1
  <2>3. QED
    BY <2>2
<1>7. bytes = Bytes(m, n)
  <2>1. /\ Bytes(m, n) \in Seq(ByteNames) /\ Len(Bytes(m, n)) = n
        /\ \A i \in 1 .. n : Bytes(m, n)[i] = <<m, i - 1>>
    <3>1. m \in Nat \ {0} /\ n \in Nat
      BY <1>1
    <3>2. QED
      BY <3>1, BytesSeq
  <2>2. QED
    BY <1>3, <1>5, <2>1, SeqEqual
<1>8. QED
  BY <1>2, <1>6, <1>7 DEF RecordAt, bytes

\* When bytes are left, the analyzer is at a record of which some are kept:
\* nothing is kept of those that start at the same place before it.
LEMMA AtRecord ==
  ASSUME LogTypes, NEW st, Layout(st), NEW j \in 1 .. Len(sent) + 1,
         InStep(st, j), pc # "done", pos < Len(log)
  PROVE  \E m \in 1 .. Len(sent) : InStep(st, m) /\ sent[m].kept > 0
<1>1. pos \in Nat /\ Len(log) \in Nat /\ Len(sent) \in Nat /\ pos = st[j]
  BY Lengths DEF InStep
<1>2. PICK m \in 1 .. Len(sent) : \E k \in 1 .. sent[m].kept : pos + 1 = st[m] + k
  <2>1. pos + 1 \in 1 .. Len(log)
    BY <1>1
  <2>2. QED
    BY <2>1, ByteOf
<1>3. /\ sent[m].kept \in Nat /\ st[m] \in Nat
      /\ m + 1 \in 1 .. Len(sent) + 1 /\ m \in 1 .. Len(sent) + 1
      /\ st[m + 1] = st[m] + sent[m].kept
  <2>1. m + 1 \in 1 .. Len(sent) + 1 /\ m \in 1 .. Len(sent) + 1
    BY <1>1
  <2>2. QED
    BY <2>1, RecordFacts, LayoutFacts
<1>4. j <= m
  <2>1. st[m + 1] > st[j]
    BY <1>1, <1>2, <1>3
  <2>2. m + 1 <= j => st[m + 1] <= st[j]
    BY <1>3 DEF Layout
  <2>3. QED
    BY <1>1, <1>3, <2>1, <2>2
<1>5. st[m] = pos
  <2>1. st[j] <= st[m]
    BY <1>3, <1>4 DEF Layout
  <2>2. QED
    BY <1>1, <1>2, <1>3, <2>1
<1>6. \A l \in j .. m - 1 : ~Whole(l) /\ ~Torn(l)
  <2> TAKE l \in j .. m - 1
  <2>1. /\ l \in 1 .. Len(sent) /\ l \in 1 .. Len(sent) + 1
        /\ l + 1 \in 1 .. Len(sent) + 1 /\ j <= l /\ l + 1 <= m
    BY <1>1
  <2>2. st[j] <= st[l] /\ st[l + 1] <= st[m] /\ st[l + 1] = st[l] + sent[l].kept
    BY <1>3, <2>1, LayoutFacts
  <2>3. st[l] \in Nat /\ sent[l].kept \in Nat
    BY <2>1, RecordFacts, LayoutFacts
  <2>4. sent[l].kept = 0
    <3>1. pos <= st[l] /\ st[l] + sent[l].kept <= pos
      BY <1>1, <1>5, <2>2
    <3>2. QED
      BY <1>1, <2>3, <3>1
  <2>5. QED
    BY <2>1, <2>4, RecordFacts
<1>7. Intact(m)
  <2>1. \A l \in 1 .. m - 1 : l \in 1 .. j - 1 \/ l \in j .. m - 1
    BY <1>1
  <2>2. QED
    BY <1>6, <2>1 DEF InStep, Intact
<1>8. \A n \in j .. m : ShowsWhole(Len(shown), n)
  <2> TAKE n \in j .. m
  <2>1. \A l \in j .. n - 1 : ~Whole(l)
    BY <1>6
  <2>2. n \in Nat /\ j \in Nat /\ j <= n /\ Len(shown) \in Nat
    BY <1>1, Lengths
  <2>3. QED
    BY <2>1, <2>2, NothingWhole DEF InStep
<1>9. \A n \in 1 .. m : Shows(n)
  <2> TAKE n \in 1 .. m
  <2>1. n \in 1 .. j \/ n \in j .. m
    BY <1>1
  <2>2. Len(shown) \in 0 .. Len(shown)
    BY Lengths
  <2>3. QED
    BY <1>8, <2>1, <2>2 DEF InStep, Shows
<1>10. QED
  <2>1. ShowsWhole(Len(shown), m)
    BY <1>4, <1>8
  <2>2. sent[m].kept > 0
    BY <1>2, <1>3
  <2>3. QED
    BY <1>5, <1>7, <1>9, <2>1, <2>2 DEF InStep

-----------------------------------------------------------------------------
(* LogInv is inductive, action by action.                                  *)

LEMMA LogInitInv == LogInit => LogInv
<1> SUFFICES ASSUME LogInit PROVE LogInv
  OBVIOUS
<1>1. /\ sent \in Seq(Records) /\ log \in Seq(ByteNames)
      /\ shown \in Seq(0 .. Len(sent))
      /\ Len(sent) = 0 /\ Len(log) = 0 /\ Len(shown) = 0
  BY EmptySeq DEF LogInit
<1>2. LogTypes
  <2>1. Len(sent) <= MaxRecords /\ pos \in 0 .. Len(log) /\ 1 .. Len(sent) = {}
    BY <1>1, LogFileAssumption DEF LogInit
  <2>2. QED
    BY <1>1, <2>1 DEF LogInit, LogTypes
<1> DEFINE st == [m \in 1 .. Len(sent) + 1 |-> 0]
<1>3. Layout(st)
  <2>1. 1 .. Len(sent) + 1 = {1} /\ 1 .. Len(sent) = {} /\ 1 .. Len(log) = {}
    BY <1>1
  <2>2. QED
    BY <1>1, <2>1 DEF Layout
<1>4. InStep(st, 1)
  <2>1. 1 .. 0 = {} /\ 1 .. 1 = {1} /\ 0 \in 0 .. Len(shown) /\ 1 - 1 = 0
    BY <1>1
  <2>2. ShowsWhole(0, 1) /\ Intact(1)
    BY <2>1 DEF ShowsWhole, Intact
  <2>3. \A n \in 1 .. 1 : Shows(n)
    BY <2>1, <2>2 DEF Shows
  <2>4. st[1] = 0
    BY <1>1
  <2>5. QED
    BY <1>1, <2>2, <2>3, <2>4 DEF InStep, LogInit
<1>5. 1 \in 1 .. Len(sent) + 1
  BY <1>1
<1>6. QED
  BY <1>2, <1>3, <1>4, <1>5 DEF LogInit, LogInv

\* A record is laid behind the others.
LEMMA LaidBehind ==
  ASSUME LogTypes, NEW st, Layout(st),
         NEW size \in Sizes, NEW kept \in 0 .. size, WriteEntry(size, kept)
  PROVE  /\ sent' \in Seq(Records) /\ log' \in Seq(ByteNames)
         /\ \A m \in 1 .. Len(sent') : sent'[m].kept <= sent'[m].size
         /\ \E t : Layout(t)'
<1> DEFINE n == Len(sent) + 1
           e == [size |-> size, kept |-> kept]
           b == Bytes(n, kept)
<1>1. /\ n \in Nat \ {0} /\ Len(log) \in Nat /\ kept \in Nat /\ Len(sent) \in Nat
      /\ n = Len(sent) + 1
  BY Lengths, LogFileAssumption DEF Sizes
<1>2. /\ sent' \in Seq(Records) /\ Len(sent') = n
      /\ sent'[n].kept = kept /\ sent'[n].size = size
      /\ \A m \in 1 .. Len(sent) : sent'[m] = sent[m]
  <2>1. e \in Records
    BY <1>1 DEF Records
  <2>2. /\ sent' = Append(sent, e) /\ sent \in Seq(Records)
        /\ e.kept = kept /\ e.size = size
    BY DEF WriteEntry, LogTypes
  <2> HIDE DEF e
  <2>3. QED
    BY <2>1, <2>2, AppendProperties
<1>3. /\ log' \in Seq(ByteNames) /\ Len(log') = Len(log) + kept
      /\ \A i \in 1 .. Len(log) : log'[i] = log[i]
      /\ \A k \in 1 .. kept : log'[Len(log) + k] = <<n, k - 1>>
  <2>1. /\ b \in Seq(ByteNames) /\ Len(b) = kept
        /\ \A k \in 1 .. kept : b[k] = <<n, k - 1>>
    BY <1>1, BytesSeq
  <2>2. log' = log \o b /\ log \in Seq(ByteNames)
    BY <1>2 DEF WriteEntry, LogTypes
  <2> HIDE DEF b
  <2>3. /\ log' \in Seq(ByteNames) /\ Len(log') = Len(log) + kept
        /\ \A i \in 1 .. Len(log) + kept :
             log'[i] = IF i <= Len(log) THEN log[i] ELSE b[i - Len(log)]
    BY <2>1, <2>2, ConcatProperties
  <2>4. \A i \in 1 .. Len(log) : log'[i] = log[i]
    BY <1>1, <2>3
  <2>5. \A k \in 1 .. kept : log'[Len(log) + k] = b[k]
    <3> TAKE k \in 1 .. kept
    <3>1. /\ Len(log) + k \in 1 .. Len(log) + kept /\ ~(Len(log) + k <= Len(log))
          /\ (Len(log) + k) - Len(log) = k
      BY <1>1
    <3>2. QED
      BY <2>3, <3>1
  <2>6. QED
    BY <2>1, <2>3, <2>4, <2>5
<1>4. /\ st \in [1 .. n -> 0 .. Len(log)] /\ st[1] = 0 /\ st[n] = Len(log)
      /\ \A m \in 1 .. Len(sent) : st[m + 1] = st[m] + sent[m].kept
      /\ \A m, l \in 1 .. n : m <= l => st[m] <= st[l]
      /\ \A m \in 1 .. Len(sent) : \A k \in 1 .. sent[m].kept :
           log[st[m] + k] = <<m, k - 1>>
      /\ \A i \in 1 .. Len(log) : \E m \in 1 .. Len(sent) :
           \E k \in 1 .. sent[m].kept : i = st[m] + k
  BY DEF Layout
<1> HIDE DEF n, e, b
<1> PICK t : t = [m \in 1 .. n + 1 |-> IF m <= n THEN st[m] ELSE Len(log) + kept]
  OBVIOUS
<1>5. /\ \A m \in 1 .. n : t[m] = st[m] /\ st[m] \in 0 .. Len(log)
      /\ t[n + 1] = Len(log) + kept
  <2>1. \A m \in 1 .. n : m \in 1 .. n + 1 /\ m <= n
    BY <1>1
  <2>2. n + 1 \in 1 .. n + 1 /\ ~(n + 1 <= n)
    BY <1>1
  <2>3. QED
    BY <1>4, <2>1, <2>2
<1>6. t \in [1 .. n + 1 -> 0 .. Len(log')]
  BY <1>1, <1>3, <1>4
<1>7. \A m \in 1 .. n + 1 : m \in 1 .. n \/ m = n + 1
  BY <1>1
<1>8. \A m \in 1 .. n : m \in 1 .. Len(sent) \/ m = n
  BY <1>1
<1>9. \A m \in 1 .. n : t[m + 1] = t[m] + sent'[m].kept
  <2> TAKE m \in 1 .. n
  <2>1. CASE m \in 1 .. Len(sent)
    <3>1. m + 1 \in 1 .. n
      BY <2>1, <1>1
    <3>2. QED
      BY <1>2, <1>4, <1>5, <2>1, <3>1
  <2>2. CASE m = n
    BY <1>2, <1>4, <1>5, <2>2
  <2>3. QED
    BY <1>8, <2>1, <2>2
<1>10. \A m, l \in 1 .. n + 1 : m <= l => t[m] <= t[l]
  <2> TAKE m, l \in 1 .. n + 1
  <2> HAVE m <= l
  <2>1. CASE l \in 1 .. n
    <3>1. m \in 1 .. n
      BY <1>1, <2>1
    <3>2. st[m] <= st[l]
      BY <1>4, <2>1, <3>1
    <3>3. QED
      BY <1>5, <2>1, <3>1, <3>2
  <2>2. CASE l = n + 1
    <3>1. CASE m \in 1 .. n
      <4>1. t[m] \in 0 .. Len(log)
        BY <1>5, <3>1
      <4>2. QED
        BY <1>1, <1>5, <2>2, <4>1
    <3>2. CASE m = n + 1
      BY <1>1, <1>5, <2>2, <3>2
    <3>3. QED
      BY <1>7, <3>1, <3>2
  <2>3. QED
    BY <1>7, <2>1, <2>2
<1>11. \A m \in 1 .. n : \A k \in 1 .. sent'[m].kept : log'[t[m] + k] = <<m, k - 1>>
  <2> TAKE m \in 1 .. n
  <2>1. CASE m \in 1 .. Len(sent)
    <3>1. sent'[m].kept = sent[m].kept /\ t[m] = st[m]
      BY <1>2, <1>5, <2>1
    <3>2. ASSUME NEW k \in 1 .. sent[m].kept PROVE st[m] + k \in 1 .. Len(log)
      <4>1. /\ sent[m].kept \in Nat /\ st[m] \in Nat /\ st[m + 1] = st[m] + sent[m].kept
            /\ st[m + 1] <= Len(log)
        <5>1. m + 1 \in 1 .. Len(sent) + 1 /\ m \in 1 .. Len(sent) + 1
          BY <1>1, <2>1
        <5>2. QED
          BY <2>1, <5>1, RecordFacts, LayoutFacts
      <4>2. QED
        BY <1>1, <4>1, Within
    <3>3. QED
      BY <1>3, <1>4, <2>1, <3>1, <3>2
  <2>2. CASE m = n
    <3>1. sent'[m].kept = kept /\ t[m] = Len(log)
      BY <1>2, <1>4, <1>5, <2>2
    <3>2. \A k \in 1 .. kept : log'[Len(log) + k] = <<m, k - 1>>
      BY <1>3, <2>2
    <3>3. QED
      BY <3>1, <3>2
  <2>3. QED
    BY <1>8, <2>1, <2>2
<1>12. \A i \in 1 .. Len(log') : \E m \in 1 .. n :
         \E k \in 1 .. sent'[m].kept : i = t[m] + k
  <2> TAKE i \in 1 .. Len(log')
  <2>1. CASE i \in 1 .. Len(log)
    <3>1. PICK m \in 1 .. Len(sent) : \E k \in 1 .. sent[m].kept : i = st[m] + k
      BY <1>4, <2>1
    <3>2. m \in 1 .. n /\ sent'[m].kept = sent[m].kept /\ t[m] = st[m]
      BY <1>1, <1>2, <1>5
    <3>3. QED
      BY <3>1, <3>2
  <2>2. CASE i \notin 1 .. Len(log)
    <3> DEFINE k == i - Len(log)
    <3>1. k \in 1 .. kept /\ i = Len(log) + k
      BY <1>1, <1>3, <2>2
    <3>2. n \in 1 .. n /\ t[n] = Len(log)
      BY <1>1, <1>4, <1>5
    <3>3. QED
      BY <1>2, <3>1, <3>2
  <2>3. QED
    BY <2>1, <2>2
<1>13. t[1] = 0 /\ t[Len(sent') + 1] = Len(log')
  BY <1>1, <1>2, <1>3, <1>4, <1>5
<1>14. Layout(t)'
  BY <1>2, <1>6, <1>9, <1>10, <1>11, <1>12, <1>13 DEF Layout
<1>15. \A m \in 1 .. n : sent'[m].kept <= sent'[m].size
  <2> TAKE m \in 1 .. n
  <2>1. CASE m \in 1 .. Len(sent)
    BY <1>2, <2>1, RecordFacts
  <2>2. CASE m = n
    <3>1. kept <= size
      BY LogFileAssumption DEF Sizes
    <3>2. QED
      BY <1>2, <2>2, <3>1
  <2>3. QED
    BY <1>8, <2>1, <2>2
<1>16. QED
  BY <1>2, <1>3, <1>14, <1>15

LEMMA WriteEntryInv ==
  ASSUME LogInv, NEW size \in Sizes, NEW kept \in 0 .. size, WriteEntry(size, kept)
  PROVE  LogInv'
<1>1. /\ pc = "record" /\ pc' = "record" /\ pos' = 0 /\ shown' = <<>>
      /\ LogTypes /\ Len(sent) < MaxRecords
      /\ \E st : Layout(st)
  BY DEF WriteEntry, LogInv
<1>2. /\ sent' \in Seq(Records) /\ log' \in Seq(ByteNames)
      /\ \A m \in 1 .. Len(sent') : sent'[m].kept <= sent'[m].size
      /\ \E t : Layout(t)'
  BY <1>1, LaidBehind
<1>3. PICK t : Layout(t)'
  BY <1>2
<1>4. /\ Len(sent') \in Nat /\ Len(log') \in Nat /\ shown' \in Seq(0 .. Len(sent'))
      /\ Len(shown') = 0
  BY <1>1, <1>2, LenProperties, EmptySeq
<1>5. Len(sent') <= MaxRecords
  <2> DEFINE e == [size |-> size, kept |-> kept]
  <2>1. sent' = Append(sent, e) /\ sent \in Seq(Records) /\ e \in Records
    BY <1>1, LogFileAssumption DEF WriteEntry, LogTypes, Records, Sizes
  <2> HIDE DEF e
  <2>2. Len(sent') = Len(sent) + 1 /\ Len(sent) \in Nat
    BY <2>1, AppendProperties, LenProperties
  <2>3. QED
    BY <1>1, <2>2, LogFileAssumption
<1>6. LogTypes'
  BY <1>1, <1>2, <1>4, <1>5 DEF LogTypes
<1>7. InStep(t, 1)'
  <2>1. 1 .. 0 = {} /\ 1 .. 1 = {1} /\ 0 \in 0 .. 0 /\ 1 - 1 = 0
    OBVIOUS
  <2>2. ShowsWhole(0, 1)' /\ Intact(1)'
    BY <2>1 DEF ShowsWhole, Intact
  <2>3. \A n \in 1 .. 1 : Shows(n)'
    BY <1>4, <2>1, <2>2 DEF Shows
  <2>4. t[1] = 0
    BY <1>3 DEF Layout
  <2>5. ShowsWhole(Len(shown), 1)'
    BY <1>4, <2>2
  <2>6. QED
    BY <1>1, <2>2, <2>3, <2>4, <2>5 DEF InStep
<1>8. 1 \in 1 .. Len(sent') + 1
  BY <1>4
<1>9. QED
  BY <1>1, <1>3, <1>6, <1>7, <1>8 DEF LogInv

\* What is recorded stays as it is while it is analyzed.
LEMMA Recorded ==
  ASSUME UNCHANGED <<sent, log>>
  PROVE  /\ \A st : Layout(st)' <=> Layout(st)
         /\ \A n : Intact(n)' <=> Intact(n)
         /\ \A m : (Whole(m)' <=> Whole(m)) /\ (Torn(m)' <=> Torn(m))
         /\ \A m : Ends(m)' <=> Ends(m)
<1>1. \A m : (Whole(m)' <=> Whole(m)) /\ (Torn(m)' <=> Torn(m))
  BY DEF Whole, Torn
<1>2. \A m : Ends(m)' <=> Ends(m)
  BY DEF Ends
<1>3. \A n : Intact(n)' <=> Intact(n)
  BY <1>1 DEF Intact
<1>4. \A st : Layout(st)' <=> Layout(st)
  BY DEF Layout
<1>5. QED
  BY <1>1, <1>2, <1>3, <1>4

\* A whole record that is left of the analyzer has the bytes it is read with.
LEMMA WholeAhead ==
  ASSUME LogTypes, NEW st, Layout(st), NEW j \in 1 .. Len(sent) + 1,
         NEW m \in j .. Len(sent), Whole(m)
  PROVE  st[j] + SHORT <= Len(log)
<1>1. /\ Len(sent) \in Nat /\ Len(log) \in Nat
      /\ m \in 1 .. Len(sent) /\ m \in 1 .. Len(sent) + 1
      /\ m + 1 \in 1 .. Len(sent) + 1 /\ j <= m
  BY Lengths
<1>2. /\ st[j] \in Nat /\ st[m] \in Nat /\ st[j] <= st[m]
      /\ st[m + 1] = st[m] + sent[m].kept /\ st[m + 1] <= Len(log)
  BY <1>1, LayoutFacts
<1>3. sent[m].kept \in Nat /\ sent[m].kept >= SHORT
  BY <1>1, RecordFacts DEF Whole
<1>4. st[m] + sent[m].kept <= Len(log)
  BY <1>2
<1> DEFINE kept == sent[m].kept
           s    == st[m]
<1> HIDE DEF kept, s
<1>5. s \in Nat /\ kept \in Nat /\ kept >= SHORT /\ st[j] <= s /\ s + kept <= Len(log)
      => st[j] + SHORT <= Len(log)
  BY <1>1, <1>2, LogFileAssumption
<1>6. QED
  BY <1>2, <1>3, <1>4, <1>5 DEF kept, s

LEMMA EndOfLogInv ==
  ASSUME LogInv, EndOfLog
  PROVE  LogInv'
<1>1. /\ LogTypes /\ pc = "analyze" /\ pc' = "done" /\ pos + SHORT > Len(log)
      /\ UNCHANGED <<sent, log, pos, shown>>
  BY DEF EndOfLog, LogInv
<1>2. PICK st : /\ Layout(st)
                /\ \/ \E j \in 1 .. Len(sent) + 1 : InStep(st, j)
                   \/ \E j \in 1 .. Len(sent) : Lost(j)
  BY DEF LogInv
<1>3. LogTypes' /\ Layout(st)'
  BY <1>1, <1>2, Recorded DEF LogTypes
<1>4. \A k, n : (ShowsWhole(k, n)' <=> ShowsWhole(k, n)) /\ (Shows(n)' <=> Shows(n))
  BY <1>1 DEF ShowsWhole, Shows, Whole
<1>5. ASSUME NEW j \in 1 .. Len(sent) + 1, InStep(st, j)
      PROVE  InStep(st, j)'
  <2>1. \A m \in j .. Len(sent) : ~Whole(m)
    <3> SUFFICES ASSUME NEW m \in j .. Len(sent), Whole(m) PROVE FALSE
      OBVIOUS
    <3>1. pos + SHORT <= Len(log)
      BY <1>1, <1>2, <1>5, WholeAhead DEF InStep
    <3>2. pos \in Nat /\ Len(log) \in Nat
      BY <1>1, Lengths
    <3>3. QED
      BY <1>1, <3>1, <3>2, LogFileAssumption
  <2>2. ShowsWhole(Len(shown), j)'
    BY <1>1, <1>4, <1>5 DEF InStep
  <2>3. QED
    BY <1>1, <1>4, <1>5, <2>1, <2>2, Recorded DEF InStep
<1>6. ASSUME NEW j \in 1 .. Len(sent), Lost(j)
      PROVE  Lost(j)'
  <2>1. Ends(j)' => ShowsWhole(Len(shown), j)'
    BY <1>1, <1>4, <1>6, Recorded DEF Lost
  <2>2. QED
    BY <1>1, <1>4, <1>6, <2>1, Recorded DEF Lost
<1>7. QED
  BY <1>1, <1>2, <1>3, <1>5, <1>6 DEF LogInv

\* A step of neither the recorder nor the analyzer.
LEMMA SameLog ==
  ASSUME LogInv, UNCHANGED <<sent, log, pos, shown>>,
         pc' = pc \/ pc' = "analyze"
  PROVE  LogInv'
<1>1. LogTypes /\ (pc = "record" => pos = 0 /\ shown = <<>>)
  BY DEF LogInv
<1>2. PICK st : /\ Layout(st)
                /\ \/ \E j \in 1 .. Len(sent) + 1 : InStep(st, j)
                   \/ \E j \in 1 .. Len(sent) : Lost(j)
  BY DEF LogInv
<1>3. LogTypes' /\ Layout(st)' /\ (pc' = "record" => pos' = 0 /\ shown' = <<>>)
  BY <1>1, <1>2, Recorded DEF LogTypes
<1>4. \A k, n : (ShowsWhole(k, n)' <=> ShowsWhole(k, n)) /\ (Shows(n)' <=> Shows(n))
  BY DEF ShowsWhole, Shows, Whole
<1>5. ASSUME NEW j, InStep(st, j)
      PROVE  InStep(st, j)'
  <2>1. ShowsWhole(Len(shown), j)'
    BY <1>4, <1>5 DEF InStep
  <2>2. QED
    BY <1>4, <1>5, <2>1, Recorded DEF InStep
<1>6. ASSUME NEW j, Lost(j)
      PROVE  Lost(j)'
  <2>1. Ends(j)' => ShowsWhole(Len(shown), j)'
    BY <1>4, <1>6, Recorded DEF Lost
  <2>2. QED
    BY <1>4, <1>6, <2>1, Recorded DEF Lost
<1>7. QED
  BY <1>2, <1>3, <1>5, <1>6 DEF LogInv

\* The file ends with a record that nothing is kept after.
LEMMA NothingAfter ==
  ASSUME LogTypes, NEW st, Layout(st), NEW m \in 1 .. Len(sent), Ends(m)
  PROVE  Len(log) = st[m] + sent[m].kept
<1>1. /\ Len(sent) \in Nat /\ Len(log) \in Nat /\ m + 1 \in 1 .. Len(sent) + 1
  BY Lengths
<1>2. /\ st[m + 1] = st[m] + sent[m].kept
      /\ st[m + 1] \in Nat /\ st[m + 1] <= Len(log)
  BY <1>1, LayoutFacts
<1>3. ~(st[m + 1] < Len(log))
  <2> SUFFICES ASSUME st[m + 1] < Len(log) PROVE FALSE
    OBVIOUS
  <2>1. st[m + 1] + 1 \in 1 .. Len(log)
    BY <1>1, <1>2
  <2> DEFINE i == st[m + 1] + 1
  <2> HIDE DEF i
  <2>2. PICK l \in 1 .. Len(sent) : \E k \in 1 .. sent[l].kept : i = st[l] + k
    <3>1. i \in 1 .. Len(log)
      BY <2>1 DEF i
    <3>2. QED
      BY <3>1, ByteOf
  <2>3. /\ sent[l].kept \in Nat /\ sent[l].kept # 0
    BY <2>2, RecordFacts
  <2>4. l <= m
    <3>1. l \in m + 1 .. Len(sent) => sent[l].kept = 0
      BY DEF Ends
    <3>2. QED
      BY <1>1, <2>3, <3>1
  <2>5. /\ l + 1 \in 1 .. Len(sent) + 1 /\ l \in 1 .. Len(sent) + 1 /\ l + 1 <= m + 1
    BY <1>1, <2>4
  <2>6. /\ st[l] \in Nat /\ st[l + 1] = st[l] + sent[l].kept /\ st[l + 1] <= st[m + 1]
    BY <1>1, <2>5, LayoutFacts
  <2>7. st[l] + sent[l].kept <= st[m + 1]
    BY <2>6
  <2>8. QED
    BY <1>2, <2>2, <2>3, <2>6, <2>7 DEF i
<1>4. Len(log) = st[m + 1]
  BY <1>1, <1>2, <1>3
<1>5. QED
  BY <1>2, <1>4

\* A tag that was written in full tells the size of its record.
LEMMA TagRead ==
  ASSUME LogTypes, NEW st, Layout(st), NEW m \in 1 .. Len(sent), pos = st[m],
         sent[m].kept >= SHORT
  PROVE  SizesAt = {sent[m].size}
<1>1. 2 \in Nat \ {0} /\ 2 <= sent[m].kept
  BY RecordFacts, LogFileAssumption
<1>2. TagOf = m
  BY <1>1, RecordFound DEF TagOf
<1>3. m # 0
  OBVIOUS
<1>4. QED
  BY <1>2, <1>3 DEF SizesAt

\* A round of the analyzer, in terms of the size that it reads.
LEMMA Round ==
  ASSUME LogTypes, NEW st, Layout(st), ReadRecord
  PROVE  /\ pc = "analyze" /\ UNCHANGED <<sent, log, pc>>
         /\ pos + SHORT <= Len(log) /\ pos < Len(log)
         /\ \E size \in SizesAt :
              \/ pos + size <= Len(log) /\ Take(size)
              \/ ~(pos + size <= Len(log)) /\ TakeRest
         /\ SizesAt \subseteq Sizes
         /\ pos' \in 0 .. Len(log) /\ pos' > pos
         /\ \E x \in 0 .. Len(sent) : shown' = shown \/ shown' = Append(shown, x)
<1>1. /\ pos \in Nat /\ pos \in 0 .. Len(log) /\ Len(log) \in Nat /\ Len(sent) \in Nat
  BY Lengths
<1>2. /\ pc = "analyze" /\ pos + SHORT <= Len(log) /\ UNCHANGED <<sent, log, pc>>
      /\ \E size \in SizesAt :
           IF pos + size <= Len(log) THEN Take(size) ELSE TakeRest
  BY DEF ReadRecord
<1>3. pos < Len(log)
  BY <1>1, <1>2, LogFileAssumption
<1>4. SizesAt \subseteq Sizes
  <2>1. 2 \in Nat \ {0} /\ pos + 2 <= Len(log)
    BY <1>1, <1>2, LogFileAssumption
  <2>2. TagOf \in 0 .. Len(sent)
    BY <2>1, RecordAtType DEF TagOf
  <2>3. TagOf # 0 => TagOf \in 1 .. Len(sent)
    BY <1>1, <2>2
  <2>4. TagOf # 0 => sent[TagOf].size \in Sizes
    BY <2>3, RecordFacts
  <2>5. QED
    BY <2>4 DEF SizesAt
<1>5. PICK size \in SizesAt : IF pos + size <= Len(log) THEN Take(size) ELSE TakeRest
  BY <1>2
<1>6. size \in Nat \ {0}
  BY <1>4, LogFileAssumption DEF Sizes
<1>7. CASE pos + size <= Len(log)
  <2>1. pos' = pos + size /\ shown' = Append(shown, RecordAt(size))
    BY <1>5, <1>7 DEF Take
  <2>2. RecordAt(size) \in 0 .. Len(sent)
    BY <1>6, <1>7, RecordAtType
  <2>3. pos' \in 0 .. Len(log) /\ pos' > pos
    BY <1>1, <1>6, <1>7, <2>1
  <2>4. QED
    BY <1>2, <1>3, <1>4, <1>5, <1>7, <2>1, <2>2, <2>3
<1>8. CASE ~(pos + size <= Len(log))
  <2>1. TakeRest /\ pos' = Len(log) /\ shown' = shown
    BY <1>5, <1>8 DEF TakeRest
  <2>2. pos' \in 0 .. Len(log) /\ pos' > pos /\ 0 \in 0 .. Len(sent)
    BY <1>1, <1>3, <2>1
  <2>3. QED
    BY <1>2, <1>3, <1>4, <1>8, <2>1, <2>2
<1>9. QED
  BY <1>7, <1>8

\* At a whole record the analyzer shows it and goes on to the next.
LEMMA ReadWhole ==
  ASSUME LogTypes, NEW st, Layout(st), ReadRecord,
         NEW m \in 1 .. Len(sent), InStep(st, m), Whole(m)
  PROVE  InStep(st, m + 1)'
<1>1. /\ pc = "analyze" /\ UNCHANGED <<sent, log, pc>>
      /\ \E size \in SizesAt :
           \/ pos + size <= Len(log) /\ Take(size)
           \/ ~(pos + size <= Len(log)) /\ TakeRest
      /\ \E x \in 0 .. Len(sent) : shown' = shown \/ shown' = Append(shown, x)
  BY Round
<1>2. /\ pos = st[m] /\ Intact(m) /\ ShowsWhole(Len(shown), m)
      /\ \A n \in 1 .. m : Shows(n)
  BY DEF InStep
<1> DEFINE size == sent[m].size
<1>3. /\ size \in Nat \ {0} /\ sent[m].kept = size /\ sent[m].kept >= SHORT
      /\ size <= sent[m].kept /\ ~Torn(m)
  BY RecordFacts, LogFileAssumption DEF Whole
<1>4. RecordAt(size) = m /\ pos + size <= Len(log)
  BY <1>2, <1>3, RecordFound
<1>5. Take(size)
  BY <1>1, <1>2, <1>3, <1>4, TagRead
<1>6. pos' = st[m + 1] /\ shown' = Append(shown, m)
  BY <1>2, <1>3, <1>4, <1>5, LayoutFacts DEF Take
<1>7. ShowsWhole(Len(shown), m + 1)'
  BY <1>1, <1>2, <1>6, NextShown
<1>8. Intact(m + 1)
  <2>1. \A l \in 1 .. (m + 1) - 1 : l \in 1 .. m - 1 \/ l = m
    OBVIOUS
  <2>2. QED
    BY <1>2, <1>3, <2>1 DEF Intact
<1>9. \A n \in 1 .. m + 1 : Shows(n)'
  <2> TAKE n \in 1 .. m + 1
  <2>1. CASE n \in 1 .. m
    <3>1. Shows(n) /\ n \in Nat
      BY <1>2, <2>1
    <3>2. QED
      BY <1>1, <3>1, StillShown
  <2>2. CASE n = m + 1
    <3>1. Len(shown') \in 0 .. Len(shown')
      BY <1>1, StillShown
    <3>2. QED
      BY <1>7, <2>2, <3>1 DEF Shows
  <2>3. QED
    BY <2>1, <2>2
<1>10. QED
  BY <1>1, <1>6, <1>7, <1>8, <1>9, Recorded DEF InStep

\* At a torn record the analyzer may lose its way, unless the file ends there.
LEMMA ReadTorn ==
  ASSUME LogTypes, NEW st, Layout(st), ReadRecord,
         NEW m \in 1 .. Len(sent), InStep(st, m), Torn(m)
  PROVE  Lost(m)'
<1>1. /\ pc = "analyze" /\ UNCHANGED <<sent, log, pc>> /\ pos + SHORT <= Len(log)
      /\ \E size \in SizesAt :
           \/ pos + size <= Len(log) /\ Take(size)
           \/ ~(pos + size <= Len(log)) /\ TakeRest
      /\ \E x \in 0 .. Len(sent) : shown' = shown \/ shown' = Append(shown, x)
  BY Round
<1>2. /\ pos = st[m] /\ Intact(m) /\ ShowsWhole(Len(shown), m)
      /\ \A n \in 1 .. m : Shows(n)
  BY DEF InStep
<1>3. \A n \in 1 .. m : Shows(n)'
  <2>1. \A n \in 1 .. m : n \in Nat
    OBVIOUS
  <2>2. QED
    BY <1>1, <1>2, <2>1, StillShown
<1>4. ASSUME Ends(m) PROVE pos' = Len(log) /\ ShowsWhole(Len(shown), m)'
  <2>1. Len(log) = pos + sent[m].kept /\ pos \in Nat /\ Len(log) \in Nat
    BY <1>2, <1>4, NothingAfter, Lengths
  <2>2. /\ sent[m].kept \in Nat /\ sent[m].size \in Nat /\ sent[m].kept < sent[m].size
    BY RecordFacts DEF Torn
  <2>3. sent[m].kept >= SHORT /\ ~(pos + sent[m].size <= Len(log))
    BY <1>1, <2>1, <2>2, LogFileAssumption
  <2>4. TakeRest
    BY <1>1, <1>2, <2>3, TagRead
  <2>5. pos' = Len(log) /\ shown' = shown
    BY <2>4 DEF TakeRest
  <2>6. ShowsWhole(Len(shown), m)'
    BY <1>1, <1>2, <2>5 DEF ShowsWhole, Whole
  <2>7. QED
    BY <2>5, <2>6
<1>5. Ends(m)' => pos' = Len(log)' /\ ShowsWhole(Len(shown), m)'
  BY <1>1, <1>4, Recorded
<1>6. QED
  BY <1>1, <1>2, <1>3, <1>5, Recorded DEF Lost

LEMMA ReadRecordInv ==
  ASSUME LogInv, ReadRecord
  PROVE  LogInv'
<1>1. LogTypes
  BY DEF LogInv
<1>2. PICK st : /\ Layout(st)
                /\ \/ \E j \in 1 .. Len(sent) + 1 : InStep(st, j)
                   \/ \E j \in 1 .. Len(sent) : Lost(j)
  BY DEF LogInv
<1>3. /\ pc = "analyze" /\ UNCHANGED <<sent, log, pc>> /\ pos < Len(log)
      /\ pos' \in 0 .. Len(log)
      /\ \E x \in 0 .. Len(sent) : shown' = shown \/ shown' = Append(shown, x)
  BY <1>1, <1>2, Round
<1>4. shown' \in Seq(0 .. Len(sent))
  BY <1>1, <1>3, StillShown
<1>5. LogTypes' /\ Layout(st)'
  BY <1>1, <1>2, <1>3, <1>4, Recorded DEF LogTypes
<1>6. ASSUME NEW j \in 1 .. Len(sent) + 1, InStep(st, j)
      PROVE  \/ \E n \in 1 .. Len(sent) + 1 : InStep(st, n)'
             \/ \E n \in 1 .. Len(sent) : Lost(n)'
  <2>1. PICK m \in 1 .. Len(sent) : InStep(st, m) /\ sent[m].kept > 0
    BY <1>1, <1>2, <1>3, <1>6, AtRecord
  <2>2. Whole(m) \/ Torn(m)
    BY <1>1, <2>1, RecordFacts
  <2>3. m + 1 \in 1 .. Len(sent) + 1
    BY <1>1, Lengths
  <2>4. QED
    BY <1>1, <1>2, <2>1, <2>2, <2>3, ReadWhole, ReadTorn
<1>7. ASSUME NEW j \in 1 .. Len(sent), Lost(j)
      PROVE  Lost(j)'
  <2>1. ~Ends(j)
    <3>1. Len(log) \in Nat
      BY <1>1, Lengths
    <3>2. QED
      BY <1>3, <1>7, <3>1 DEF Lost
  <2>2. \A n \in 1 .. j : Shows(n)'
    <3>1. \A n \in 1 .. j : Shows(n) /\ n \in Nat
      BY <1>7 DEF Lost
    <3>2. QED
      BY <1>1, <1>3, <3>1, StillShown
  <2>3. QED
    BY <1>3, <1>7, <2>1, <2>2, Recorded DEF Lost
<1>8. \/ \E n \in 1 .. Len(sent') + 1 : InStep(st, n)'
      \/ \E n \in 1 .. Len(sent') : Lost(n)'
  BY <1>2, <1>3, <1>6, <1>7
<1>9. QED
  BY <1>3, <1>5, <1>8 DEF LogInv

LEMMA LogInvStep ==
  ASSUME LogInv, [LogNext]_logVars
  PROVE  LogInv'
<1>1. CASE Analyze \/ Done \/ UNCHANGED logVars
  BY <1>1, SameLog DEF Analyze, Done, logVars
<1>2. QED
  BY <1>1, WriteEntryInv, ReadRecordInv, EndOfLogInv DEF LogNext

-----------------------------------------------------------------------------
(* The theorems.                                                           *)

\* LogInv holds throughout every recording and its analysis.
THEOREM LogInvariance == LogSpec => []LogInv
<1>1. LogInit => LogInv
  BY LogInitInv
<1>2. LogInv /\ [LogNext]_logVars => LogInv'
  BY LogInvStep
<1>3. QED
  BY <1>1, <1>2, PTL DEF LogSpec

\* Every byte of the log is one of a record, and the analyzer stays in the log.
THEOREM LogTypeCorrect == LogSpec => []LogTypeOK
<1>1. LogInv => LogTypeOK
  <2> SUFFICES ASSUME LogInv PROVE LogTypeOK
    OBVIOUS
  <2>1. LogTypes /\ \E st : Layout(st)
    BY DEF LogInv
  <2>2. /\ DOMAIN sent = 1 .. Len(sent) /\ DOMAIN log = 1 .. Len(log)
        /\ DOMAIN shown = 1 .. Len(shown)
    BY <2>1, Lengths
  <2>3. \A n \in DOMAIN sent : /\ sent[n].size \in Sizes
                               /\ sent[n].kept \in 0 .. sent[n].size
    BY <2>1, <2>2, RecordFacts
  <2>4. \A i \in DOMAIN log : log[i] \in (DOMAIN sent) \X (0 .. LONG - 1)
    <3> TAKE i \in DOMAIN log
    <3>1. PICK m \in 1 .. Len(sent) : \E k \in 1 .. sent[m].kept : log[i] = <<m, k - 1>>
      BY <2>1, <2>2, ByteOf
    <3>2. sent[m].kept \in Nat /\ sent[m].kept <= LONG
      BY <2>1, RecordFacts, LogFileAssumption DEF Sizes
    <3>3. \A k \in 1 .. sent[m].kept : k - 1 \in 0 .. LONG - 1
      BY <3>2, LogFileAssumption
    <3>4. QED
      BY <2>2, <3>1, <3>3
  <2>5. \A i \in DOMAIN shown : shown[i] \in {0} \cup DOMAIN sent
    <3>1. \A i \in 1 .. Len(shown) : shown[i] \in 0 .. Len(sent)
      BY <2>1, ElementOfSeq DEF LogTypes
    <3>2. 0 .. Len(sent) = {0} \cup 1 .. Len(sent)
      BY <2>1, Lengths
    <3>3. QED
      BY <2>2, <3>1, <3>2
  <2>6. QED
    BY <2>1, <2>3, <2>4, <2>5 DEF LogTypes, LogTypeOK
<1>2. QED
  BY <1>1, LogInvariance, PTL

\* The log is shown as it was recorded up to the first record that is torn.
THEOREM ShownAsRecorded == LogSpec => []ShownUpToTear
<1>1. LogInv => ShownUpToTear
  <2> SUFFICES ASSUME LogInv, NEW n \in 1 .. Len(sent) + 1, Intact(n)
               PROVE  \/ Shows(n)
                      \/ pc # "done" /\ \E m \in 1 .. n : ShowsWhole(Len(shown), m)
    BY DEF ShownUpToTear, Shows
  <2>1. LogTypes /\ Len(sent) \in Nat /\ Len(shown) \in Nat
    BY Lengths DEF LogInv
  <2>2. ASSUME NEW st, NEW j \in 1 .. Len(sent) + 1, InStep(st, j)
        PROVE  \/ Shows(n)
               \/ pc # "done" /\ \E m \in 1 .. n : ShowsWhole(Len(shown), m)
    <3>1. CASE n <= j
      <4>1. n \in 1 .. j
        BY <3>1
      <4>2. QED
        BY <2>2, <4>1 DEF InStep
    <3>2. CASE ~(n <= j) /\ pc # "done"
      <4>1. j \in 1 .. n
        BY <3>2
      <4>2. QED
        BY <2>2, <3>2, <4>1 DEF InStep
    <3>3. CASE ~(n <= j) /\ pc = "done"
      <4>1. \A l \in j .. n - 1 : l \in j .. Len(sent)
        BY <2>1
      <4>2. ShowsWhole(Len(shown), j) /\ \A l \in j .. n - 1 : ~Whole(l)
        BY <2>2, <3>3, <4>1 DEF InStep
      <4>3. j \in Nat /\ n \in Nat /\ j <= n
        BY <3>3
      <4>4. ShowsWhole(Len(shown), n)
        BY <2>1, <4>2, <4>3, NothingWhole
      <4>5. Len(shown) \in 0 .. Len(shown)
        BY <2>1
      <4>6. QED
        BY <4>4, <4>5 DEF Shows
    <3>4. QED
      BY <3>1, <3>2, <3>3
  <2>3. ASSUME NEW j \in 1 .. Len(sent), Lost(j)
        PROVE  Shows(n)
    <3>1. ~(j \in 1 .. n - 1)
      BY <2>3 DEF Lost, Intact
    <3>2. n \in 1 .. j
      BY <2>1, <3>1
    <3>3. QED
      BY <2>3, <3>2 DEF Lost
  <2>4. QED
    BY <2>2, <2>3 DEF LogInv
<1>2. QED
  BY <1>1, LogInvariance, PTL

\* A torn record at the end of the log is dropped, and nothing else.
THEOREM TailDropped == LogSpec => []TornTailDropped
<1>1. LogInv => TornTailDropped
  <2> SUFFICES ASSUME LogInv, pc = "done",
                      \A n \in DOMAIN sent : Torn(n) => Ends(n)
               PROVE  ShowsWhole(Len(shown), Len(sent) + 1)
    BY DEF TornTailDropped, Ends
  <2>1. /\ LogTypes /\ Len(sent) \in Nat /\ Len(shown) \in Nat
        /\ DOMAIN sent = 1 .. Len(sent) /\ (Len(sent) + 1) - 1 = Len(sent)
    BY Lengths DEF LogInv
  <2>2. ASSUME NEW j \in 1 .. Len(sent) + 1, ShowsWhole(Len(shown), j),
               \A m \in j .. Len(sent) : ~Whole(m)
        PROVE  ShowsWhole(Len(shown), Len(sent) + 1)
    <3>1. j \in Nat /\ Len(sent) + 1 \in Nat /\ j <= Len(sent) + 1
      BY <2>1
    <3>2. QED
      BY <2>1, <2>2, <3>1, NothingWhole
  <2>3. ASSUME NEW j \in 1 .. Len(sent), Lost(j)
        PROVE  ShowsWhole(Len(shown), Len(sent) + 1)
    <3>1. ShowsWhole(Len(shown), j) /\ Ends(j) /\ ~Whole(j)
      BY <2>1, <2>3, RecordFacts DEF Lost
    <3>2. \A m \in j + 1 .. Len(sent) : ~Whole(m)
      <4>1. \A m \in j + 1 .. Len(sent) : m \in 1 .. Len(sent) /\ sent[m].kept = 0
        BY <2>1, <3>1 DEF Ends
      <4>2. QED
        BY <2>1, <4>1, RecordFacts
    <3>3. \A m \in j .. Len(sent) : m = j \/ m \in j + 1 .. Len(sent)
      BY <2>1
    <3>4. j \in 1 .. Len(sent) + 1
      BY <2>1
    <3>5. QED
      BY <2>2, <3>1, <3>2, <3>3, <3>4
  <2>4. QED
    BY <2>2, <2>3 DEF LogInv, InStep
<1>2. QED
  BY <1>1, LogInvariance, PTL

\* Every round of the analyzer's loop takes bytes of the file, in step or not:
\* the loop is over after as many rounds as the file has bytes, at most.
THEOREM RoundsAdvance == LogSpec => [][ReadRecord => pos' > pos]_logVars
<1>1. LogInv /\ ReadRecord => pos' > pos
  <2> SUFFICES ASSUME LogInv, ReadRecord PROVE pos' > pos
    OBVIOUS
  <2>1. LogTypes /\ \E st : Layout(st)
    BY DEF LogInv
  <2>2. QED
    BY <2>1, Round
<1>2. QED
  BY <1>1, LogInvariance, PTL DEF LogSpec
=============================================================================
