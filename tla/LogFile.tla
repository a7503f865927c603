------------------------------- MODULE LogFile -------------------------------
(***************************************************************************)
(* The recorder's log as a file: recorder/recorder.c appends records of    *)
(* two sizes and does not look at how much of one DOS has written (a full  *)
(* disk), recorder/analyze.c reads the file back and tells the records     *)
(* apart by their tag alone.  The analyzer runs when the recording is over.*)
(*                                                                         *)
(* A byte of the file is named by where it came from: the record's number  *)
(* and its offset in the record.                                           *)
(***************************************************************************)
EXTENDS Sequences, Integers

CONSTANTS
  SHORT,      \* the bytes of a record of 5 words: 10
  LONG,       \* the bytes of a record of 65 words: 130
  MaxRecords  \* bound: the records of a recording

ASSUME LogFileAssumption ==
  /\ SHORT \in Nat /\ SHORT >= 2   \* a tag has 2 bytes
  /\ LONG \in Nat /\ LONG > SHORT
  /\ MaxRecords \in Nat

VARIABLES
  sent,   \* the records, in order: their size, and the bytes DOS has written
  log,    \* the bytes of the file
  pc,     \* "record", "analyze", "done"
  pos,    \* the analyzer's position in the file
  shown   \* what the analyzer has shown: records' numbers, 0 for anything else

logVars == <<sent, log, pc, pos, shown>>

Sizes == {SHORT, LONG}

LogTypeOK ==
  /\ Len(sent) <= MaxRecords
  /\ \A n \in DOMAIN sent : /\ sent[n].size \in Sizes
                            /\ sent[n].kept \in 0 .. sent[n].size
  /\ \A i \in DOMAIN log : log[i] \in (DOMAIN sent) \X (0 .. LONG - 1)
  /\ pc \in {"record", "analyze", "done"}
  /\ pos \in 0 .. Len(log)
  /\ \A i \in DOMAIN shown : shown[i] \in {0} \cup DOMAIN sent

LogInit == /\ sent = <<>> /\ log = <<>> /\ pc = "record"
           /\ pos = 0 /\ shown = <<>>

-----------------------------------------------------------------------------
(* The recorder.                                                           *)

\* The bytes of record n, up to a length.
Bytes(n, length) == [i \in 1 .. length |-> <<n, i - 1>>]

\* Mutant of WriteEntry: the file is not sought to its end, so that a record
\* overwrites the beginning of the log.
WriteEntryUnsought(size, kept) ==
  /\ pc = "record" /\ Len(sent) < MaxRecords
  /\ sent' = Append(sent, [size |-> size, kept |-> kept])
  /\ log' = Bytes(Len(sent'), kept) \o SubSeq(log, kept + 1, Len(log))
  /\ UNCHANGED <<pc, pos, shown>>

\* write_entry_buf_to_log: the log is opened, sought to its end, written and
\* closed.  Nothing is kept of a record when it cannot be opened.
WriteEntry(size, kept) ==
  /\ pc = "record" /\ Len(sent) < MaxRecords
  /\ sent' = Append(sent, [size |-> size, kept |-> kept])
  /\ log' = log \o Bytes(Len(sent'), kept)
  /\ UNCHANGED <<pc, pos, shown>>

Analyze == /\ pc = "record" /\ pc' = "analyze"
           /\ UNCHANGED <<sent, log, pos, shown>>

-----------------------------------------------------------------------------
(* The analyzer.                                                           *)

\* The record that n bytes from the analyzer's position on are, 0 if none.
RecordAt(n) == LET bytes == SubSeq(log, pos + 1, pos + n)
                   rec   == bytes[1][1]
               IN  IF bytes = Bytes(rec, n) THEN rec ELSE 0

\* The record the next two bytes are the tag of, 0 when they are something else.
TagOf == RecordAt(2)

\* The size the tag stands for; data taken for a tag may be any.
SizesAt == IF TagOf # 0 THEN {sent[TagOf].size} ELSE Sizes

\* Mutant of Take: the file name is left to be read as the records that follow.
TakeShort(size) ==
  /\ pos' = pos + SHORT
  /\ shown' = Append(shown, RecordAt(SHORT))

\* The record is shown.
Take(size) ==
  /\ pos' = pos + size
  /\ shown' = Append(shown, RecordAt(size))

\* Mutant of TakeRest: the rest of the file is tried again.
TakeRestAgain == UNCHANGED <<pos, shown>>

\* Mutant of TakeRest: the record is shown with what the buffer holds.
TakeRestShown ==
  /\ pos' = Len(log)
  /\ shown' = Append(shown, 0)

\* Mutant of TakeRest: the record is skipped by its size.
TakeRestSkipped ==
  /\ pos' = pos + LONG
  /\ UNCHANGED shown

\* The rest of a long record is missing: all of the file has been read.
TakeRest ==
  /\ pos' = Len(log)
  /\ UNCHANGED shown

\* One round of main's loop.
ReadRecord ==
  /\ pc = "analyze" /\ pos + SHORT <= Len(log)
  /\ \E size \in SizesAt :
       IF pos + size <= Len(log) THEN Take(size) ELSE TakeRest
  /\ UNCHANGED <<sent, log, pc>>

EndOfLog ==
  /\ pc = "analyze" /\ pos + SHORT > Len(log)
  /\ pc' = "done"
  /\ UNCHANGED <<sent, log, pos, shown>>

Done == pc = "done" /\ UNCHANGED logVars

LogNext == \/ \E size \in Sizes : \E kept \in 0 .. size : WriteEntry(size, kept)
           \/ Analyze \/ ReadRecord \/ EndOfLog \/ Done

\* The analyzer is run, and runs.
LogSpec == LogInit /\ [][LogNext]_logVars
                   /\ WF_logVars(Analyze \/ ReadRecord \/ EndOfLog)

-----------------------------------------------------------------------------
(* Properties.                                                             *)

Whole(n) == sent[n].kept = sent[n].size
Torn(n)  == 0 < sent[n].kept /\ sent[n].kept < sent[n].size

\* No record before record n is torn.
Intact(n) == \A m \in 1 .. n - 1 : ~Torn(m)

\* The first k that are shown are the whole records before record n, in order.
ShowsWhole(k, n) ==
  /\ \A i, j \in 1 .. k : i < j => shown[i] < shown[j]
  /\ {shown[i] : i \in 1 .. k} = {m \in 1 .. n - 1 : Whole(m)}

\* Whatever becomes of the log later, it is shown as it was recorded up to the
\* first record of which DOS wrote only a part: records are told apart although
\* nothing in the file says where one begins.
ShownUpToTear ==
  \A n \in 1 .. Len(sent) + 1 :
    Intact(n) => \/ \E k \in 0 .. Len(shown) : ShowsWhole(k, n)
                 \/ pc # "done" /\ \E m \in 1 .. n : ShowsWhole(Len(shown), m)

\* A disk that is full for good costs the records it had no room for and no
\* other: a torn record at the end of the log is dropped, even when enough of
\* it is there to look like one.
TornTailDropped ==
  pc = "done" /\ (\A n \in DOMAIN sent : Torn(n) =>
                    \A m \in n + 1 .. Len(sent) : sent[m].kept = 0) =>
    ShowsWhole(Len(shown), Len(sent) + 1)

\* The analyzer ends, in step or not.
AnalyzerEnds == <>(pc = "done")
=============================================================================
