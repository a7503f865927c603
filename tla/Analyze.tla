------------------------------ MODULE Analyze ------------------------------
(***************************************************************************)
(* recorder/analyze.c: the log is read record by record, each shown at an  *)
(* indentation that calls increase and returns decrease.                   *)
(***************************************************************************)
EXTENDS Integers

\* The records of returns; the recorder has the code for callback_exit but never
\* runs it.
Exits == {"call_exit", "rmdevsys_exit", "callback_exit"}

\* Mutant of Reindent: a callback's entry, whose exit is never recorded,
\* indents too.
ReindentCallbacks(indent, tag) ==
  CASE tag \in {"call", "rmdevsys", "callback_reg"} -> indent + 1
    [] tag \in Exits -> IF indent > 0 THEN indent - 1 ELSE indent
    [] OTHER         -> indent

\* Mutant of Reindent: a return with no call to match outdents past the margin.
ReindentUnsaturated(indent, tag) ==
  CASE tag \in {"call", "rmdevsys"} -> indent + 1
    [] tag \in Exits               -> indent - 1
    [] OTHER                       -> indent

\* The indentation after a record, given the one before.
Reindent(indent, tag) ==
  CASE tag \in {"call", "rmdevsys"} -> indent + 1
    [] tag \in Exits -> IF indent > 0 THEN indent - 1 ELSE indent
    [] OTHER         -> indent
=============================================================================
