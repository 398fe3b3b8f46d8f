------------------------------ MODULE RequestLog ------------------------------
(***************************************************************************)
(* The request log (store/requestlog.go): a table that is appended to in   *)
(* one statement and, for every TrimEvery-th id, trimmed in another, and   *)
(* that tests follow by id and the dashboard shows a part of.              *)
(***************************************************************************)
EXTENDS Integers, FiniteSets

CONSTANTS
  LogMax,     \* rows that are kept
  TrimEvery   \* 128: the ids that trim

ASSUME LogAssumption == LogMax \in Nat \ {0} /\ TrimEvery \in Nat \ {0}

VARIABLES
  log,      \* table request_log: the ids of its rows
  nextLog   \* its AUTOINCREMENT counter

Trims(id) == id % TrimEvery = 0
\* deviation: an id that is still to be given out
AppendBehind == log' = log \cup {nextLog} /\ nextLog' = nextLog
AppendRow == log' = log \cup {nextLog} /\ nextLog' = nextLog + 1

\* deviation: one row too many goes
TrimmedShort(id) == {e \in log : e > id - LogMax + 1}
Trimmed(id) == {e \in log : e > id - LogMax}

\* deviation: the newest come first, and the limit cuts off the oldest
NewestFirst(since, limit) == {e \in log : e > since /\ Cardinality({d \in log : d > e}) < limit}
\* Rows after a cursor, oldest first, as many as the limit allows.
EntriesSince(since, limit) ==
  {e \in log : e > since /\ Cardinality({d \in log : since < d /\ d < e}) < limit}
=============================================================================
