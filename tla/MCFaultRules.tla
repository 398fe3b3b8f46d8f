----------------------------- MODULE MCFaultRules -----------------------------
(* Small instances of FaultRules for TLC. *)
EXTENDS FaultRules, TLC

CONSTANTS c1, c2, c3

Shape(matches, certain, limited, left) ==
  [matches |-> matches, certain |-> certain, limited |-> limited, left |-> left]

\* Rules for one or two hits, one that always fires, a flaky one, and one that
\* is created without any hits.
MCShapes == {
  Shape({"read", "write"}, TRUE, TRUE, 1), Shape({"read"}, TRUE, TRUE, 2),
  Shape({"write"}, TRUE, FALSE, 0), Shape({"write"}, FALSE, TRUE, 0)}

Symmetric == Permutations(Clients)
=============================================================================
