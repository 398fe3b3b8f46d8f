------------------------------ MODULE MCExportJob ------------------------------
(* Small instances of ExportJob for TLC. *)
EXTENDS ExportJob, TLC

CONSTANTS c1, c2, c3

\* Callers are interchangeable.
Symmetric == Permutations(Clients)
=============================================================================
