--------------------------- MODULE MCListMembership ---------------------------
(* A small instance of ListMembership for TLC. *)
EXTENDS ListMembership, TLC

CONSTANTS c1, c2, k1, k2

Ask(op, kind, via, values) == [op |-> op, kind |-> kind, via |-> via, values |-> values]

\* Every operation of both kinds, over the API and the dashboard where it has one.
MCRequests ==
  {Ask("create", "list", "api", {k1, k2}), Ask("create", "segment", "admin", {}),
   Ask("add", "list", "api", {k1, k2}), Ask("replace", "list", "api", {k1}),
   Ask("remove", "list", "api", {k1}), Ask("rename", "list", "api", {}),
   Ask("add", "list", "admin", {k1}), Ask("add", "segment", "admin", {k1}),
   Ask("delete", "list", "api", {}), Ask("delete", "segment", "admin", {}),
   Ask("members", "segment", "api", {}), Ask("data", "list", "api", {})}

Symmetric == Permutations(Clients) \cup Permutations(Keys)
=============================================================================
