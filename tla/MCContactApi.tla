----------------------------- MODULE MCContactApi -----------------------------
(* Small instances of ContactApi for TLC. *)
EXTENDS ContactApi, TLC

CONSTANTS c1, c2, c3, a, b, email, optin, other

\* Field 1 stands for e-mail, a system field; field 2 for a custom choice field.
MCSeededDef == [f \in {1, 2} |-> IF f = 1 THEN [sid |-> email, type |-> "text"]
                                          ELSE [sid |-> optin, type |-> "choice"]]
MCSeededChoices == [f \in {1, 2} |-> IF f = 1 THEN {} ELSE {a}]

V(f, v) == f :> v
Entry(vals) == [addr |-> NoKey, vals |-> vals]
Addressed(x, vals) == [addr |-> x, vals |-> vals]
Batch(update, create, key, rows, list) ==
  [op |-> "batch", update |-> update, create |-> create, key |-> key, rows |-> rows, list |-> list]
Post(rows, list) == Batch(FALSE, FALSE, 1, rows, list)
Put(rows) == Batch(TRUE, FALSE, 1, rows, NoList)
Upsert(rows, list) == Batch(TRUE, TRUE, 1, rows, list)

ab == Entry(V(1, a) @@ V(2, b))
aa == Entry(V(1, a) @@ V(2, a))
ae == Entry(V(1, a) @@ V(2, Empty))
ba == Entry(V(1, b) @@ V(2, a))

\* Batches against each other, deletes, edits and a list that goes away.
BatchRequests ==
  { Post(<<aa, ba, ab>>, 1), Post(<<ab, Entry(V(1, Empty))>>, NoList), Upsert(<<ae, ba>>, 1), Put(<<aa, Entry(V(2, a))>>),
    Batch(TRUE, FALSE, ById, <<Addressed(1, V(1, b)), Addressed(2, V(2, Empty))>>, NoList),
    Batch(TRUE, TRUE, ById, <<Addressed(2, V(1, a)), Addressed(1, V(2, a))>>, NoList),
    [op |-> "delete", key |-> 1, keyValues |-> {a}],
    [op |-> "setfield", contact |-> 1, field |-> 1, value |-> b],
    [op |-> "droplist", list |-> 1] }

\* The catalogue changing under requests that have already read it.
CatalogRequests ==
  { Upsert(<<aa>>, NoList), Upsert(<<ba>>, NoList),
    [op |-> "newfield", def |-> [sid |-> optin, type |-> "text"]],
    [op |-> "newfield", def |-> [sid |-> other, type |-> "format"]],
    [op |-> "dropfield", field |-> 2], [op |-> "dropfield", field |-> 1],
    [op |-> "seedfield", field |-> 2, def |-> [sid |-> optin, type |-> "choice"], choice |-> b],
    [op |-> "seedfield", field |-> 3, def |-> [sid |-> optin, type |-> "text"], choice |-> NoValue],
    [op |-> "seed", key |-> 1, rows |-> <<ab, ab>>], [op |-> "seed", key |-> 1, rows |-> <<ba, Entry(V(2, a))>>],
    [op |-> "setfield", contact |-> 1, field |-> 2, value |-> a] }

\* All of them, in any mixture.
AllRequests == BatchRequests \cup CatalogRequests

\* API requests only: nothing here skips validation.
ApiRequests == {r \in CatalogRequests : r.op \notin {"seed", "seedfield"}}

\* Callers are interchangeable.
Symmetric == Permutations(Callers)
=============================================================================
