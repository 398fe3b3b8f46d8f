---------------------------- MODULE MCContactReads ----------------------------
(* A small instance of ContactReads for TLC. *)
EXTENDS ContactReads

CONSTANTS a, b, main

Keyed1(op, key, keys, fields, multiple) ==
  [op |-> op, key |-> key, keys |-> keys, fields |-> fields, multiple |-> multiple]

ListOf(fields, header, timestamp) ==
  [op |-> "contactlist", list |-> main, fields |-> fields, header |-> header, timestamp |-> timestamp]

\* Field 1 is the email address, field 2 a name: two contacts, the second with
\* both, the first on the list.
One(f, v) == [g \in {f} |-> v]
MCStart == AddContactsToList(
  CreateContact(CreateContact(NoContacts, One(1, a)), [g \in {1, 2} |-> b]), main, {1})

MCWritings == {One(1, a), One(1, b), One(2, Empty), [g \in {1, 2} |-> a]}

MCReads ==
  { Keyed1("getdata", 1, <<a, b>>, {1, 2}, FALSE), Keyed1("getdata", ById, <<2>>, {2}, FALSE),
    Keyed1("checkids", 1, <<b, a>>, {}, FALSE), Keyed1("checkids", 1, <<a>>, {}, TRUE),
    Keyed1("checkids", 1, <<a, a, b>>, {}, TRUE),
    Keyed1("last_change", 1, <<a, b>>, {1}, FALSE),
    [op |-> "query", field |-> 1, value |-> a, nonempty |-> TRUE, limit |-> 1, offset |-> 1, fields |-> {2}],
    [op |-> "query", field |-> 1, value |-> a, nonempty |-> TRUE, limit |-> 2, offset |-> 0, fields |-> {1}],
    [op |-> "query", field |-> 2, value |-> Empty, nonempty |-> FALSE, limit |-> 1, offset |-> 0, fields |-> {1}],
    [op |-> "changes", from |-> 1, to |-> 2, fields |-> {1, 2}, header |-> TRUE],
    [op |-> "changes", from |-> 0, to |-> 9, fields |-> {1}, header |-> FALSE],
    [op |-> "registrations", from |-> 1, to |-> 2, fields |-> {1}, header |-> TRUE],
    ListOf({1, 2}, FALSE, FALSE), ListOf({1}, TRUE, TRUE), ListOf({2}, FALSE, FALSE),
    [op |-> "search", contact |-> {}, text |-> {}, limit |-> 2, fields |-> FieldIds],
    [op |-> "search", contact |-> {}, text |-> {a}, limit |-> 1, fields |-> FieldIds],
    [op |-> "search", contact |-> {2}, text |-> {}, limit |-> 3, fields |-> FieldIds],
    [op |-> "page", contact |-> {2}, text |-> {}, limit |-> 1, fields |-> FieldIds] }
=============================================================================
