---------------------------- MODULE ContactTables ----------------------------
(***************************************************************************)
(* The contact tables of the SQLite store (internal/store) and what the    *)
(* statements of contact.go and field.go do to them.  Nothing here has     *)
(* state: a `tables' argument is either the committed database or the      *)
(* private copy of an open write transaction.                              *)
(*                                                                         *)
(*   live     rows of contacts; next is the AUTOINCREMENT counter          *)
(*   vals     contact_values, NoValue where there is no row                *)
(*   hist     contact_field_history; stamp orders its rows as id does.     *)
(*            One stamp stands for the rows one ApplyContactValues call    *)
(*            inserts, which are about different fields                    *)
(*   members  contact_list_members                                         *)
(***************************************************************************)
EXTENDS Integers, FiniteSets

CONSTANTS
  MaxContact,  \* bound on the contact ids a behaviour may assign
  MaxField,    \* bound on field ids
  Lists,       \* ids of contact lists
  Values,      \* non-empty field values
  Empty,       \* the empty string, a value like any other
  NoValue,     \* SQL NULL: no row in contact_values
  ById         \* store.KeyFieldInternalID, the key that is not a field

ASSUME BoundsAssumption == MaxContact \in Nat /\ MaxField \in Nat \ {0}

\* The sentinels are told apart from each other and from what they stand beside.
ASSUME SentinelAssumption ==
  /\ Empty \notin Values
  /\ NoValue \notin Values \cup {Empty}
  /\ ById \notin 1..MaxField

ContactIds == 1..MaxContact
FieldIds == 1..MaxField
Texts == Values \cup {Empty}
Stored == Texts \cup {NoValue}

Change == [stamp: Nat, contact: ContactIds, field: FieldIds, old: Stored, new: Texts]

Tables == [live: SUBSET ContactIds, next: Nat \ {0}, vals: [ContactIds -> [FieldIds -> Stored]],
           hist: SUBSET Change, stamp: Nat, members: SUBSET (Lists \X ContactIds)]

\* The field values a request can carry: some fields, each with a text.
FieldValues == UNION {[D -> Texts] : D \in SUBSET FieldIds}

NoContacts ==
  [live |-> {}, next |-> 1, vals |-> [x \in ContactIds |-> [f \in FieldIds |-> NoValue]],
   hist |-> {}, stamp |-> 0, members |-> {}]

-----------------------------------------------------------------------------
\* Key fields are not unique: a value may match any number of contacts.
FindContactIDs(t, key, value) ==
  IF key = ById THEN {x \in t.live : x = value}
                ELSE {x \in t.live : t.vals[x][key] = value}

\* deviation: an empty value leaves the field alone
ChangedIfGiven(t, x, new) == {f \in DOMAIN new : new[f] # Empty /\ t.vals[x][f] # new[f]}

\* deviation: unchanged values are written and logged again
ChangedAlways(t, x, new) == DOMAIN new

\* The fields of `new' whose stored value is missing or different.
Changed(t, x, new) == {f \in DOMAIN new : t.vals[x][f] # new[f]}

\* Only changed fields are written, and every one of them is logged.
ApplyContactValues(t, x, new) ==
  LET changed == Changed(t, x, new)
  IN  [t EXCEPT
         !.vals[x] = [f \in FieldIds |-> IF f \in changed THEN new[f] ELSE t.vals[x][f]],
         !.hist = t.hist \cup
           {[stamp |-> t.stamp, contact |-> x, field |-> f,
             old |-> t.vals[x][f], new |-> new[f]] : f \in changed},
         !.stamp = t.stamp + 1]

CreateContact(t, new) ==
  ApplyContactValues([t EXCEPT !.live = t.live \cup {t.next}, !.next = t.next + 1], t.next, new)

\* deviation: contact_field_history does not cascade
DeleteContactsOnly(t, S) ==
  [t EXCEPT !.live = t.live \ S,
            !.vals = [x \in ContactIds |-> IF x \in S THEN [f \in FieldIds |-> NoValue] ELSE t.vals[x]],
            !.members = {m \in t.members : m[2] \notin S}]

\* The cascades of 0001_init.sql take values, history and memberships along.
DeleteContacts(t, S) ==
  [t EXCEPT
     !.live = t.live \ S,
     !.vals = [x \in ContactIds |-> IF x \in S THEN [f \in FieldIds |-> NoValue] ELSE t.vals[x]],
     !.hist = {h \in t.hist : h.contact \notin S},
     !.members = {m \in t.members : m[2] \notin S}]

AddContactsToList(t, l, S) == [t EXCEPT !.members = t.members \cup {<<l, x>> : x \in S}]

\* Deleting a field cascades to its values; contact_field_history has no
\* foreign key on fields, so the log stays.
DropFieldValues(t, f) == [t EXCEPT !.vals = [x \in ContactIds |-> [t.vals[x] EXCEPT ![f] = NoValue]]]

DropListMembers(t, l) == [t EXCEPT !.members = {m \in t.members : m[1] # l}]

-----------------------------------------------------------------------------
Changes(t, x, f) == {h \in t.hist : h.contact = x /\ h.field = f}

\* h is the row LastChange returns for its contact and field.
IsLastChange(t, h) == \A g \in Changes(t, h.contact, h.field) : g.stamp <= h.stamp

-----------------------------------------------------------------------------
(* What makes tables sound *)

\* Values have a contact and a field, changes a contact, memberships a contact
\* and a list; `known' are the fields and `ls' the lists there are.
RowsAreAnchored(t, known, ls) ==
  /\ \A x \in ContactIds, f \in FieldIds : t.vals[x][f] # NoValue => x \in t.live /\ f \in known
  /\ \A h \in t.hist : h.contact \in t.live
  /\ \A m \in t.members : m[1] \in ls /\ m[2] \in t.live
  /\ \A x \in t.live : x < t.next

\* Every stored value is the new value of the last change logged for it, and
\* each change starts where the one before it ended, or from nothing because
\* the field was deleted in between.
TrailExplains(t) ==
  /\ \A h \in t.hist : h.stamp < t.stamp /\ h.old # h.new
  /\ \A g, h \in t.hist : g.contact = h.contact /\ g.field = h.field /\ g.stamp = h.stamp => g = h
  /\ \A x \in t.live, f \in FieldIds : t.vals[x][f] # NoValue =>
       \E h \in Changes(t, x, f) : IsLastChange(t, h) /\ h.new = t.vals[x][f]
  /\ \A g, h \in t.hist :
       /\ g.contact = h.contact /\ g.field = h.field /\ g.stamp < h.stamp
       /\ \A k \in Changes(t, h.contact, h.field) : k.stamp <= g.stamp \/ h.stamp <= k.stamp
       => h.old \in {g.new, NoValue}
=============================================================================
