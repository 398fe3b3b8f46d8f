--------------------------- MODULE ContactApi_proofs ---------------------------
(***************************************************************************)
(* What ContactApi guarantees for every set of callers, requests, values   *)
(* and every bound.                                                        *)
(***************************************************************************)
EXTENDS ContactApi, FiniteSetTheorems, TLAPS

(***************************************************************************)
(* What the statements of ContactTables do to well-formed tables.          *)
(***************************************************************************)

\* The empty text is a text; the absence of a value is not.
LEMMA SentinelFacts ==
  /\ NoValue \notin Texts
  /\ Empty \in Texts /\ Values \subseteq Texts /\ Texts \subseteq Stored /\ NoValue \in Stored
BY SentinelAssumption DEF Texts, Stored

\* What a row gives is texts, for fields.
LEMMA FieldValuesShape ==
  ASSUME NEW new \in FieldValues
  PROVE  DOMAIN new \subseteq FieldIds /\ \A f \in DOMAIN new : new[f] \in Texts
BY DEF FieldValues

\* The inline edit of one field is the values of a row.
LEMMA OneFieldValue ==
  ASSUME NEW f \in FieldIds, NEW v \in Texts
  PROVE  [g \in {f} |-> v] \in FieldValues
<1>1. [g \in {f} |-> v] \in [{f} -> Texts] /\ {f} \in SUBSET FieldIds
  OBVIOUS
<1> QED
  BY <1>1 DEF FieldValues

-----------------------------------------------------------------------------
(* Replacing a well-typed component of the tables *)

\* Replacing the values, their history and its stamp keeps tables well typed.
LEMMA SetValues ==
  ASSUME NEW t \in Tables, NEW v \in [ContactIds -> [FieldIds -> Stored]],
         NEW h \in SUBSET Change, NEW s \in Nat
  PROVE  [t EXCEPT !.vals = v, !.hist = h, !.stamp = s] \in Tables
BY DEF Tables

\* Replacing the contacts and their counter keeps tables well typed.
LEMMA SetLive ==
  ASSUME NEW t \in Tables, NEW l \in SUBSET ContactIds, NEW n \in Nat \ {0}
  PROVE  [t EXCEPT !.live = l, !.next = n] \in Tables
BY DEF Tables

\* Replacing the memberships keeps tables well typed.
LEMMA SetMembers ==
  ASSUME NEW t \in Tables, NEW m \in SUBSET (Lists \X ContactIds)
  PROVE  [t EXCEPT !.members = m] \in Tables
BY DEF Tables

\* Replacing the values of one contact is replacing the values.
LEMMA SetRow ==
  ASSUME NEW t \in Tables, NEW x \in ContactIds, NEW row, NEW h, NEW s
  PROVE  [t EXCEPT !.vals[x] = row, !.hist = h, !.stamp = s]
           = [t EXCEPT !.vals = [t.vals EXCEPT ![x] = row], !.hist = h, !.stamp = s]
OBVIOUS

-----------------------------------------------------------------------------
\* Writing field values to a contact keeps the tables well formed.
LEMMA ApplyIsTables ==
  ASSUME NEW t \in Tables, NEW x \in ContactIds, NEW new \in FieldValues
  PROVE  ApplyContactValues(t, x, new) \in Tables
<1> DEFINE changed == Changed(t, x, new)
<1> DEFINE entries == {[stamp |-> t.stamp, contact |-> x, field |-> f,
                        old |-> t.vals[x][f], new |-> new[f]] : f \in changed}
<1> DEFINE row == [f \in FieldIds |-> IF f \in changed THEN new[f] ELSE t.vals[x][f]]
<1>1. changed \subseteq FieldIds /\ \A f \in changed : new[f] \in Texts
  BY FieldValuesShape DEF Changed
<1>2. t.hist \cup entries \in SUBSET Change
  BY <1>1 DEF Change, Tables
<1>3. row \in [FieldIds -> Stored]
  BY <1>1, SentinelFacts DEF Tables
<1>4. [t.vals EXCEPT ![x] = row] \in [ContactIds -> [FieldIds -> Stored]]
  BY <1>3 DEF Tables
<1>5. t.stamp + 1 \in Nat
  BY DEF Tables
<1>6. ApplyContactValues(t, x, new)
        = [t EXCEPT !.vals[x] = row, !.hist = t.hist \cup entries, !.stamp = t.stamp + 1]
  BY DEF ApplyContactValues
<1> HIDE DEF changed, entries, row
<1>7. [t EXCEPT !.vals = [t.vals EXCEPT ![x] = row], !.hist = t.hist \cup entries,
                !.stamp = t.stamp + 1] \in Tables
  BY <1>2, <1>4, <1>5, SetValues
<1> QED
  BY <1>6, <1>7, SetRow

\* CreateContact keeps tables well typed, while ids last.
LEMMA CreateIsTables ==
  ASSUME NEW t \in Tables, t.next \in ContactIds, NEW new \in FieldValues
  PROVE  CreateContact(t, new) \in Tables
<1> DEFINE u == [t EXCEPT !.live = t.live \cup {t.next}, !.next = t.next + 1]
<1>1. t.live \cup {t.next} \in SUBSET ContactIds /\ t.next + 1 \in Nat \ {0}
  BY DEF Tables
<1>2. u \in Tables
  BY <1>1, SetLive
<1> QED
  BY <1>2, ApplyIsTables DEF CreateContact

\* DeleteContact and its cascades keep tables well typed.
LEMMA DeleteIsTables ==
  ASSUME NEW t \in Tables, NEW S
  PROVE  DeleteContacts(t, S) \in Tables
BY SentinelFacts DEF DeleteContacts, Tables

\* AddContactsToList keeps tables well typed.
LEMMA AddToListIsTables ==
  ASSUME NEW t \in Tables, NEW l \in Lists, NEW S \in SUBSET ContactIds
  PROVE  AddContactsToList(t, l, S) \in Tables
<1>1. t.members \cup {<<l, x>> : x \in S} \in SUBSET (Lists \X ContactIds)
  BY DEF Tables
<1> QED
  BY <1>1, SetMembers DEF AddContactsToList

\* The cascade of a deleted field keeps tables well typed.
LEMMA DropFieldIsTables ==
  ASSUME NEW t \in Tables, NEW f \in FieldIds
  PROVE  DropFieldValues(t, f) \in Tables
BY SentinelFacts DEF DropFieldValues, Tables

\* The cascade of a deleted list keeps tables well typed.
LEMMA DropListIsTables ==
  ASSUME NEW t \in Tables, NEW l
  PROVE  DropListMembers(t, l) \in Tables
BY DEF DropListMembers, Tables

\* The empty tables are well typed.
LEMMA NoContactsIsTables == NoContacts \in Tables
BY SentinelFacts DEF NoContacts, Tables

-----------------------------------------------------------------------------
(* What a statement changes and what it leaves alone *)

Entries(t, x, new) == {[stamp |-> t.stamp, contact |-> x, field |-> f,
                        old |-> t.vals[x][f], new |-> new[f]] : f \in Changed(t, x, new)}

\* What ApplyContactValues changes: values and log of the one contact.
LEMMA ApplyEffect ==
  ASSUME NEW t \in Tables, NEW x \in ContactIds, NEW new \in FieldValues,
         NEW u, u = ApplyContactValues(t, x, new)
  PROVE  /\ u.live = t.live /\ u.next = t.next /\ u.members = t.members /\ u.stamp = t.stamp + 1
         /\ u.hist = t.hist \cup Entries(t, x, new)
         /\ \A y \in ContactIds \ {x} : u.vals[y] = t.vals[y]
         /\ \A f \in FieldIds : u.vals[x][f] = IF f \in Changed(t, x, new) THEN new[f] ELSE t.vals[x][f]
<1> DEFINE row == [f \in FieldIds |-> IF f \in Changed(t, x, new) THEN new[f] ELSE t.vals[x][f]]
<1>1. u = [t EXCEPT !.vals[x] = row, !.hist = t.hist \cup Entries(t, x, new), !.stamp = t.stamp + 1]
  BY DEF ApplyContactValues, Entries
<1>2. \A f \in FieldIds : row[f] = IF f \in Changed(t, x, new) THEN new[f] ELSE t.vals[x][f]
  OBVIOUS
<1> HIDE DEF row
<1>3. /\ u.live = t.live /\ u.next = t.next /\ u.members = t.members /\ u.stamp = t.stamp + 1
      /\ u.hist = t.hist \cup Entries(t, x, new)
      /\ u.vals = [t.vals EXCEPT ![x] = row]
  BY <1>1 DEF Tables
<1>4. t.vals \in [ContactIds -> [FieldIds -> Stored]]
  BY DEF Tables
<1> QED
  BY <1>2, <1>3, <1>4

\* What inserting the contact does, before its values are written.
LEMMA CreateEffect ==
  ASSUME NEW t \in Tables, t.next \in ContactIds,
         NEW u, u = [t EXCEPT !.live = t.live \cup {t.next}, !.next = t.next + 1]
  PROVE  /\ u \in Tables /\ u.live = t.live \cup {t.next} /\ u.next = t.next + 1
         /\ u.vals = t.vals /\ u.hist = t.hist /\ u.stamp = t.stamp /\ u.members = t.members
<1>1. t.live \cup {t.next} \in SUBSET ContactIds /\ t.next + 1 \in Nat \ {0}
  BY DEF Tables
<1> QED
  BY <1>1, SetLive DEF Tables

-----------------------------------------------------------------------------
(* What a lookup by a field finds after a write *)

\* Whatever ApplyContactValues is given is stored afterwards.
LEMMA ApplyStores ==
  ASSUME NEW t \in Tables, NEW x \in ContactIds, NEW new \in FieldValues,
         NEW u, u = ApplyContactValues(t, x, new)
  PROVE  \A f \in DOMAIN new : u.vals[x][f] = new[f]
<1>1. \A f \in FieldIds : u.vals[x][f] = IF f \in Changed(t, x, new) THEN new[f] ELSE t.vals[x][f]
  BY ApplyEffect
<1> QED
  BY <1>1, FieldValuesShape DEF Changed

\* Writing to a contact that already has the key value leaves every lookup by
\* that key as it was.
LEMMA FindAfterApply ==
  ASSUME NEW t \in Tables, NEW x \in t.live, NEW new \in FieldValues, NEW key \in DOMAIN new,
         t.vals[x][key] = new[key], NEW u, u = ApplyContactValues(t, x, new)
  PROVE  \A v : FindContactIDs(u, key, v) = FindContactIDs(t, key, v)
<1>1. key # ById /\ x \in ContactIds /\ t.live \subseteq ContactIds
  BY FieldValuesShape, SentinelAssumption DEF FieldIds, Tables
<1>2. u.live = t.live /\ \A y \in ContactIds \ {x} : u.vals[y] = t.vals[y]
  BY <1>1, ApplyEffect
<1>3. u.vals[x][key] = t.vals[x][key]
  BY <1>1, ApplyStores
<1>4. \A y \in t.live : u.vals[y][key] = t.vals[y][key]
  BY <1>1, <1>2, <1>3
<1> QED
  BY <1>1, <1>2, <1>4 DEF FindContactIDs

\* A contact that is created adds itself to the lookup of its own key value
\* and to no other.
LEMMA FindAfterCreate ==
  ASSUME NEW t \in Tables, t.next \in ContactIds, t.next \notin t.live,
         NEW new \in FieldValues, NEW key \in DOMAIN new, NEW u, u = CreateContact(t, new)
  PROVE  /\ FindContactIDs(u, key, new[key]) = FindContactIDs(t, key, new[key]) \cup {t.next}
         /\ \A v : v # new[key] => FindContactIDs(u, key, v) = FindContactIDs(t, key, v)
<1> DEFINE s == [t EXCEPT !.live = t.live \cup {t.next}, !.next = t.next + 1]
<1>1. key # ById /\ t.live \subseteq ContactIds
  BY FieldValuesShape, SentinelAssumption DEF FieldIds, Tables
<1>2. s \in Tables /\ s.live = t.live \cup {t.next} /\ s.vals = t.vals
  BY CreateEffect
<1>3. u = ApplyContactValues(s, t.next, new)
  BY DEF CreateContact
<1> HIDE DEF s
<1>4. u.live = t.live \cup {t.next} /\ \A y \in ContactIds \ {t.next} : u.vals[y] = t.vals[y]
  BY <1>2, <1>3, ApplyEffect
<1>5. u.vals[t.next][key] = new[key]
  BY <1>2, <1>3, ApplyStores
<1>6. \A y \in t.live : u.vals[y][key] = t.vals[y][key]
  BY <1>1, <1>4
<1> QED
  BY <1>1, <1>4, <1>5, <1>6 DEF FindContactIDs

-----------------------------------------------------------------------------
(* No statement leaves a row behind that refers to nothing *)

\* Writing values of known fields to a contact that is there leaves no orphan.
LEMMA AnchoredApply ==
  ASSUME NEW t \in Tables, NEW known, NEW ls, RowsAreAnchored(t, known, ls),
         NEW x \in t.live, NEW new \in FieldValues, DOMAIN new \subseteq known
  PROVE  RowsAreAnchored(ApplyContactValues(t, x, new), known, ls)
<1> DEFINE u == ApplyContactValues(t, x, new)
<1>1. x \in ContactIds /\ Changed(t, x, new) \subseteq DOMAIN new
  BY DEF Tables, Changed
<1>2. /\ u.live = t.live /\ u.next = t.next /\ u.members = t.members
      /\ u.hist = t.hist \cup Entries(t, x, new)
      /\ \A y \in ContactIds \ {x} : u.vals[y] = t.vals[y]
      /\ \A f \in FieldIds : u.vals[x][f] = IF f \in Changed(t, x, new) THEN new[f] ELSE t.vals[x][f]
  BY <1>1, ApplyEffect
<1>3. \A h \in Entries(t, x, new) : h.contact = x
  BY DEF Entries
<1> HIDE DEF u
<1>4. RowsAreAnchored(u, known, ls)
  BY <1>1, <1>2, <1>3 DEF RowsAreAnchored
<1> QED
  BY <1>4 DEF u

\* Creating a contact with values of known fields leaves no orphan.
LEMMA AnchoredCreate ==
  ASSUME NEW t \in Tables, NEW known, NEW ls, RowsAreAnchored(t, known, ls),
         t.next \in ContactIds, NEW new \in FieldValues, DOMAIN new \subseteq known
  PROVE  RowsAreAnchored(CreateContact(t, new), known, ls)
<1> DEFINE u == [t EXCEPT !.live = t.live \cup {t.next}, !.next = t.next + 1]
<1>1. /\ u \in Tables /\ u.live = t.live \cup {t.next} /\ u.next = t.next + 1
      /\ u.vals = t.vals /\ u.hist = t.hist /\ u.members = t.members
  BY CreateEffect
<1>2. \A y \in ContactIds : y < t.next => y < t.next + 1
  BY DEF Tables, ContactIds
<1> HIDE DEF u
<1>3. RowsAreAnchored(u, known, ls)
  BY <1>1, <1>2 DEF RowsAreAnchored, Tables
<1>4. RowsAreAnchored(ApplyContactValues(u, t.next, new), known, ls)
  BY <1>1, <1>3, AnchoredApply
<1> QED
  BY <1>4 DEF CreateContact, u

\* Deleting contacts leaves none of their values or memberships behind.
LEMMA AnchoredDelete ==
  ASSUME NEW t \in Tables, NEW known, NEW ls, RowsAreAnchored(t, known, ls), NEW S
  PROVE  RowsAreAnchored(DeleteContacts(t, S), known, ls)
BY DEF RowsAreAnchored, DeleteContacts, Tables

\* Adding contacts that are there to a list that is there leaves no orphan.
LEMMA AnchoredAddToList ==
  ASSUME NEW t \in Tables, NEW known, NEW ls, RowsAreAnchored(t, known, ls),
         NEW l \in ls, NEW S \in SUBSET t.live
  PROVE  RowsAreAnchored(AddContactsToList(t, l, S), known, ls)
BY DEF RowsAreAnchored, AddContactsToList, Tables

\* Deleting a field leaves none of its values behind.
LEMMA AnchoredDropField ==
  ASSUME NEW t \in Tables, NEW known, NEW ls, RowsAreAnchored(t, known, ls), NEW f \in FieldIds
  PROVE  RowsAreAnchored(DropFieldValues(t, f), known \ {f}, ls)
BY DEF RowsAreAnchored, DropFieldValues, Tables

\* Deleting a list leaves none of its members behind.
LEMMA AnchoredDropList ==
  ASSUME NEW t \in Tables, NEW known, NEW ls, RowsAreAnchored(t, known, ls), NEW l
  PROVE  RowsAreAnchored(DropListMembers(t, l), known, ls \ {l})
BY DEF RowsAreAnchored, DropListMembers, Tables

\* Empty tables have no orphans.
LEMMA AnchoredNoContacts ==
  ASSUME NEW known, NEW ls
  PROVE  RowsAreAnchored(NoContacts, known, ls)
BY DEF RowsAreAnchored, NoContacts

-----------------------------------------------------------------------------
(* Every statement keeps the change log an explanation of the data *)

\* The log of a field that a write does not change stays as it is.
LEMMA TrailApply ==
  ASSUME NEW t \in Tables, TrailExplains(t), NEW x \in t.live, NEW new \in FieldValues
  PROVE  TrailExplains(ApplyContactValues(t, x, new))
<1> DEFINE u == ApplyContactValues(t, x, new)
<1> DEFINE changed == Changed(t, x, new)
<1> DEFINE entries == Entries(t, x, new)
<1>1. x \in ContactIds /\ changed \subseteq FieldIds /\ t.stamp \in Nat /\ u \in Tables
      /\ \A f \in changed : f \in DOMAIN new /\ t.vals[x][f] # new[f]
  BY FieldValuesShape, ApplyIsTables DEF Tables, Changed
<1>2. /\ u.live = t.live /\ u.stamp = t.stamp + 1 /\ u.hist = t.hist \cup entries
      /\ \A y \in ContactIds \ {x} : u.vals[y] = t.vals[y]
      /\ \A f \in FieldIds : u.vals[x][f] = IF f \in changed THEN new[f] ELSE t.vals[x][f]
  BY <1>1, ApplyEffect
<1>3. \A h \in entries : /\ h.contact = x /\ h.field \in changed /\ h.stamp = t.stamp
                         /\ h.old = t.vals[x][h.field] /\ h.new = new[h.field]
  BY DEF Entries
<1>4. \A f \in changed : \E h \in entries : h.field = f
  <2>1. \A f \in changed :
          [stamp |-> t.stamp, contact |-> x, field |-> f, old |-> t.vals[x][f], new |-> new[f]] \in entries
    BY DEF Entries
  <2> QED
    BY <2>1
<1>5. \A g, h \in entries : g.field = h.field => g = h
  BY DEF Entries
<1>6. \A h \in t.hist : h.stamp \in Nat /\ h.stamp < t.stamp /\ h.old # h.new
  BY DEF TrailExplains, Tables, Change
<1> HIDE DEF u, changed, entries
<1>7. \A h \in u.hist : h.stamp < u.stamp /\ h.old # h.new
  BY <1>1, <1>2, <1>3, <1>6
<1>8. ASSUME NEW g \in u.hist, NEW h \in u.hist,
             g.contact = h.contact, g.field = h.field, g.stamp = h.stamp
      PROVE  g = h
  BY <1>1, <1>2, <1>3, <1>5, <1>6, <1>8 DEF TrailExplains
<1>9. ASSUME NEW y \in u.live, NEW f \in FieldIds, u.vals[y][f] # NoValue
      PROVE  \E h \in Changes(u, y, f) : IsLastChange(u, h) /\ h.new = u.vals[y][f]
  <2>1. CASE y = x /\ f \in changed
    <3>1. PICK h \in entries : h.field = f
      BY <1>4, <2>1
    <3>2. h \in Changes(u, y, f) /\ h.new = u.vals[y][f] /\ h.stamp = t.stamp
      BY <1>2, <1>3, <2>1, <3>1 DEF Changes
    <3>3. \A g \in u.hist : g.stamp <= h.stamp
      BY <1>1, <1>2, <1>3, <1>6, <3>2
    <3> QED
      BY <3>2, <3>3 DEF IsLastChange, Changes
  <2>2. CASE ~(y = x /\ f \in changed)
    <3>1. y \in t.live /\ y \in ContactIds /\ u.vals[y][f] = t.vals[y][f]
      BY <1>2, <1>9, <2>2 DEF Tables
    <3>2. Changes(u, y, f) = Changes(t, y, f)
      BY <1>2, <1>3, <2>2 DEF Changes
    <3>3. PICK h \in Changes(t, y, f) : IsLastChange(t, h) /\ h.new = t.vals[y][f]
      BY <1>9, <3>1 DEF TrailExplains
    <3>4. h.contact = y /\ h.field = f
      BY <3>3 DEF Changes
    <3> QED
      BY <3>1, <3>2, <3>3, <3>4 DEF IsLastChange
  <2> QED
    BY <2>1, <2>2
<1>10. ASSUME NEW g \in u.hist, NEW h \in u.hist,
              g.contact = h.contact, g.field = h.field, g.stamp < h.stamp,
              \A k \in Changes(u, h.contact, h.field) : k.stamp <= g.stamp \/ h.stamp <= k.stamp
       PROVE  h.old \in {g.new, NoValue}
  <2>1. g \in t.hist
    BY <1>1, <1>2, <1>3, <1>6, <1>10
  <2>2. CASE h \in t.hist
    <3>1. Changes(t, h.contact, h.field) \subseteq Changes(u, h.contact, h.field)
      BY <1>2 DEF Changes
    <3> QED
      BY <1>10, <2>1, <2>2, <3>1 DEF TrailExplains
  <2>3. CASE h \in entries /\ h.old # NoValue
    <3>1. h.contact = x /\ h.field \in FieldIds /\ h.stamp = t.stamp /\ h.old = t.vals[x][h.field]
      BY <1>1, <1>3, <2>3
    <3>2. PICK k \in Changes(t, x, h.field) : IsLastChange(t, k) /\ k.new = h.old
      BY <2>3, <3>1 DEF TrailExplains
    <3>3. k \in t.hist /\ k.contact = g.contact /\ k.field = g.field
      BY <1>10, <3>1, <3>2 DEF Changes
    <3>4. g.stamp <= k.stamp
      BY <2>1, <3>2, <3>3 DEF IsLastChange, Changes
    <3>5. k \in Changes(u, h.contact, h.field)
      BY <1>2, <3>1, <3>2 DEF Changes
    <3>6. k.stamp <= g.stamp
      BY <1>1, <1>6, <1>10, <3>1, <3>3, <3>5
    <3>7. k.stamp = g.stamp
      BY <1>6, <2>1, <3>3, <3>4, <3>6
    <3>8. k = g
      BY <2>1, <3>3, <3>7 DEF TrailExplains
    <3> QED
      BY <3>2, <3>8
  <2> QED
    BY <1>2, <2>2, <2>3
<1>11. TrailExplains(u)
  BY <1>7, <1>8, <1>9, <1>10 DEF TrailExplains
<1> QED
  BY <1>11 DEF u

\* The values of a new contact are all logged: it has no older history.
LEMMA TrailCreate ==
  ASSUME NEW t \in Tables, TrailExplains(t), NEW known, NEW ls, RowsAreAnchored(t, known, ls),
         t.next \in ContactIds, NEW new \in FieldValues
  PROVE  TrailExplains(CreateContact(t, new))
<1> DEFINE u == [t EXCEPT !.live = t.live \cup {t.next}, !.next = t.next + 1]
<1>1. /\ u \in Tables /\ u.live = t.live \cup {t.next}
      /\ u.vals = t.vals /\ u.hist = t.hist /\ u.stamp = t.stamp
  BY CreateEffect
<1>2. t.next \notin t.live
  BY DEF RowsAreAnchored, Tables, ContactIds
<1>3. \A f \in FieldIds : t.vals[t.next][f] = NoValue
  BY <1>2 DEF RowsAreAnchored
<1> HIDE DEF u
<1>4. TrailExplains(u)
  BY <1>1, <1>3 DEF TrailExplains, Changes, IsLastChange
<1>5. TrailExplains(ApplyContactValues(u, t.next, new))
  BY <1>1, <1>4, TrailApply
<1> QED
  BY <1>5 DEF CreateContact, u

\* Deleting contacts leaves the log of the others exact.
LEMMA TrailDelete ==
  ASSUME NEW t \in Tables, TrailExplains(t), NEW S
  PROVE  TrailExplains(DeleteContacts(t, S))
<1> DEFINE u == DeleteContacts(t, S)
<1>1. /\ u.live = t.live \ S /\ u.stamp = t.stamp /\ u.hist = {h \in t.hist : h.contact \notin S}
      /\ \A x \in ContactIds \ S : u.vals[x] = t.vals[x]
  BY DEF DeleteContacts, Tables
<1> HIDE DEF u
<1>2. \A x, f : x \notin S => Changes(u, x, f) = Changes(t, x, f)
  BY <1>1 DEF Changes
<1>3. ASSUME NEW x \in u.live, NEW f \in FieldIds, u.vals[x][f] # NoValue
      PROVE  \E h \in Changes(u, x, f) : IsLastChange(u, h) /\ h.new = u.vals[x][f]
  <2>1. x \in t.live /\ x \in ContactIds \ S /\ u.vals[x][f] = t.vals[x][f]
    BY <1>1 DEF Tables
  <2>2. PICK h \in Changes(t, x, f) : IsLastChange(t, h) /\ h.new = t.vals[x][f]
    BY <1>3, <2>1 DEF TrailExplains
  <2>3. h.contact = x /\ h.field = f
    BY <2>2 DEF Changes
  <2> QED
    BY <1>2, <2>1, <2>2, <2>3 DEF IsLastChange
<1>4. TrailExplains(u)
  BY <1>1, <1>2, <1>3 DEF TrailExplains
<1> QED
  BY <1>4 DEF u

\* Only values that are stored need an explanation.
LEMMA TrailFewerValues ==
  ASSUME NEW t, TrailExplains(t), NEW u, u.live = t.live, u.hist = t.hist, u.stamp = t.stamp,
         \A x \in t.live, f \in FieldIds : u.vals[x][f] \in {t.vals[x][f], NoValue}
  PROVE  TrailExplains(u)
BY DEF TrailExplains, Changes, IsLastChange

\* Memberships do not matter to the change log.
LEMMA TrailAddToList ==
  ASSUME NEW t \in Tables, TrailExplains(t), NEW l, NEW S
  PROVE  TrailExplains(AddContactsToList(t, l, S))
BY TrailFewerValues DEF AddContactsToList, Tables

\* Values that a deleted field takes with it need no explanation any more.
LEMMA TrailDropField ==
  ASSUME NEW t \in Tables, TrailExplains(t), NEW f
  PROVE  TrailExplains(DropFieldValues(t, f))
BY TrailFewerValues DEF DropFieldValues, Tables

\* Deleting a list does not matter to the change log.
LEMMA TrailDropList ==
  ASSUME NEW t \in Tables, TrailExplains(t), NEW l
  PROVE  TrailExplains(DropListMembers(t, l))
BY TrailFewerValues DEF DropListMembers, Tables

\* Empty tables have nothing to explain.
LEMMA TrailNoContacts == TrailExplains(NoContacts)
BY DEF TrailExplains, NoContacts

(***************************************************************************)
(* What ContactApi does with them.                                         *)
(***************************************************************************)

-----------------------------------------------------------------------------
(* The shape of a request follows from its op *)

\* The op of a request determines which fields its record has.
LEMMA RequestShape ==
  ASSUME NEW r \in Requests
  PROVE  /\ r.op = "batch" => r \in BatchRequest
         /\ r.op = "seed" => r \in SeedRequest
         /\ r.op = "delete" => r \in DeleteRequest
         /\ r.op = "setfield" => r \in SetFieldRequest
         /\ r.op = "newfield" => r \in NewFieldRequest
         /\ r.op = "dropfield" => r \in DropFieldRequest
         /\ r.op = "seedfield" => r \in SeedFieldRequest
         /\ r.op = "droplist" => r \in DropListRequest
         /\ r.op \in {"batch", "seed", "delete", "setfield", "newfield", "dropfield", "seedfield", "droplist"}
<1>1. r \in Request
  BY RequestsAssumption
<1> QED
  BY <1>1 DEF Request, BatchRequest, SeedRequest, DeleteRequest, SetFieldRequest,
              NewFieldRequest, DropFieldRequest, SeedFieldRequest, DropListRequest

\* The key value of a row is one of the key values, or none.
LEMMA KeyValueIsKeyValue ==
  ASSUME NEW row \in Row, NEW key \in Keys
  PROVE  KeyValue(row, key) \in KeyValues
<1>1. CASE key = ById
  BY <1>1 DEF KeyValue, KeyValues, Row
<1>2. CASE key # ById
  <2>1. row.vals \in FieldValues
    BY DEF Row
  <2> QED
    BY <1>2, <2>1, FieldValuesShape DEF KeyValue, KeyValues, Texts
<1> QED
  BY <1>1, <1>2

-----------------------------------------------------------------------------
(* Type correctness *)

\* The transaction creates no more contacts than the bound leaves room for.
Room == \A c \in Callers : At(c, "rows") =>
          /\ tx.at <= Len(req[c].rows) + 1
          /\ work.next + Len(req[c].rows) <= MaxContact + tx.at

\* A request in its transaction is a batch or a seed, at one of its rows.
LEMMA CurrentRow ==
  ASSUME TypeOK, NEW c \in Callers, At(c, "rows")
  PROVE  /\ req[c] \in BatchRequest \cup SeedRequest
         /\ req[c].key \in Keys /\ req[c].rows \in Seq(Row)
         /\ RowsLeft(c) => RowOf(c) \in Row /\ RowOf(c).vals \in FieldValues /\ KeyOf(c) \in KeyValues
<1>1. req[c] \in Requests /\ "rows" \in StepsOf(req[c])
  BY DEF TypeOK, CallsOK, At, Steps
<1>2. req[c].op \in {"batch", "seed"}
  BY <1>1, RequestShape DEF StepsOf
<1>3. req[c] \in BatchRequest \cup SeedRequest
  BY <1>1, <1>2, RequestShape
<1>4. req[c].key \in Keys /\ req[c].rows \in Seq(Row)
  BY <1>3 DEF BatchRequest, SeedRequest
<1>5. ASSUME RowsLeft(c)
      PROVE  RowOf(c) \in Row /\ RowOf(c).vals \in FieldValues /\ KeyOf(c) \in KeyValues
  <2>1. tx.at \in Nat \ {0} /\ tx.at <= Len(req[c].rows)
    BY <1>5 DEF RowsLeft, TypeOK, StoreOK, Transaction
  <2>2. RowOf(c) \in Row
    BY <1>4, <2>1 DEF RowOf
  <2> QED
    BY <1>4, <2>2, KeyValueIsKeyValue DEF KeyOf, Row
<1> QED
  BY <1>3, <1>4, <1>5

\* What every action needs to know of the request it serves.
LEMMA CurrentRequest ==
  ASSUME TypeOK, NEW c \in Callers, pc[c] \in Steps
  PROVE  req[c] \in Requests /\ pc[c] \in StepsOf(req[c]) /\ cat[c] \in Catalog
BY DEF TypeOK, CallsOK, CatalogOK

-----------------------------------------------------------------------------
(* The catalogue and what the requests know of it *)

\* Every action, read and write of the catalogue alike, keeps the catalogue
\* and every copy of it well typed.
LEMMA CatalogStep ==
  ASSUME TypeOK, Next
  PROVE  CatalogOK'
<1> USE DEF TypeOK
<1>1. ASSUME UNCHANGED <<catalogVars, cat, nextField>>
      PROVE  CatalogOK'
  BY <1>1 DEF CatalogOK, catalogVars
<1>2. ASSUME NEW c \in Callers, LoadFields(c)
      PROVE  CatalogOK'
  <2>1. NoCatalog \in Catalog
    BY DEF NoCatalog, Catalog
  <2>2. [NoCatalog EXCEPT !.fields = fields] \in Catalog
    BY <2>1 DEF CatalogOK, Catalog, NoCatalog
  <2> QED
    BY <1>2, <2>2 DEF LoadFields, CatalogOK, catalogVars
<1>3. ASSUME NEW c \in Callers, LoadChoices(c)
      PROVE  CatalogOK'
  <2>1. [cat[c] EXCEPT !.choices = choices] \in Catalog
    BY DEF CatalogOK, Catalog
  <2>2. cat' = [cat EXCEPT ![c] = [cat[c] EXCEPT !.choices = choices]] /\ UNCHANGED <<catalogVars, nextField>>
    BY <1>3 DEF LoadChoices
  <2> QED
    BY <2>1, <2>2 DEF CatalogOK, catalogVars
<1>4. ASSUME NEW c \in Callers, AllocateField(c)
      PROVE  CatalogOK'
  BY <1>4 DEF AllocateField, CatalogOK, catalogVars
<1>5. ASSUME NEW c \in Callers, InsertField(c)
      PROVE  CatalogOK'
  <2>1. req[c].def \in FieldDef /\ nextField[c] \in FieldIds
    <3>1. req[c] \in Requests /\ req[c].op = "newfield"
      BY <1>5, CurrentRequest DEF InsertField, Writing, At, Steps
    <3> QED
      BY <3>1, RequestShape DEF NewFieldRequest, CatalogOK
  <2> QED
    BY <1>5, <2>1 DEF InsertField, CatalogOK
<1>6. ASSUME NEW c \in Callers, DropField(c)
      PROVE  CatalogOK'
  BY <1>6 DEF DropField, CatalogOK
<1>7. ASSUME NEW c \in Callers, UpsertField(c)
      PROVE  CatalogOK'
  <2>1. req[c].def \in FieldDef /\ req[c].field \in FieldIds
    <3>1. req[c] \in Requests /\ req[c].op = "seedfield"
      BY <1>7, CurrentRequest DEF UpsertField, Writing, At, Steps
    <3> QED
      BY <3>1, RequestShape DEF SeedFieldRequest
  <2> QED
    BY <1>7, <2>1 DEF UpsertField, CatalogOK
<1>8. ASSUME NEW c \in Callers, AddChoice(c)
      PROVE  CatalogOK'
  <2>1. req[c].choice \in Values
    <3>1. req[c] \in Requests /\ req[c].op = "seedfield" /\ "choice" \in StepsOf(req[c])
      BY <1>8, CurrentRequest DEF AddChoice, Writing, At, Steps
    <3> QED
      BY <3>1 DEF StepsOf
  <2> QED
    BY <1>8, <2>1 DEF AddChoice, CatalogOK
<1>9. ASSUME NEW c \in Callers, DropList(c)
      PROVE  CatalogOK'
  BY <1>9 DEF DropList, CatalogOK
<1>10. ASSUME NEW c \in Callers,
              \/ Abandon(c) \/ CheckList(c) \/ Begin(c) \/ RefuseRow(c) \/ WriteRow(c)
              \/ SeedRow(c) \/ RollBack(c) \/ Commit(c) \/ DeleteMatching(c) \/ SetField(c)
              \/ CheckField(c) \/ \E r \in Requests : Call(c, r)
       PROVE  CatalogOK'
  BY <1>1, <1>10 DEF Abandon, CheckList, Begin, RefuseRow, WriteRow, SeedRow, RollBack, Commit,
                     DeleteMatching, SetField, CheckField, Call
<1>11. ASSUME Finished
       PROVE  CatalogOK'
  BY <1>1, <1>11 DEF Finished, vars, catalogVars
<1> QED
  BY <1>2, <1>3, <1>4, <1>5, <1>6, <1>7, <1>8, <1>9, <1>10, <1>11 DEF Next, Serve

-----------------------------------------------------------------------------
(* Who is where, with which request *)

\* Moving one request to a step of its own keeps the calls well typed.
LEMMA MoveIsCalls ==
  ASSUME CallsOK, NEW c \in Callers, NEW step \in Resting \cup StepsOf(req[c]),
         pc[c] \in Steps, GoTo(c, step), UNCHANGED callVars
  PROVE  CallsOK'
<1>1. StepsOf(req[c]) \subseteq Steps
  BY DEF StepsOf, Steps
<1>2. pc \in [Callers -> Resting \cup Steps] /\ pc' = [pc EXCEPT ![c] = step]
      /\ req' = req /\ calls' = calls
  BY DEF CallsOK, GoTo, callVars
<1>3. pc' \in [Callers -> Resting \cup Steps]
  BY <1>1, <1>2
<1>4. ASSUME NEW d \in Callers, pc'[d] \in Steps
      PROVE  req'[d] \in Requests /\ pc'[d] \in StepsOf(req'[d])
  <2>1. Resting \cap Steps = {}
    BY DEF Resting, Steps
  <2> QED
    BY <1>2, <1>4, <2>1 DEF CallsOK
<1> QED
  BY <1>2, <1>3, <1>4 DEF CallsOK

\* Every action moves a request to a step that requests of its kind have.
LEMMA CallsStep ==
  ASSUME TypeOK, Next
  PROVE  CallsOK'
<1>0. CallsOK
  BY DEF TypeOK
<1>1. ASSUME NEW c \in Callers, NEW r \in Requests, Call(c, r)
      PROVE  CallsOK'
  <2>1. FirstStep(r) \in StepsOf(r) /\ StepsOf(r) \subseteq Steps
    <3>1. r.op \in {"batch", "seed", "delete", "setfield", "newfield", "dropfield", "seedfield", "droplist"}
      BY RequestShape
    <3> QED
      BY <3>1 DEF FirstStep, StepsOf, Steps
  <2>2. calls' \in 0..MaxCalls
    BY <1>0, <1>1, CallsAssumption DEF Call, CallsOK
  <2> QED
    BY <1>0, <1>1, <2>1, <2>2 DEF Call, CallsOK
<1>2. ASSUME NEW c \in Callers, Abandon(c)
      PROVE  CallsOK'
  BY <1>0, <1>2, MoveIsCalls DEF Abandon, GoTo, Resting
<1>3. ASSUME NEW c \in Callers, LoadFields(c) \/ LoadChoices(c) \/ CheckList(c)
      PROVE  CallsOK'
  <2>1. pc[c] \in {"fields", "choices", "list"} /\ UNCHANGED callVars
    BY <1>3 DEF LoadFields, LoadChoices, CheckList, At
  <2>2. req[c] \in Requests /\ pc[c] \in StepsOf(req[c]) /\ pc[c] \in Steps
    BY <2>1, CurrentRequest DEF Steps
  <2>3. req[c].op \in {"batch", "seed", "delete", "setfield"} /\ (pc[c] = "list" => req[c].op = "batch")
    BY <2>1, <2>2, RequestShape DEF StepsOf
  <2>4. PICK step \in {"choices", "list", "begin", "failed"} :
          GoTo(c, step) /\ (step = "list" => req[c].op = "batch")
    BY <1>3 DEF LoadFields, LoadChoices, CheckList
  <2>5. step \in Resting \cup StepsOf(req[c])
    BY <2>3, <2>4 DEF StepsOf, Resting
  <2> QED
    BY <1>0, <2>1, <2>2, <2>4, <2>5, MoveIsCalls
<1>4. ASSUME NEW c \in Callers, Begin(c)
      PROVE  CallsOK'
  <2>1. pc[c] \in Steps /\ "rows" \in StepsOf(req[c])
    BY <1>4 DEF Begin, At, Steps, StepsOf
  <2> QED
    BY <1>0, <1>4, <2>1, MoveIsCalls DEF Begin
<1>5. ASSUME NEW c \in Callers, RefuseRow(c) \/ WriteRow(c) \/ SeedRow(c)
      PROVE  CallsOK'
  BY <1>0, <1>5 DEF RefuseRow, WriteRow, SeedRow, CallsOK, callVars
<1>6. ASSUME NEW c \in Callers,
             \/ RollBack(c) \/ Commit(c) \/ DeleteMatching(c) \/ SetField(c) \/ InsertField(c)
             \/ DropField(c) \/ AddChoice(c) \/ DropList(c)
      PROVE  CallsOK'
  <2>1. pc[c] \in Steps /\ UNCHANGED callVars
    BY <1>6 DEF RollBack, Commit, DeleteMatching, SetField, InsertField, DropField, AddChoice,
                DropList, Writing, At, Steps
  <2>2. PICK step \in Resting : GoTo(c, step)
    BY <1>6 DEF RollBack, Commit, DeleteMatching, SetField, InsertField, DropField, AddChoice,
                DropList, Resting
  <2> QED
    BY <1>0, <2>1, <2>2, MoveIsCalls
<1>7. ASSUME NEW c \in Callers, AllocateField(c) \/ CheckField(c)
      PROVE  CallsOK'
  <2>1. pc[c] \in Steps /\ UNCHANGED callVars /\ req[c].op \in {"newfield", "dropfield"}
    BY <1>7 DEF AllocateField, CheckField, Writing, At, Steps
  <2>2. PICK step \in {"write", "failed"} : GoTo(c, step)
    BY <1>7 DEF AllocateField, CheckField
  <2>3. step \in Resting \cup StepsOf(req[c])
    BY <2>1 DEF StepsOf, Resting
  <2> QED
    BY <1>0, <2>1, <2>2, <2>3, MoveIsCalls
<1>8. ASSUME NEW c \in Callers, UpsertField(c)
      PROVE  CallsOK'
  <2>1. pc[c] \in Steps /\ UNCHANGED callVars /\ req[c].op = "seedfield"
    BY <1>8 DEF UpsertField, Writing, At, Steps
  <2>2. PICK step \in {"choice", "ok", "failed"} :
          GoTo(c, step) /\ (step = "choice" => req[c].choice \in Values)
    BY <1>8 DEF UpsertField
  <2>3. step \in Resting \cup StepsOf(req[c])
    BY <2>1, <2>2 DEF StepsOf, Resting
  <2> QED
    BY <1>0, <2>1, <2>2, <2>3, MoveIsCalls
<1>9. ASSUME Finished
      PROVE  CallsOK'
  BY <1>0, <1>9 DEF Finished, vars, CallsOK
<1> QED
  BY <1>1, <1>2, <1>3, <1>4, <1>5, <1>6, <1>7, <1>8, <1>9 DEF Next, Serve

-----------------------------------------------------------------------------
(* The write connection *)

\* The locals with which WithTx starts are a transaction.
LEMMA NoTxIsTransaction == NoTx \in Transaction
BY DEF NoTx, Transaction

\* WithTx ends, by Commit or Rollback, with well-typed tables.
LEMMA ReleaseIsStore ==
  ASSUME StoreOK, Release, db' \in Tables
  PROVE  StoreOK'
BY NoTxIsTransaction, NoContactsIsTables DEF StoreOK, Release

\* Going on to the next row keeps the locals of a batch well typed.
LEMMA NextRowIsTransaction ==
  ASSUME StoreOK, NEW x \in ContactIds, NEW seen \in SUBSET KeyValues, NextRow(x, seen)
  PROVE  tx' \in Transaction
<1>1. tx.at + 1 \in Nat \ {0} /\ tx.touched \cup {x} \in SUBSET ContactIds
  BY DEF StoreOK, Transaction
<1> QED
  BY <1>1 DEF NextRow, StoreOK, Transaction

\* There is room for the contact a row of the transaction may create.
LEMMA NextIdIsContact ==
  ASSUME TypeOK, Room, NEW c \in Callers, RowsLeft(c)
  PROVE  work.next \in ContactIds
<1>1. req[c].rows \in Seq(Row)
  BY CurrentRow DEF RowsLeft
<1>2. Len(req[c].rows) \in Nat /\ tx.at \in Nat \ {0} /\ work.next \in Nat \ {0}
  BY <1>1 DEF TypeOK, StoreOK, Transaction, Tables
<1> QED
  BY <1>2, BoundsAssumption DEF RowsLeft, Room, ContactIds

\* A row that is written, to whichever contact, keeps the store well typed.
LEMMA WrittenRow ==
  ASSUME TypeOK, Room, NEW c \in Callers, RowsLeft(c), NEW seen \in SUBSET KeyValues,
         UNCHANGED <<db, conn>>,
         \/ \E x \in Found(c) : work' = ApplyContactValues(work, x, RowOf(c).vals) /\ NextRow(x, seen)
         \/ work' = CreateContact(work, RowOf(c).vals) /\ NextRow(work.next, seen)
  PROVE  StoreOK'
<1>1. RowOf(c).vals \in FieldValues
  BY CurrentRow DEF RowsLeft
<1>2. Found(c) \subseteq ContactIds /\ StoreOK
  BY DEF Found, FindContactIDs, TypeOK, StoreOK, Tables
<1>3. CASE \E x \in Found(c) : work' = ApplyContactValues(work, x, RowOf(c).vals) /\ NextRow(x, seen)
  BY <1>1, <1>2, <1>3, ApplyIsTables, NextRowIsTransaction DEF StoreOK
<1>4. CASE work' = CreateContact(work, RowOf(c).vals) /\ NextRow(work.next, seen)
  BY <1>1, <1>2, <1>4, NextIdIsContact, CreateIsTables, NextRowIsTransaction DEF StoreOK
<1> QED
  BY <1>3, <1>4

\* Every action keeps the tables, in the database and in the transaction, and
\* the owner of the connection well typed.
LEMMA StoreStep ==
  ASSUME TypeOK, Room, Next
  PROVE  StoreOK'
<1>0. StoreOK
  BY DEF TypeOK
<1>1. ASSUME UNCHANGED <<db, txVars>>
      PROVE  StoreOK'
  BY <1>0, <1>1 DEF StoreOK, txVars
<1>2. ASSUME NEW c \in Callers, Abandon(c)
      PROVE  StoreOK'
  BY <1>0, <1>1, <1>2, ReleaseIsStore DEF Abandon, GiveUp, StoreOK
<1>3. ASSUME NEW c \in Callers, Begin(c)
      PROVE  StoreOK'
  BY <1>0, <1>3, NoTxIsTransaction DEF Begin, StoreOK
<1>4. ASSUME NEW c \in Callers, RefuseRow(c)
      PROVE  StoreOK'
  <2>1. KeyOf(c) \in KeyValues
    BY <1>4, CurrentRow DEF RefuseRow, RowsLeft
  <2>2. PICK code \in Codes :
          tx' = [tx EXCEPT !.at = tx.at + 1, !.seen = tx.seen \cup ({KeyOf(c)} \ {NoKey}),
                           !.errors[KeyOf(c)] = code]
    BY <1>4 DEF RefuseRow
  <2>3. /\ tx.at + 1 \in Nat \ {0} /\ tx.seen \cup ({KeyOf(c)} \ {NoKey}) \in SUBSET KeyValues
        /\ [tx.errors EXCEPT ![KeyOf(c)] = code] \in [KeyValues -> Codes \cup {"none"}]
    BY <1>0, <2>1 DEF StoreOK, Transaction
  <2>4. tx' = [tx EXCEPT !.at = tx.at + 1, !.seen = tx.seen \cup ({KeyOf(c)} \ {NoKey}),
                         !.errors = [tx.errors EXCEPT ![KeyOf(c)] = code]]
    BY <2>2
  <2>5. tx' \in Transaction
    BY <1>0, <2>3, <2>4 DEF StoreOK, Transaction
  <2> QED
    BY <1>0, <1>4, <2>5 DEF RefuseRow, StoreOK
<1>5. ASSUME NEW c \in Callers, WriteRow(c)
      PROVE  StoreOK'
  <2>1. tx.seen \cup {KeyOf(c)} \in SUBSET KeyValues
    BY <1>0, <1>5, CurrentRow DEF WriteRow, RowsLeft, StoreOK, Transaction
  <2> QED
    BY <1>5, <2>1, WrittenRow DEF WriteRow
<1>6. ASSUME NEW c \in Callers, SeedRow(c)
      PROVE  StoreOK'
  <2>1. tx.seen \in SUBSET KeyValues
    BY <1>0 DEF StoreOK, Transaction
  <2> QED
    BY <1>6, <2>1, WrittenRow DEF SeedRow
<1>7. ASSUME NEW c \in Callers, RollBack(c)
      PROVE  StoreOK'
  BY <1>0, <1>7, ReleaseIsStore DEF RollBack, StoreOK
<1>8. ASSUME NEW c \in Callers, Commit(c)
      PROVE  StoreOK'
  <2>1. req[c].op = "batch" => req[c].list \in Lists \cup {NoList}
    BY <1>8, CurrentRow DEF Commit, BatchRequest, SeedRequest
  <2>2. db' \in Tables
    BY <1>0, <1>8, <2>1, AddToListIsTables DEF Commit, Joins, StoreOK, Transaction
  <2> QED
    BY <1>0, <1>8, <2>2, ReleaseIsStore DEF Commit
<1>9. ASSUME NEW c \in Callers, DeleteMatching(c)
      PROVE  StoreOK'
  BY <1>0, <1>9, DeleteIsTables DEF DeleteMatching, StoreOK, txVars
<1>10. ASSUME NEW c \in Callers, SetField(c)
       PROVE  StoreOK'
  <2>1. req[c] \in SetFieldRequest
    BY <1>10, CurrentRequest, RequestShape DEF SetField, At, Steps
  <2>2. [f \in {req[c].field} |-> req[c].value] \in FieldValues /\ req[c].contact \in ContactIds
    BY <2>1, OneFieldValue DEF SetFieldRequest
  <2> QED
    BY <1>0, <1>10, <2>2, ApplyIsTables DEF SetField, StoreOK, txVars
<1>11. ASSUME NEW c \in Callers, DropField(c)
       PROVE  StoreOK'
  <2>1. req[c].field \in FieldIds
    BY <1>11, CurrentRequest, RequestShape DEF DropField, Writing, At, Steps, DropFieldRequest
  <2> QED
    BY <1>0, <1>11, <2>1, DropFieldIsTables DEF DropField, StoreOK, txVars
<1>12. ASSUME NEW c \in Callers, DropList(c)
       PROVE  StoreOK'
  BY <1>0, <1>12, DropListIsTables DEF DropList, StoreOK, txVars
<1>13. ASSUME NEW c \in Callers,
              \/ LoadFields(c) \/ LoadChoices(c) \/ CheckList(c) \/ AllocateField(c) \/ InsertField(c)
              \/ CheckField(c) \/ UpsertField(c) \/ AddChoice(c) \/ \E r \in Requests : Call(c, r)
       PROVE  StoreOK'
  BY <1>1, <1>13 DEF LoadFields, LoadChoices, CheckList, AllocateField, InsertField, CheckField,
                     UpsertField, AddChoice, Call
<1>14. ASSUME Finished
       PROVE  StoreOK'
  BY <1>1, <1>14 DEF Finished, vars, txVars
<1> QED
  BY <1>2, <1>3, <1>4, <1>5, <1>6, <1>7, <1>8, <1>9, <1>10, <1>11, <1>12, <1>13, <1>14 DEF Next, Serve

-----------------------------------------------------------------------------
(* The owner of the connection, and the room left for its contacts *)

IInv == TypeOK /\ ConnectionOwner /\ Room

\* A request that stays out of its transaction leaves owner and room alone.
LEMMA MoveOutside ==
  ASSUME IInv, NEW c \in Callers, NEW step, step # "rows", pc[c] # "rows",
         pc' = [pc EXCEPT ![c] = step], UNCHANGED txVars, \A d \in Callers \ {c} : req'[d] = req[d]
  PROVE  ConnectionOwner' /\ Room'
BY DEF IInv, TypeOK, CallsOK, ConnectionOwner, Room, At, txVars

\* The end of a transaction leaves nobody in one.
LEMMA MoveRelease ==
  ASSUME IInv, NEW c \in Callers, NEW step, step # "rows", conn = c,
         pc' = [pc EXCEPT ![c] = step], Release
  PROVE  ConnectionOwner' /\ Room'
BY AbsentAssumption DEF IInv, TypeOK, CallsOK, ConnectionOwner, Room, At, Release

\* Writing values never changes the next contact id.
LEMMA ApplyNext ==
  ASSUME NEW t \in Tables, NEW x, NEW new
  PROVE  ApplyContactValues(t, x, new).next = t.next
BY DEF ApplyContactValues, Tables

\* Creating a contact advances the AUTOINCREMENT counter by exactly one.
LEMMA CreateNext ==
  ASSUME NEW t \in Tables, t.next \in ContactIds, NEW new
  PROVE  CreateContact(t, new).next = t.next + 1
<1> DEFINE u == [t EXCEPT !.live = t.live \cup {t.next}, !.next = t.next + 1]
<1>1. t.live \cup {t.next} \in SUBSET ContactIds /\ t.next + 1 \in Nat \ {0}
  BY DEF Tables
<1>2. u \in Tables /\ u.next = t.next + 1
  BY <1>1, SetLive DEF Tables
<1> HIDE DEF u
<1>3. ApplyContactValues(u, t.next, new).next = u.next
  BY <1>2, ApplyNext
<1> QED
  BY <1>2, <1>3 DEF CreateContact, u

\* Arithmetic of Room: one row less to go pays for one contact more.
LEMMA OneMore ==
  ASSUME NEW n \in Nat, NEW m \in Nat, NEW len \in Nat, NEW at \in Nat,
         m <= n + 1, n + len <= MaxContact + at
  PROVE  m + len <= MaxContact + (at + 1)
BY BoundsAssumption

\* A row that is refused or written keeps the owner, and room for the rest.
LEMMA RowStep ==
  ASSUME IInv, NEW c \in Callers, RowsLeft(c), tx'.at = tx.at + 1,
         work'.next <= work.next + 1, work' \in Tables, UNCHANGED <<pc, req, conn>>
  PROVE  ConnectionOwner' /\ Room'
<1>1. tx.at \in Nat \ {0} /\ work.next \in Nat \ {0} /\ work'.next \in Nat \ {0}
  BY DEF IInv, TypeOK, StoreOK, Transaction, Tables
<1>2. Len(req[c].rows) \in Nat
  BY CurrentRow DEF RowsLeft, IInv
<1>3. \A d \in Callers : At(d, "rows") => d = c
  BY DEF IInv, ConnectionOwner, RowsLeft
<1>4. ConnectionOwner'
  BY DEF IInv, ConnectionOwner, At
<1>5. ASSUME NEW d \in Callers, At(d, "rows")'
      PROVE  /\ tx'.at <= Len(req'[d].rows) + 1
             /\ work'.next + Len(req'[d].rows) <= MaxContact + tx'.at
  <2>1. d = c /\ req'[d] = req[c]
    BY <1>3, <1>5 DEF At
  <2>2. tx.at <= Len(req[c].rows) /\ work.next + Len(req[c].rows) <= MaxContact + tx.at
    BY DEF IInv, Room, RowsLeft
  <2>3. tx'.at <= Len(req[c].rows) + 1
    BY <1>1, <1>2, <2>2
  <2>4. work'.next + Len(req[c].rows) <= MaxContact + tx'.at
    BY <1>1, <1>2, <2>2, OneMore
  <2> QED
    BY <2>1, <2>3, <2>4
<1>6. Room'
  BY <1>5 DEF Room
<1> QED
  BY <1>4, <1>6

\* Every action keeps the write connection with the request that is in its
\* transaction, and room for the contacts its rows may create.
LEMMA OwnerAndRoomStep ==
  ASSUME IInv, Next
  PROVE  ConnectionOwner' /\ Room'
<1>0. TypeOK /\ StoreOK /\ CallsOK /\ ConnectionOwner /\ Room
  BY DEF IInv, TypeOK
<1>1. ASSUME NEW c \in Callers, NEW r \in Requests, Call(c, r)
      PROVE  ConnectionOwner' /\ Room'
  <2>1. FirstStep(r) # "rows" /\ pc[c] # "rows"
    BY <1>1 DEF Call, FirstStep, Resting
  <2> QED
    BY <1>0, <1>1, <2>1, MoveOutside DEF Call, CallsOK
<1>2. ASSUME NEW c \in Callers, Abandon(c)
      PROVE  ConnectionOwner' /\ Room'
  <2>1. CASE conn = c
    BY <1>2, <2>1, MoveRelease DEF Abandon, GiveUp
  <2>2. CASE conn # c
    <3>1. pc[c] # "rows"
      BY <1>0, <2>2 DEF ConnectionOwner, At
    <3> QED
      BY <1>2, <2>2, <3>1, MoveOutside DEF Abandon, GiveUp, callVars
  <2> QED
    BY <2>1, <2>2
<1>3. ASSUME NEW c \in Callers,
             \/ LoadFields(c) \/ LoadChoices(c) \/ CheckList(c) \/ DeleteMatching(c) \/ SetField(c)
             \/ AllocateField(c) \/ InsertField(c) \/ CheckField(c) \/ DropField(c)
             \/ UpsertField(c) \/ AddChoice(c) \/ DropList(c)
      PROVE  ConnectionOwner' /\ Room'
  <2>1. pc[c] # "rows" /\ UNCHANGED <<txVars, callVars>>
    BY <1>3 DEF LoadFields, LoadChoices, CheckList, DeleteMatching, SetField, AllocateField,
                InsertField, CheckField, DropField, UpsertField, AddChoice, DropList, Writing, At
  <2>2. PICK step \in {"choices", "list", "begin", "ok", "failed", "write", "choice"} : GoTo(c, step)
    BY <1>3 DEF LoadFields, LoadChoices, CheckList, DeleteMatching, SetField, AllocateField,
                InsertField, CheckField, DropField, UpsertField, AddChoice, DropList
  <2> QED
    BY <2>1, <2>2, MoveOutside DEF GoTo, callVars
<1>4. ASSUME NEW c \in Callers, Begin(c)
      PROVE  ConnectionOwner' /\ Room'
  <2>1. req[c].rows \in Seq(Row)
    BY <1>0, <1>4, CurrentRequest, RequestShape DEF Begin, At, Steps, BatchRequest, SeedRequest
  <2>2. Len(req[c].rows) \in Nat /\ db.next \in Nat
    BY <1>0, <2>1 DEF StoreOK, Tables
  <2>3. \A d \in Callers : pc[d] # "rows"
    BY <1>0, <1>4, AbsentAssumption DEF Begin, ConnectionOwner, At
  <2>4. conn' = c /\ pc' = [pc EXCEPT ![c] = "rows"] /\ req' = req /\ work' = db /\ tx'.at = 1
    BY <1>4 DEF Begin, GoTo, callVars, NoTx
  <2>5. ConnectionOwner'
    BY <1>0, <2>3, <2>4 DEF ConnectionOwner, At, CallsOK
  <2>6. db.next + Len(req[c].rows) <= MaxContact + 1
    BY <1>4 DEF Begin
  <2>7. Room'
    BY <1>0, <2>2, <2>3, <2>4, <2>6, BoundsAssumption DEF Room, At, CallsOK
  <2> QED
    BY <2>5, <2>7
<1>5. ASSUME NEW c \in Callers, RefuseRow(c)
      PROVE  ConnectionOwner' /\ Room'
  <2>1. tx'.at = tx.at + 1
    BY <1>0, <1>5 DEF RefuseRow, StoreOK, Transaction
  <2>2. work' = work /\ work \in Tables /\ work.next \in Nat
    BY <1>0, <1>5 DEF RefuseRow, StoreOK, Tables
  <2> QED
    BY <1>5, <2>1, <2>2, RowStep DEF RefuseRow, callVars
<1>6. ASSUME NEW c \in Callers, WriteRow(c) \/ SeedRow(c)
      PROVE  ConnectionOwner' /\ Room'
  <2>1. RowsLeft(c) /\ UNCHANGED <<pc, req, conn>>
    BY <1>6 DEF WriteRow, SeedRow, callVars
  <2>2. work \in Tables /\ work.next \in ContactIds
    BY <1>0, <2>1, NextIdIsContact DEF StoreOK
  <2>3. work'.next <= work.next + 1
    <3>1. \/ \E x \in Found(c) : work' = ApplyContactValues(work, x, RowOf(c).vals)
          \/ work' = CreateContact(work, RowOf(c).vals)
      BY <1>6 DEF WriteRow, SeedRow
    <3>2. work.next \in Nat
      BY <2>2 DEF Tables
    <3> QED
      BY <2>2, <3>1, <3>2, ApplyNext, CreateNext
  <2>4. tx'.at = tx.at + 1
    BY <1>0, <1>6 DEF WriteRow, SeedRow, NextRow, StoreOK, Transaction
  <2>5. work' \in Tables
    BY <1>0, StoreStep DEF StoreOK
  <2> QED
    BY <2>1, <2>3, <2>4, <2>5, RowStep
<1>7. ASSUME NEW c \in Callers, RollBack(c) \/ Commit(c)
      PROVE  ConnectionOwner' /\ Room'
  <2>1. conn = c /\ Release
    BY <1>0, <1>7 DEF RollBack, Commit, ConnectionOwner
  <2>2. PICK step \in {"ok", "failed"} : GoTo(c, step)
    BY <1>7 DEF RollBack, Commit
  <2> QED
    BY <2>1, <2>2, MoveRelease DEF GoTo
<1>8. ASSUME Finished
      PROVE  ConnectionOwner' /\ Room'
  BY <1>0, <1>8 DEF Finished, vars, ConnectionOwner, Room, At
<1> QED
  BY <1>1, <1>2, <1>3, <1>4, <1>5, <1>6, <1>7, <1>8 DEF Next, Serve

\* The seeded database and idle callers satisfy the invariant.
LEMMA InitIInv == Init => IInv
<1> SUFFICES ASSUME Init PROVE IInv
  OBVIOUS
<1>1. CatalogOK
  <2>1. NoCatalog \in Catalog
    BY DEF NoCatalog, Catalog
  <2> QED
    BY <2>1, SeedAssumption, BoundsAssumption DEF Init, CatalogOK, FieldIds
<1>2. StoreOK
  BY NoContactsIsTables, NoTxIsTransaction DEF Init, StoreOK
<1>3. CallsOK
  BY CallsAssumption DEF Init, CallsOK, Resting, Steps
<1>4. ConnectionOwner /\ Room
  BY AbsentAssumption DEF Init, ConnectionOwner, Room, At
<1> QED
  BY <1>1, <1>2, <1>3, <1>4 DEF IInv, TypeOK

\* A step that changes nothing keeps the invariant.
LEMMA StutterIInv ==
  ASSUME IInv, UNCHANGED vars
  PROVE  IInv'
<1>2. CatalogOK'
  BY DEF IInv, TypeOK, CatalogOK, vars
<1>3. StoreOK'
  BY DEF IInv, TypeOK, StoreOK, vars
<1>4. CallsOK'
  BY DEF IInv, TypeOK, CallsOK, vars
<1>5. ConnectionOwner' /\ Room'
  BY DEF IInv, ConnectionOwner, Room, At, vars
<1> QED
  BY <1>2, <1>3, <1>4, <1>5 DEF IInv, TypeOK

\* The types, the owner of the write connection and the room for contacts
\* are an inductive invariant of the requests.
THEOREM IInvIsInvariant == Spec => []IInv
<1>1. IInv /\ [Next]_vars => IInv'
  <2>1. IInv /\ Next => IInv'
    BY CatalogStep, StoreStep, CallsStep, OwnerAndRoomStep DEF IInv, TypeOK
  <2> QED
    BY <2>1, StutterIInv
<1> QED
  BY <1>1, InitIInv, PTL DEF Spec

\* Every variable keeps its type, and a request is only ever at a step that
\* requests of its kind have, whatever is asked concurrently.
THEOREM TypeCorrect == Spec => []TypeOK
BY IInvIsInvariant, PTL DEF IInv

\* The write connection belongs to the request that is inside its transaction
\* and to nobody else: however a transaction ends, WithTx gives it back.
THEOREM ConnectionOwnership == Spec => []ConnectionOwner
BY IInvIsInvariant, PTL DEF IInv

-----------------------------------------------------------------------------
(* The contact tables stay sound under every interleaving of requests:     *)
(* nothing dangles, the change log explains every value, and a transaction *)
(* changes nothing but the contacts it touched.                            *)

\* The open transaction differs from the database only in what it touched.
WorkExtendsDatabase ==
  conn # NoCaller =>
    /\ tx.touched \subseteq work.live
    /\ db.live \subseteq work.live /\ db.hist \subseteq work.hist /\ work.members = db.members
    /\ \A x \in ContactIds \ tx.touched : work.vals[x] = db.vals[x]

Sound == ReferentialIntegrity /\ AuditTrail /\ WorkExtendsDatabase

\* The conjuncts of Sound that speak of the database alone.
DatabaseSound == RowsAreAnchored(db, Known(fields), lists) /\ TrailExplains(db)

-----------------------------------------------------------------------------
\* Outside a transaction only the database and the catalogue matter.
LEMMA SoundWithoutWork ==
  ASSUME conn = NoCaller, DatabaseSound, \A f \in FieldIds : fields[f] = NoField => choices[f] = {}
  PROVE  Sound
BY DEF Sound, ReferentialIntegrity, AuditTrail, WorkExtendsDatabase, DatabaseSound

\* What a row that is written does to the transaction.
LEMMA WriteEffect ==
  ASSUME IInv, NEW c \in Callers, WriteRow(c) \/ SeedRow(c)
  PROVE  /\ conn = c /\ c # NoCaller /\ work \in Tables /\ work.next \in ContactIds
         /\ RowOf(c).vals \in FieldValues /\ DOMAIN RowOf(c).vals \subseteq Known(fields)
         /\ UNCHANGED <<fields, choices, lists, db, conn>>
         /\ \E x \in ContactIds :
              /\ tx'.touched = tx.touched \cup {x}
              /\ \/ x \in work.live /\ work' = ApplyContactValues(work, x, RowOf(c).vals)
                 \/ x = work.next /\ work' = CreateContact(work, RowOf(c).vals)
<1>1. RowsLeft(c) /\ RowIsStorable(RowOf(c)) /\ UNCHANGED <<fields, choices, lists, db, conn>>
  BY DEF WriteRow, SeedRow, catalogVars
<1>2. TypeOK /\ StoreOK /\ ConnectionOwner /\ Room
  BY DEF IInv, TypeOK
<1>3. conn = c /\ c # NoCaller /\ work \in Tables /\ work.next \in ContactIds
  BY <1>1, <1>2, NextIdIsContact, AbsentAssumption DEF ConnectionOwner, RowsLeft, StoreOK
<1>4. RowOf(c).vals \in FieldValues /\ DOMAIN RowOf(c).vals \subseteq Known(fields)
  BY <1>1, <1>2, CurrentRow DEF RowsLeft, RowIsStorable
<1>5. PICK x \in ContactIds, seen \in {tx.seen, tx.seen \cup {KeyOf(c)}} :
        /\ NextRow(x, seen)
        /\ \/ x \in work.live /\ work' = ApplyContactValues(work, x, RowOf(c).vals)
           \/ x = work.next /\ work' = CreateContact(work, RowOf(c).vals)
  <2>1. Found(c) \subseteq work.live /\ work.live \subseteq ContactIds
    BY <1>3 DEF Found, FindContactIDs, Tables
  <2> QED
    BY <1>3, <2>1 DEF WriteRow, SeedRow
<1>6. tx'.touched = tx.touched \cup {x}
  BY <1>2, <1>5 DEF NextRow, StoreOK, Transaction
<1> QED
  BY <1>1, <1>3, <1>4, <1>5, <1>6

\* Updating or creating a contact in a transaction keeps its view sound.
LEMMA WriteKeepsSound ==
  ASSUME IInv, Sound, NEW c \in Callers, WriteRow(c) \/ SeedRow(c)
  PROVE  Sound'
<1> DEFINE new == RowOf(c).vals
<1>1. /\ conn = c /\ c # NoCaller /\ work \in Tables /\ work.next \in ContactIds
      /\ new \in FieldValues /\ DOMAIN new \subseteq Known(fields)
      /\ UNCHANGED <<fields, choices, lists, db, conn>>
  BY WriteEffect
<1>2. PICK x \in ContactIds :
        /\ tx'.touched = tx.touched \cup {x}
        /\ \/ x \in work.live /\ work' = ApplyContactValues(work, x, new)
           \/ x = work.next /\ work' = CreateContact(work, new)
  BY WriteEffect
<1>3. /\ RowsAreAnchored(work, Known(fields), lists) /\ TrailExplains(work)
      /\ tx.touched \subseteq work.live /\ db.live \subseteq work.live
      /\ db.hist \subseteq work.hist /\ work.members = db.members
      /\ \A y \in ContactIds \ tx.touched : work.vals[y] = db.vals[y]
  BY <1>1 DEF Sound, ReferentialIntegrity, AuditTrail, WorkExtendsDatabase
<1> HIDE DEF new
<1>4. RowsAreAnchored(work', Known(fields), lists) /\ TrailExplains(work')
  BY <1>1, <1>2, <1>3, AnchoredApply, AnchoredCreate, TrailApply, TrailCreate
<1>5. /\ work'.live = work.live \cup {x} /\ work'.members = work.members /\ work.hist \subseteq work'.hist
      /\ \A y \in ContactIds \ {x} : work'.vals[y] = work.vals[y]
  <2>1. CASE x \in work.live /\ work' = ApplyContactValues(work, x, new)
    BY <1>1, <2>1, ApplyEffect
  <2>2. CASE x = work.next /\ work' = CreateContact(work, new)
    <3> DEFINE u == [work EXCEPT !.live = work.live \cup {work.next}, !.next = work.next + 1]
    <3>1. /\ u \in Tables /\ u.live = work.live \cup {work.next}
          /\ u.vals = work.vals /\ u.hist = work.hist /\ u.members = work.members
      BY <1>1, CreateEffect
    <3>2. work' = ApplyContactValues(u, x, new)
      BY <2>2 DEF CreateContact
    <3> HIDE DEF u
    <3> QED
      BY <1>1, <2>2, <3>1, <3>2, ApplyEffect
  <2> QED
    BY <1>2, <2>1, <2>2
<1>6. WorkExtendsDatabase'
  BY <1>1, <1>2, <1>3, <1>5 DEF WorkExtendsDatabase
<1>7. ReferentialIntegrity' /\ AuditTrail'
  BY <1>1, <1>4 DEF Sound, ReferentialIntegrity, AuditTrail, Known
<1> QED
  BY <1>6, <1>7 DEF Sound

\* Statements on their own find no transaction open.
LEMMA ReleasedWhenWriting ==
  ASSUME IInv, Sound
  PROVE  DatabaseSound /\ \A f \in FieldIds : fields[f] = NoField => choices[f] = {}
BY DEF Sound, ReferentialIntegrity, AuditTrail, DatabaseSound

\* Every action keeps the database and the open transaction sound.
LEMMA SoundStep ==
  ASSUME IInv, Sound, Next
  PROVE  Sound'
<1>0. /\ TypeOK /\ CatalogOK /\ StoreOK /\ ConnectionOwner /\ NoCaller \notin Callers
      /\ db \in Tables /\ work \in Tables /\ db' \in Tables
  BY AbsentAssumption, StoreStep DEF IInv, TypeOK, StoreOK
<1>a. DatabaseSound /\ \A f \in FieldIds : fields[f] = NoField => choices[f] = {}
  BY ReleasedWhenWriting
<1>1. ASSUME UNCHANGED <<fields, choices, lists, db, conn, work>>, tx'.touched = tx.touched
      PROVE  Sound'
  BY <1>1 DEF Sound, ReferentialIntegrity, AuditTrail, WorkExtendsDatabase, Known
<1>2. ASSUME UNCHANGED <<fields, choices, lists>>, conn' = NoCaller,
             RowsAreAnchored(db', Known(fields), lists), TrailExplains(db')
      PROVE  Sound'
  BY <1>2, <1>a DEF Sound, ReferentialIntegrity, AuditTrail, WorkExtendsDatabase, Known
<1>3. ASSUME NEW c \in Callers,
             \/ LoadFields(c) \/ LoadChoices(c) \/ CheckList(c) \/ AllocateField(c) \/ CheckField(c)
             \/ \E r \in Requests : Call(c, r)
      PROVE  Sound'
  BY <1>1, <1>3 DEF LoadFields, LoadChoices, CheckList, AllocateField, CheckField, Call, catalogVars, txVars
<1>4. ASSUME NEW c \in Callers, Abandon(c)
      PROVE  Sound'
  BY <1>1, <1>2, <1>4, <1>a DEF Abandon, GiveUp, Release, catalogVars, txVars, DatabaseSound
<1>5. ASSUME NEW c \in Callers, Begin(c)
      PROVE  Sound'
  <2>1. UNCHANGED <<fields, choices, lists, db>> /\ work' = db /\ tx'.touched = {}
    BY <1>5 DEF Begin, catalogVars, NoTx
  <2> QED
    BY <1>a, <2>1 DEF Sound, ReferentialIntegrity, AuditTrail, WorkExtendsDatabase, DatabaseSound, Known
<1>6. ASSUME NEW c \in Callers, RefuseRow(c)
      PROVE  Sound'
  <2>1. tx'.touched = tx.touched
    BY <1>0, <1>6 DEF RefuseRow, StoreOK, Transaction
  <2> QED
    BY <1>1, <1>6, <2>1 DEF RefuseRow, catalogVars
<1>7. ASSUME NEW c \in Callers, WriteRow(c) \/ SeedRow(c)
      PROVE  Sound'
  BY <1>7, WriteKeepsSound
<1>8. ASSUME NEW c \in Callers, RollBack(c)
      PROVE  Sound'
  BY <1>2, <1>8, <1>a DEF RollBack, Release, catalogVars, DatabaseSound
<1>9. ASSUME NEW c \in Callers, Commit(c)
      PROVE  Sound'
  <2>1. conn = c /\ c # NoCaller
    BY <1>0, <1>9 DEF Commit, ConnectionOwner
  <2>2. RowsAreAnchored(work, Known(fields), lists) /\ TrailExplains(work) /\ tx.touched \subseteq work.live
    BY <2>1 DEF Sound, ReferentialIntegrity, AuditTrail, WorkExtendsDatabase
  <2>3. RowsAreAnchored(db', Known(fields), lists) /\ TrailExplains(db')
    BY <1>0, <1>9, <2>2, AnchoredAddToList, TrailAddToList DEF Commit, Joins
  <2> QED
    BY <1>2, <1>9, <2>3 DEF Commit, Release, catalogVars
<1>10. ASSUME NEW c \in Callers, DeleteMatching(c)
       PROVE  Sound'
  BY <1>0, <1>2, <1>10, <1>a, AnchoredDelete, TrailDelete DEF DeleteMatching, catalogVars, txVars, DatabaseSound
<1>11. ASSUME NEW c \in Callers, SetField(c)
       PROVE  Sound'
  <2>1. req[c] \in SetFieldRequest
    BY <1>0, <1>11, CurrentRequest, RequestShape DEF SetField, At, Steps
  <2> DEFINE new == [f \in {req[c].field} |-> req[c].value]
  <2>2. new \in FieldValues /\ DOMAIN new = {req[c].field} /\ req[c].field \in FieldIds
    BY <2>1, OneFieldValue DEF SetFieldRequest
  <2>3. \/ db' = db
        \/ /\ req[c].contact \in db.live /\ fields[req[c].field] # NoField
           /\ db' = ApplyContactValues(db, req[c].contact, new)
    BY <1>11 DEF SetField
  <2> HIDE DEF new
  <2>4. RowsAreAnchored(db', Known(fields), lists) /\ TrailExplains(db')
    BY <1>0, <1>a, <2>2, <2>3, AnchoredApply, TrailApply DEF DatabaseSound, Known
  <2> QED
    BY <1>2, <1>11, <2>4 DEF SetField, catalogVars, txVars
<1>12. ASSUME NEW c \in Callers, InsertField(c)
       PROVE  Sound'
  <2>1. req[c].def # NoField
    BY <1>0, <1>12, CurrentRequest, RequestShape, AbsentAssumption
       DEF InsertField, Writing, At, Steps, NewFieldRequest
  <2>2. conn' = NoCaller /\ Known(fields) \subseteq Known(fields') /\ UNCHANGED <<choices, lists, db>>
    BY <1>0, <1>12, <2>1 DEF InsertField, Writing, txVars, Known, CatalogOK
  <2>3. \A f \in FieldIds : fields'[f] = NoField => choices'[f] = {}
    BY <1>a, <2>2 DEF Known
  <2> QED
    BY <1>a, <2>2, <2>3 DEF Sound, ReferentialIntegrity, AuditTrail, WorkExtendsDatabase, DatabaseSound, RowsAreAnchored
<1>13. ASSUME NEW c \in Callers, UpsertField(c)
       PROVE  Sound'
  <2>1. req[c].def # NoField
    BY <1>0, <1>13, CurrentRequest, RequestShape, AbsentAssumption
       DEF UpsertField, Writing, At, Steps, SeedFieldRequest
  <2>2. conn' = NoCaller /\ Known(fields) \subseteq Known(fields') /\ UNCHANGED <<choices, lists, db>>
    BY <1>0, <1>13, <2>1 DEF UpsertField, Writing, txVars, Known, CatalogOK
  <2>3. \A f \in FieldIds : fields'[f] = NoField => choices'[f] = {}
    BY <1>a, <2>2 DEF Known
  <2> QED
    BY <1>a, <2>2, <2>3 DEF Sound, ReferentialIntegrity, AuditTrail, WorkExtendsDatabase, DatabaseSound, RowsAreAnchored
<1>14. ASSUME NEW c \in Callers, AddChoice(c)
       PROVE  Sound'
  <2>1. conn' = NoCaller /\ UNCHANGED <<fields, lists, db>>
    BY <1>14 DEF AddChoice, Writing, txVars
  <2>2. \A f \in FieldIds : fields'[f] = NoField => choices'[f] = {}
    BY <1>0, <1>14, <1>a DEF AddChoice, CatalogOK
  <2> QED
    BY <1>a, <2>1, <2>2 DEF Sound, ReferentialIntegrity, AuditTrail, WorkExtendsDatabase, DatabaseSound, Known
<1>15. ASSUME NEW c \in Callers, DropField(c)
       PROVE  Sound'
  <2> DEFINE f == req[c].field
  <2>1. f \in FieldIds
    BY <1>0, <1>15, CurrentRequest, RequestShape DEF DropField, Writing, At, Steps, DropFieldRequest
  <2>2. /\ conn' = NoCaller /\ lists' = lists /\ db' = DropFieldValues(db, f)
        /\ fields' = [fields EXCEPT ![f] = NoField] /\ choices' = [choices EXCEPT ![f] = {}]
    BY <1>15 DEF DropField, Writing, txVars
  <2> HIDE DEF f
  <2>3. Known(fields') = Known(fields) \ {f}
    BY <1>0, <2>1, <2>2 DEF Known, CatalogOK
  <2>4. RowsAreAnchored(db', Known(fields'), lists) /\ TrailExplains(db')
    <3>1. RowsAreAnchored(db', Known(fields) \ {f}, lists)
      BY <1>0, <1>a, <2>1, <2>2, AnchoredDropField DEF DatabaseSound
    <3>2. TrailExplains(db')
      BY <1>0, <1>a, <2>2, TrailDropField DEF DatabaseSound
    <3> QED
      BY <2>3, <3>1, <3>2, Zenon
  <2>5. \A g \in FieldIds : fields'[g] = NoField => choices'[g] = {}
    BY <1>0, <1>a, <2>1, <2>2 DEF CatalogOK
  <2> QED
    BY <2>2, <2>4, <2>5 DEF Sound, ReferentialIntegrity, AuditTrail, WorkExtendsDatabase
<1>16. ASSUME NEW c \in Callers, DropList(c)
       PROVE  Sound'
  <2>1. /\ conn' = NoCaller /\ UNCHANGED <<fields, choices>> /\ lists' = lists \ {req[c].list}
        /\ db' = DropListMembers(db, req[c].list)
    BY <1>16 DEF DropList, Writing, txVars
  <2>2. RowsAreAnchored(db', Known(fields), lists') /\ TrailExplains(db')
    BY <1>0, <1>a, <2>1, AnchoredDropList, TrailDropList DEF DatabaseSound
  <2> QED
    BY <1>a, <2>1, <2>2 DEF Sound, ReferentialIntegrity, AuditTrail, WorkExtendsDatabase, Known
<1>17. ASSUME Finished
       PROVE  Sound'
  BY <1>1, <1>17 DEF Finished, vars
<1> QED
  BY <1>3, <1>4, <1>5, <1>6, <1>7, <1>8, <1>9, <1>10, <1>11, <1>12, <1>13, <1>14, <1>15, <1>16, <1>17
     DEF Next, Serve

\* The seeded database is sound.
LEMMA SoundInit == Init => Sound
<1> SUFFICES ASSUME Init PROVE Sound
  OBVIOUS
<1>1. \A f \in FieldIds : fields[f] = NoField => choices[f] = {}
  BY SeedAssumption, AbsentAssumption DEF Init
<1>2. conn = NoCaller /\ db = NoContacts
  BY DEF Init
<1> QED
  BY <1>1, <1>2, SoundWithoutWork, AnchoredNoContacts, TrailNoContacts DEF DatabaseSound

\* Integrity, the change log and what an open transaction has kept of the
\* database are an inductive invariant, relative to the types.
THEOREM SoundIsInvariant == Spec => []Sound
<1>1. IInv /\ Sound /\ [Next]_vars => Sound'
  <2>1. IInv /\ Sound /\ Next => Sound'
    BY SoundStep
  <2>2. Sound /\ UNCHANGED vars => Sound'
    BY DEF Sound, ReferentialIntegrity, AuditTrail, WorkExtendsDatabase, Known, vars
  <2> QED
    BY <2>1, <2>2
<1> QED
  BY <1>1, SoundInit, IInvIsInvariant, PTL DEF Spec

\* No interleaving of batches, seeds, edits, deletions and catalogue changes
\* leaves a value, a change, a membership or a choice without what it refers to.
THEOREM Integrity == Spec => []ReferentialIntegrity
BY SoundIsInvariant, PTL DEF Sound

\* The change log that ApplyContactValues writes explains every stored value,
\* whatever deletions and re-creations happen in between.
THEOREM LogExplainsData == Spec => []AuditTrail
BY SoundIsInvariant, PTL DEF Sound

-----------------------------------------------------------------------------
\* The only step that answers "ok" from inside a transaction is its Commit.
LEMMA OnlyCommitCommits ==
  ASSUME IInv, Next, NEW c \in Callers, Commits(c)
  PROVE  Commit(c)
<1>1. At(c, "rows") /\ pc'[c] = "ok" /\ conn = c /\ c # NoCaller /\ pc \in [Callers -> Resting \cup Steps]
  BY AbsentAssumption DEF Commits, IInv, ConnectionOwner, At, TypeOK, CallsOK
<1>2. ASSUME NEW d \in Callers, NEW step, d # c \/ step # "ok", GoTo(d, step)
      PROVE  FALSE
  BY <1>1, <1>2 DEF GoTo, At
<1>3. ASSUME NEW d \in Callers, d # c
      PROVE  /\ ~LoadFields(d) /\ ~LoadChoices(d) /\ ~CheckList(d) /\ ~Begin(d) /\ ~RollBack(d) /\ ~Commit(d)
             /\ ~DeleteMatching(d) /\ ~SetField(d) /\ ~AllocateField(d) /\ ~InsertField(d) /\ ~CheckField(d)
             /\ ~DropField(d) /\ ~UpsertField(d) /\ ~AddChoice(d) /\ ~DropList(d) /\ ~Abandon(d)
             /\ \A r \in Requests : ~Call(d, r)
  BY <1>1, <1>2, <1>3 DEF LoadFields, LoadChoices, CheckList, Begin, RollBack, Commit, DeleteMatching, SetField,
     AllocateField, InsertField, CheckField, DropField, UpsertField, AddChoice, DropList, Abandon, Call, GoTo, At
<1>4. /\ ~LoadFields(c) /\ ~LoadChoices(c) /\ ~CheckList(c) /\ ~Begin(c) /\ ~RollBack(c)
      /\ ~DeleteMatching(c) /\ ~SetField(c) /\ ~AllocateField(c) /\ ~InsertField(c) /\ ~CheckField(c)
      /\ ~DropField(c) /\ ~UpsertField(c) /\ ~AddChoice(c) /\ ~DropList(c) /\ ~Abandon(c)
      /\ \A r \in Requests : ~Call(c, r)
  BY <1>1 DEF LoadFields, LoadChoices, CheckList, Begin, RollBack, DeleteMatching, SetField,
     AllocateField, InsertField, CheckField, DropField, UpsertField, AddChoice, DropList, Abandon, Call,
     GoTo, At, Writing, Resting
<1>5. \A d \in Callers : ~RefuseRow(d) /\ ~WriteRow(d) /\ ~SeedRow(d)
  BY <1>1 DEF RefuseRow, WriteRow, SeedRow, At
<1>6. ~Finished
  BY <1>1 DEF Finished, vars, At
<1> QED
  BY <1>3, <1>4, <1>5, <1>6 DEF Next, Serve

\* A batch or a seed changes no contact but those it touched and removes none:
\* no write of a concurrent request is lost to a transaction.
THEOREM NoLostWrites == Spec => OnlyTouchedContactsChange
<1>1. ASSUME IInv, Sound, [Next]_vars, NEW c \in Callers, Commits(c)
      PROVE  /\ db.live \subseteq db'.live
             /\ \A x \in ContactIds \ tx.touched : db'.vals[x] = db.vals[x]
             /\ \A m \in db'.members \ db.members : m[2] \in tx.touched
             /\ db.hist \subseteq db'.hist /\ db.members \subseteq db'.members
  <2>1. Next
    BY <1>1 DEF Commits, At, vars
  <2>2. Commit(c)
    BY <1>1, <2>1, OnlyCommitCommits
  <2>3. conn # NoCaller /\ work \in Tables
    BY <1>1, AbsentAssumption DEF Commits, IInv, ConnectionOwner, TypeOK, StoreOK
  <2>4. /\ db.live \subseteq work.live /\ db.hist \subseteq work.hist /\ work.members = db.members
        /\ \A x \in ContactIds \ tx.touched : work.vals[x] = db.vals[x]
    BY <1>1, <2>3 DEF Sound, WorkExtendsDatabase
  <2>5. /\ db'.live = work.live /\ db'.hist = work.hist /\ db'.vals = work.vals
        /\ work.members \subseteq db'.members
        /\ \A m \in db'.members \ work.members : m[2] \in tx.touched
    <3>1. CASE db' = work
      BY <3>1
    <3>2. CASE db' = AddContactsToList(work, req[c].list, tx.touched)
      BY <2>3, <3>2 DEF AddContactsToList, Tables
    <3> QED
      BY <2>2, <3>1, <3>2 DEF Commit
  <2> QED
    BY <2>4, <2>5
<1>2. IInv /\ Sound /\ [Next]_vars =>
        [\A c \in Callers : Commits(c) =>
           /\ db.live \subseteq db'.live
           /\ \A x \in ContactIds \ tx.touched : db'.vals[x] = db.vals[x]
           /\ \A m \in db'.members \ db.members : m[2] \in tx.touched
           /\ db.hist \subseteq db'.hist /\ db.members \subseteq db'.members]_vars
  BY <1>1
<1> QED
  BY <1>2, IInvIsInvariant, SoundIsInvariant, PTL DEF Spec, OnlyTouchedContactsChange

-----------------------------------------------------------------------------
(* What a transaction whose key is a field has stored so far               *)

\* A row that is answered without an error is in one contact, which its key
\* value alone finds.
RowIsKept(c, i) ==
  LET row == req[c].rows[i]
      kv == KeyValue(row, req[c].key)
  IN  \/ tx.errors[kv] # "none"
      \/ /\ kv # NoKey /\ kv \in tx.seen
         /\ \E x \in tx.touched :
              /\ FindContactIDs(work, req[c].key, kv) = {x}
              /\ \A f \in DOMAIN row.vals : work.vals[x][f] = row.vals[f]

InKeyed(c) == At(c, "rows") /\ req[c].key # ById

RowsAreKept ==
  \A c \in Callers : InKeyed(c) /\ req[c].op = "batch" =>
    \A i \in DOMAIN req[c].rows : i < tx.at => RowIsKept(c, i)

\* The transaction finds what the database has, or one contact.
KeysStaySingle ==
  \A c \in Callers : InKeyed(c) =>
    \A v \in Values :
      \/ FindContactIDs(work, req[c].key, v) = FindContactIDs(db, req[c].key, v)
      \/ \E x \in ContactIds : FindContactIDs(work, req[c].key, v) = {x}

-----------------------------------------------------------------------------
\* A row that has a key value for a field has it among its values.
LEMMA KeyedRow ==
  ASSUME NEW row \in Row, NEW key \in Keys, key # ById, KeyValue(row, key) # NoKey
  PROVE  /\ key \in DOMAIN row.vals /\ row.vals[key] = KeyValue(row, key)
         /\ KeyValue(row, key) \in Values
<1>1. row.vals \in FieldValues
  BY DEF Row
<1>2. key \in DOMAIN row.vals /\ row.vals[key] # Empty /\ KeyValue(row, key) = row.vals[key]
  BY DEF KeyValue
<1> QED
  BY <1>1, <1>2, FieldValuesShape DEF Texts

\* Two members make a set of more than one.
LEMMA OnlyMember ==
  ASSUME NEW S, IsFiniteSet(S), ~(Cardinality(S) > 1), NEW x \in S
  PROVE  S = {x}
<1> SUFFICES ASSUME NEW y \in S, y # x PROVE FALSE
  OBVIOUS
<1>1. IsFiniteSet({x}) /\ Cardinality({x}) = 1
  BY FS_Singleton
<1>2. Cardinality({x} \cup {y}) = 2
  <2> DEFINE T == {x}
  <2>1. IsFiniteSet(T) /\ Cardinality(T) = 1 /\ y \notin T
    BY <1>1
  <2> HIDE DEF T
  <2>2. Cardinality(T \cup {y}) = Cardinality(T) + 1
    BY <2>1, FS_AddElement
  <2> QED
    BY <2>1, <2>2 DEF T
<1>3. Cardinality({x} \cup {y}) <= Cardinality(S)
  BY FS_Subset
<1>4. Cardinality(S) \in Nat
  BY FS_CardinalityType
<1> QED
  BY <1>2, <1>3, <1>4

\* A lookup finds finitely many contacts.
LEMMA FoundIsFinite ==
  ASSUME NEW t \in Tables, NEW key, NEW v
  PROVE  IsFiniteSet(FindContactIDs(t, key, v))
<1>1. FindContactIDs(t, key, v) \subseteq ContactIds
  BY DEF FindContactIDs, Tables
<1>2. IsFiniteSet(ContactIds)
  BY FS_Interval, BoundsAssumption DEF ContactIds
<1> QED
  BY <1>1, <1>2, FS_Subset

\* A batch only writes a row that has a key value no earlier row had, and that
\* at most one contact has.
LEMMA AcceptedRow ==
  ASSUME IInv, NEW c \in Callers, RowsLeft(c), Accepted(c)
  PROVE  /\ KeyOf(c) # NoKey /\ KeyOf(c) \notin tx.seen
         /\ \A x \in Found(c) : Found(c) = {x}
<1>1. \A code \in {"2005", "2006", "2010"} : ~Refused(c, code)
  BY DEF Accepted, Codes
<1>2. KeyOf(c) # NoKey /\ KeyOf(c) \notin tx.seen
  BY <1>1 DEF Refused
<1>3. ~(Cardinality(Found(c)) > 1)
  BY <1>1, <1>2 DEF Refused
<1>4. IsFiniteSet(Found(c))
  BY FoundIsFinite DEF Found, IInv, TypeOK, StoreOK
<1> QED
  BY <1>2, <1>3, <1>4, OnlyMember

\* What a row that is written leaves to be found.
LEMMA WrittenKey ==
  ASSUME IInv, Sound, NEW c \in Callers, InKeyed(c), WriteRow(c) \/ SeedRow(c)
  PROVE  /\ tx'.at = tx.at + 1 /\ tx'.errors = tx.errors
         /\ req[c].op = "batch" => tx'.seen = tx.seen \cup {KeyOf(c)} /\ KeyOf(c) # NoKey /\ KeyOf(c) \notin tx.seen
         /\ \A v : v # KeyOf(c) => FindContactIDs(work', req[c].key, v) = FindContactIDs(work, req[c].key, v)
         /\ \E x \in ContactIds :
              /\ tx'.touched = tx.touched \cup {x}
              /\ \A f \in DOMAIN RowOf(c).vals : work'.vals[x][f] = RowOf(c).vals[f]
              /\ \A y \in ContactIds \ {x} : work'.vals[y] = work.vals[y]
              /\ \A v : v # KeyOf(c) => x \notin FindContactIDs(work, req[c].key, v)
              /\ \/ FindContactIDs(work', req[c].key, KeyOf(c)) = FindContactIDs(work, req[c].key, KeyOf(c))
                 \/ FindContactIDs(work', req[c].key, KeyOf(c)) = {x}
              /\ req[c].op = "batch" => FindContactIDs(work', req[c].key, KeyOf(c)) = {x}
<1> DEFINE new == RowOf(c).vals
           key == req[c].key
           kv == KeyOf(c)
<1>1. RowsLeft(c) /\ (req[c].op = "batch" => Accepted(c)) /\ kv # NoKey
  <2>1. RowsLeft(c) /\ (req[c].op = "batch" => Accepted(c)) /\ (req[c].op # "batch" => kv # NoKey)
    BY DEF WriteRow, SeedRow
  <2> QED
    BY <2>1, AcceptedRow
<1>2. /\ conn = c /\ c # NoCaller /\ work \in Tables /\ work.next \in ContactIds /\ new \in FieldValues
  BY WriteEffect
<1>3. key \in Keys /\ RowOf(c) \in Row
  BY <1>1, CurrentRow DEF IInv, RowsLeft
<1>4. key \in DOMAIN new /\ new[key] = kv /\ key \in FieldIds /\ key # ById
  BY <1>1, <1>2, <1>3, KeyedRow, FieldValuesShape DEF InKeyed, KeyOf
<1>5. \A x \in work.live : x # work.next
  <2>1. \A x \in work.live : x < work.next
    BY <1>2 DEF Sound, ReferentialIntegrity, RowsAreAnchored
  <2>2. work.live \subseteq Nat /\ work.next \in Nat
    BY <1>2 DEF Tables, ContactIds
  <2> QED
    BY <2>1, <2>2
<1>6. PICK x \in ContactIds, seen \in {tx.seen, tx.seen \cup {kv}} :
        /\ NextRow(x, seen) /\ (req[c].op = "batch" => seen = tx.seen \cup {kv})
        /\ \/ x \in Found(c) /\ work' = ApplyContactValues(work, x, new)
           \/ x = work.next /\ Found(c) = {} /\ work' = CreateContact(work, new)
  <2>1. Found(c) \subseteq ContactIds
    BY <1>2 DEF Found, FindContactIDs, Tables
  <2> QED
    BY <1>2, <2>1 DEF WriteRow, SeedRow
<1>7. tx'.at = tx.at + 1 /\ tx'.errors = tx.errors /\ tx'.seen = seen /\ tx'.touched = tx.touched \cup {x}
  BY <1>6 DEF NextRow, IInv, TypeOK, StoreOK, Transaction
<1>8. Found(c) = {y \in work.live : work.vals[y][key] = kv}
  BY <1>4 DEF Found, FindContactIDs
<1>9. \A v : FindContactIDs(work, key, v) = {y \in work.live : work.vals[y][key] = v}
  BY <1>4 DEF FindContactIDs
<1> HIDE DEF new, key, kv
<1>10. /\ \A f \in DOMAIN new : work'.vals[x][f] = new[f]
       /\ \A y \in ContactIds \ {x} : work'.vals[y] = work.vals[y]
       /\ \A v : v # kv => /\ x \notin FindContactIDs(work, key, v)
                           /\ FindContactIDs(work', key, v) = FindContactIDs(work, key, v)
       /\ \/ x \in Found(c) /\ FindContactIDs(work', key, kv) = FindContactIDs(work, key, kv)
          \/ Found(c) = {} /\ FindContactIDs(work', key, kv) = {x}
  <2>1. CASE x \in Found(c) /\ work' = ApplyContactValues(work, x, new)
    <3>1. x \in work.live /\ work.vals[x][key] = new[key]
      BY <1>4, <1>8, <2>1
    <3>2. \A v : FindContactIDs(work', key, v) = FindContactIDs(work, key, v)
      BY <1>2, <1>4, <2>1, <3>1, FindAfterApply
    <3>3. /\ \A f \in DOMAIN new : work'.vals[x][f] = new[f]
          /\ \A y \in ContactIds \ {x} : work'.vals[y] = work.vals[y]
      BY <1>2, <2>1, ApplyStores, ApplyEffect
    <3> QED
      BY <1>4, <1>9, <2>1, <3>1, <3>2, <3>3
  <2>2. CASE x = work.next /\ Found(c) = {} /\ work' = CreateContact(work, new)
    <3> DEFINE s == [work EXCEPT !.live = work.live \cup {work.next}, !.next = work.next + 1]
    <3>1. s \in Tables /\ s.vals = work.vals
      BY <1>2, CreateEffect
    <3>2. work' = ApplyContactValues(s, x, new)
      BY <2>2 DEF CreateContact
    <3> HIDE DEF s
    <3>3. /\ \A f \in DOMAIN new : work'.vals[x][f] = new[f]
          /\ \A y \in ContactIds \ {x} : work'.vals[y] = work.vals[y]
      BY <1>2, <3>1, <3>2, ApplyStores, ApplyEffect
    <3>4. /\ FindContactIDs(work', key, kv) = FindContactIDs(work, key, kv) \cup {x}
          /\ \A v : v # kv => FindContactIDs(work', key, v) = FindContactIDs(work, key, v)
      BY <1>2, <1>4, <1>5, <2>2, FindAfterCreate
    <3>5. FindContactIDs(work, key, kv) = {}
      BY <1>8, <1>9, <2>2
    <3>6. \A v : x \notin FindContactIDs(work, key, v)
      BY <1>5, <1>9, <2>2
    <3> QED
      BY <2>2, <3>3, <3>4, <3>5, <3>6
  <2> QED
    BY <1>6, <2>1, <2>2
<1>11. ASSUME req[c].op = "batch"
       PROVE  /\ seen = tx.seen \cup {kv} /\ kv \notin tx.seen
              /\ FindContactIDs(work', key, kv) = {x}
  <2>1. kv \notin tx.seen /\ \A y \in Found(c) : Found(c) = {y}
    BY <1>1, <1>11, AcceptedRow DEF kv
  <2>2. Found(c) = FindContactIDs(work, key, kv)
    BY <1>8, <1>9
  <2> QED
    BY <1>6, <1>10, <1>11, <2>1, <2>2
<1> QED
  BY <1>1, <1>7, <1>10, <1>11 DEF new, key, kv

\* A request that is in its transaction after a step was there before and saw
\* nothing change, or has begun, refused or written a row of its own.
LEMMA TransactionStep ==
  ASSUME IInv, [Next]_vars, NEW c \in Callers, At(c, "rows")'
  PROVE  \/ At(c, "rows") /\ req'[c] = req[c] /\ UNCHANGED <<db, work, tx>>
         \/ Begin(c)
         \/ At(c, "rows") /\ req'[c] = req[c] /\ UNCHANGED db /\ (RefuseRow(c) \/ WriteRow(c) \/ SeedRow(c))
<1>1. pc \in [Callers -> Resting \cup Steps] /\ ConnectionOwner /\ NoCaller \notin Callers
  BY AbsentAssumption DEF IInv, TypeOK, CallsOK
<1>2. conn' = c
  <2>1. CASE UNCHANGED vars
    BY <1>1, <2>1 DEF vars, ConnectionOwner, At
  <2>2. CASE Next
    BY <2>2, OwnerAndRoomStep DEF ConnectionOwner
  <2> QED
    BY <2>1, <2>2
<1>3. ASSUME UNCHANGED <<db, txVars, callVars>>
      PROVE  At(c, "rows") /\ req'[c] = req[c] /\ UNCHANGED <<db, work, tx>>
  BY <1>1, <1>2, <1>3 DEF txVars, callVars, ConnectionOwner
<1>4. CASE UNCHANGED vars
  BY <1>3, <1>4 DEF vars, txVars, callVars
<1>5. ASSUME NEW d \in Callers, NEW r \in Requests, Call(d, r)
      PROVE  At(c, "rows") /\ req'[c] = req[c] /\ UNCHANGED <<db, work, tx>>
  <2>1. At(c, "rows") /\ UNCHANGED <<db, work, tx>>
    BY <1>1, <1>2, <1>5 DEF Call, txVars, ConnectionOwner
  <2>2. d # c
    BY <1>5, <2>1 DEF Call, At, Resting
  <2> QED
    BY <1>5, <2>1, <2>2 DEF Call, IInv, TypeOK, CallsOK
<1>6. ASSUME NEW d \in Callers, Abandon(d)
      PROVE  At(c, "rows") /\ req'[c] = req[c] /\ UNCHANGED <<db, work, tx>>
  BY <1>1, <1>2, <1>3, <1>6 DEF Abandon, GiveUp, Release
<1>7. ASSUME NEW d \in Callers,
             \/ LoadFields(d) \/ LoadChoices(d) \/ CheckList(d) \/ AllocateField(d)
             \/ InsertField(d) \/ CheckField(d) \/ UpsertField(d) \/ AddChoice(d)
      PROVE  At(c, "rows") /\ req'[c] = req[c] /\ UNCHANGED <<db, work, tx>>
  BY <1>3, <1>7 DEF LoadFields, LoadChoices, CheckList, AllocateField, InsertField, CheckField, UpsertField, AddChoice
<1>8. ASSUME NEW d \in Callers, DeleteMatching(d) \/ SetField(d) \/ DropField(d) \/ DropList(d)
      PROVE  FALSE
  BY <1>1, <1>2, <1>8 DEF DeleteMatching, SetField, DropField, DropList, Writing, txVars
<1>9. ASSUME NEW d \in Callers, RollBack(d) \/ Commit(d)
      PROVE  FALSE
  BY <1>1, <1>2, <1>9 DEF RollBack, Commit, Release
<1>10. ASSUME NEW d \in Callers, Begin(d)
       PROVE  Begin(c)
  BY <1>2, <1>10 DEF Begin
<1>11. ASSUME NEW d \in Callers, RefuseRow(d) \/ WriteRow(d) \/ SeedRow(d)
       PROVE  At(c, "rows") /\ req'[c] = req[c] /\ UNCHANGED db /\ (RefuseRow(c) \/ WriteRow(c) \/ SeedRow(c))
  <2>1. conn = c /\ At(d, "rows") /\ UNCHANGED <<db, req>>
    BY <1>2, <1>11 DEF RefuseRow, WriteRow, SeedRow, RowsLeft, callVars
  <2>2. d = c
    BY <1>1, <2>1 DEF ConnectionOwner
  <2> QED
    BY <1>11, <2>1, <2>2
<1>12. ASSUME Finished
       PROVE  At(c, "rows") /\ req'[c] = req[c] /\ UNCHANGED <<db, work, tx>>
  BY <1>3, <1>12 DEF Finished, vars, txVars, callVars
<1> QED
  BY <1>4, <1>5, <1>6, <1>7, <1>8, <1>9, <1>10, <1>11, <1>12 DEF Next, Serve

\* A row that is answered without an error stays so, and stays stored.
LEMMA KeptStep ==
  ASSUME IInv, Sound, RowsAreKept, [Next]_vars
  PROVE  RowsAreKept'
<1> SUFFICES ASSUME NEW c \in Callers, At(c, "rows")', req'[c].key # ById, req'[c].op = "batch",
                    NEW i \in DOMAIN req'[c].rows, i < tx'.at
             PROVE  RowIsKept(c, i)'
  BY DEF RowsAreKept, InKeyed
<1>1. CASE At(c, "rows") /\ req'[c] = req[c] /\ UNCHANGED <<db, work, tx>>
  <2>1. RowIsKept(c, i)
    BY <1>1 DEF RowsAreKept, InKeyed
  <2> QED
    BY <1>1, <2>1 DEF RowIsKept
<1>2. CASE Begin(c)
  <2>1. req' = req /\ tx'.at = 1
    BY <1>2 DEF Begin, NoTx, callVars
  <2>2. req[c] \in BatchRequest
    BY <1>2, <2>1, CurrentRequest, RequestShape DEF Begin, At, Steps, IInv
  <2>3. req[c].rows \in Seq(Row)
    BY <2>2 DEF BatchRequest
  <2>4. i \in 1..Len(req[c].rows)
    BY <2>1, <2>3
  <2> QED
    BY <2>1, <2>3, <2>4
<1>3. ASSUME At(c, "rows"), req'[c] = req[c], RefuseRow(c) \/ WriteRow(c) \/ SeedRow(c)
      PROVE  RowIsKept(c, i)'
  <2> DEFINE kv(j) == KeyValue(req[c].rows[j], req[c].key)
  <2>1. /\ req[c].rows \in Seq(Row) /\ req[c].key \in Keys /\ InKeyed(c) /\ req[c].op = "batch"
        /\ i \in 1..Len(req[c].rows) /\ tx \in Transaction
    <3>1. req[c].rows \in Seq(Row) /\ req[c].key \in Keys
      BY <1>3, CurrentRow DEF IInv
    <3> QED
      BY <1>3, <3>1 DEF InKeyed, IInv, TypeOK, StoreOK
  <2>2. req[c].rows[i] \in Row /\ kv(i) \in KeyValues
    BY <2>1, KeyValueIsKeyValue
  <2>3. RowOf(c) = req[c].rows[tx.at] /\ KeyOf(c) = kv(tx.at) /\ tx.at \in Nat /\ tx'.at = tx.at + 1
    <3>1. tx'.at = tx.at + 1
      BY <1>3, <2>1, WrittenKey DEF RefuseRow, Transaction
    <3> QED
      BY <2>1, <3>1 DEF RowOf, KeyOf, Transaction
  <2>4. i < tx.at \/ i = tx.at
    BY <2>1, <2>3
  <2>5. i < tx.at => RowIsKept(c, i)
    BY <2>1 DEF RowsAreKept
  <2>6. CASE RefuseRow(c)
    <3>1. PICK code \in Codes : tx' = [tx EXCEPT !.at = tx.at + 1,
                                                 !.seen = tx.seen \cup ({KeyOf(c)} \ {NoKey}),
                                                 !.errors[KeyOf(c)] = code]
      BY <2>6 DEF RefuseRow
    <3>2. /\ tx'.errors = [tx.errors EXCEPT ![KeyOf(c)] = code] /\ work' = work /\ tx'.touched = tx.touched
          /\ tx.seen \subseteq tx'.seen /\ code # "none"
      BY <2>1, <2>6, <3>1 DEF RefuseRow, Transaction, Codes
    <3>3. CASE kv(i) = KeyOf(c)
      <4>1. tx'.errors[kv(i)] # "none"
        BY <2>1, <2>2, <3>2, <3>3 DEF Transaction
      <4> QED
        BY <1>3, <4>1 DEF RowIsKept
    <3>4. CASE kv(i) # KeyOf(c)
      <4>1. RowIsKept(c, i)
        BY <2>3, <2>4, <2>5, <3>4
      <4>2. tx'.errors[kv(i)] = tx.errors[kv(i)]
        BY <2>1, <2>2, <3>2, <3>4 DEF Transaction
      <4> QED
        BY <1>3, <3>2, <4>1, <4>2 DEF RowIsKept
    <3> QED
      BY <3>3, <3>4
  <2>7. CASE WriteRow(c) \/ SeedRow(c)
    <3>1. /\ tx'.errors = tx.errors /\ tx'.seen = tx.seen \cup {KeyOf(c)}
          /\ KeyOf(c) # NoKey /\ KeyOf(c) \notin tx.seen
          /\ \A v : v # KeyOf(c) => FindContactIDs(work', req[c].key, v) = FindContactIDs(work, req[c].key, v)
      BY <2>1, <2>7, WrittenKey
    <3>2. PICK x \in ContactIds :
            /\ tx'.touched = tx.touched \cup {x}
            /\ \A f \in DOMAIN RowOf(c).vals : work'.vals[x][f] = RowOf(c).vals[f]
            /\ \A y \in ContactIds \ {x} : work'.vals[y] = work.vals[y]
            /\ \A v : v # KeyOf(c) => x \notin FindContactIDs(work, req[c].key, v)
            /\ FindContactIDs(work', req[c].key, KeyOf(c)) = {x}
      BY <2>1, <2>7, WrittenKey
    <3>3. CASE i = tx.at
      BY <1>3, <2>3, <3>1, <3>2, <3>3 DEF RowIsKept
    <3>4. CASE i < tx.at
      <4>1. CASE tx.errors[kv(i)] # "none"
        BY <1>3, <3>1, <4>1 DEF RowIsKept
      <4>2. CASE tx.errors[kv(i)] = "none"
        <5>1. /\ kv(i) # NoKey /\ kv(i) \in tx.seen
              /\ \E y \in tx.touched :
                   /\ FindContactIDs(work, req[c].key, kv(i)) = {y}
                   /\ \A f \in DOMAIN req[c].rows[i].vals : work.vals[y][f] = req[c].rows[i].vals[f]
          BY <2>5, <3>4, <4>2 DEF RowIsKept
        <5>2. PICK y \in tx.touched :
                /\ FindContactIDs(work, req[c].key, kv(i)) = {y}
                /\ \A f \in DOMAIN req[c].rows[i].vals : work.vals[y][f] = req[c].rows[i].vals[f]
          BY <5>1
        <5>3. kv(i) # KeyOf(c)
          BY <3>1, <5>1
        <5>4. y # x /\ y \in ContactIds
          BY <2>1, <3>2, <5>2, <5>3 DEF Transaction
        <5>5. work'.vals[y] = work.vals[y] /\ FindContactIDs(work', req[c].key, kv(i)) = {y}
          BY <3>1, <3>2, <5>2, <5>3, <5>4
        <5>6. y \in tx'.touched /\ kv(i) \in tx'.seen
          BY <3>1, <3>2, <5>1
        <5> QED
          BY <1>3, <5>1, <5>2, <5>5, <5>6 DEF RowIsKept
      <4> QED
        BY <4>1, <4>2
    <3> QED
      BY <2>4, <3>3, <3>4
  <2> QED
    BY <1>3, <2>6, <2>7
<1> QED
  BY <1>1, <1>2, <1>3, TransactionStep

\* No row makes a value of the key field more ambiguous than the database has it.
LEMMA SingleStep ==
  ASSUME IInv, Sound, KeysStaySingle, [Next]_vars
  PROVE  KeysStaySingle'
<1> SUFFICES ASSUME NEW c \in Callers, At(c, "rows")', req'[c].key # ById, NEW v \in Values
             PROVE  \/ FindContactIDs(work', req'[c].key, v) = FindContactIDs(db', req'[c].key, v)
                    \/ \E x \in ContactIds : FindContactIDs(work', req'[c].key, v) = {x}
  BY DEF KeysStaySingle, InKeyed
<1>1. ASSUME At(c, "rows"), req'[c] = req[c]
      PROVE  \/ FindContactIDs(work, req[c].key, v) = FindContactIDs(db, req[c].key, v)
             \/ \E x \in ContactIds : FindContactIDs(work, req[c].key, v) = {x}
  BY <1>1 DEF KeysStaySingle, InKeyed
<1>2. CASE At(c, "rows") /\ req'[c] = req[c] /\ UNCHANGED <<db, work>>
  BY <1>1, <1>2
<1>3. CASE Begin(c)
  BY <1>3 DEF Begin
<1>4. CASE RefuseRow(c)
  BY <1>4, <1>2 DEF RefuseRow, RowsLeft, callVars
<1>5. CASE At(c, "rows") /\ req'[c] = req[c] /\ UNCHANGED db /\ (WriteRow(c) \/ SeedRow(c))
  <2>1. InKeyed(c)
    BY <1>5 DEF InKeyed
  <2>2. \/ FindContactIDs(work', req[c].key, v) = FindContactIDs(work, req[c].key, v)
        \/ \E x \in ContactIds : FindContactIDs(work', req[c].key, v) = {x}
    BY <1>5, <2>1, WrittenKey
  <2> QED
    BY <1>1, <1>5, <2>2
<1> QED
  BY <1>2, <1>3, <1>4, <1>5, TransactionStep

\* What the key fields find, in the open transaction and for its rows, is an
\* inductive invariant, relative to the types and to soundness.
THEOREM KeptIsInvariant == Spec => [](RowsAreKept /\ KeysStaySingle)
<1>1. Init => RowsAreKept /\ KeysStaySingle
  BY DEF Init, RowsAreKept, KeysStaySingle, InKeyed, At
<1>2. IInv /\ Sound /\ RowsAreKept /\ KeysStaySingle /\ [Next]_vars => (RowsAreKept /\ KeysStaySingle)'
  BY KeptStep, SingleStep
<1> QED
  BY <1>1, <1>2, IInvIsInvariant, SoundIsInvariant, PTL DEF Spec

\* A commit makes what the transaction finds what everybody finds, on the list
\* it was asked for.
LEMMA CommitPublishes ==
  ASSUME IInv, [Next]_vars, NEW c \in Callers, Commits(c)
  PROVE  /\ ~RowsLeft(c) /\ db'.vals = work.vals
         /\ \A key, v : FindContactIDs(db', key, v) = FindContactIDs(work, key, v)
         /\ Joins(c) => \A x \in tx.touched : <<req[c].list, x>> \in db'.members
<1>1. Commit(c) /\ work \in Tables
  <2>1. Next
    BY DEF Commits, At, vars
  <2> QED
    BY <2>1, OnlyCommitCommits DEF IInv, TypeOK, StoreOK
<1>2. db' = IF Joins(c) THEN AddContactsToList(work, req[c].list, tx.touched) ELSE work
  BY <1>1 DEF Commit
<1>3. db'.live = work.live /\ db'.vals = work.vals
      /\ (Joins(c) => db'.members = work.members \cup {<<req[c].list, x>> : x \in tx.touched})
  BY <1>1, <1>2 DEF AddContactsToList, Tables
<1> QED
  BY <1>1, <1>3 DEF Commit, FindContactIDs

\* A batch keyed by a field that answers without an error for a row has stored
\* the whole row, in one contact that the row's key value alone finds, and on
\* the list the batch named, whatever ran beside it.
THEOREM AnsweredRowsAreStored == Spec => CleanRowsAreStored
<1>1. ASSUME IInv, RowsAreKept, [Next]_vars, NEW c \in Callers, Commits(c),
             req[c].op = "batch", req[c].key # ById, NEW i \in DOMAIN req[c].rows,
             tx.errors[KeyValue(req[c].rows[i], req[c].key)] = "none"
      PROVE  RowStored(c, req[c].rows[i])
  <2> DEFINE row == req[c].rows[i]
             kv == KeyValue(row, req[c].key)
  <2>1. /\ db'.vals = work.vals /\ FindContactIDs(db', req[c].key, kv) = FindContactIDs(work, req[c].key, kv)
        /\ Joins(c) => \A x \in tx.touched : <<req[c].list, x>> \in db'.members
    BY <1>1, CommitPublishes
  <2>2. i < tx.at
    <3>1. At(c, "rows") /\ ~RowsLeft(c)
      BY <1>1, CommitPublishes DEF Commits
    <3>2. req[c].rows \in Seq(Row) /\ tx.at \in Nat
      BY <1>1, <3>1, CurrentRow DEF IInv, TypeOK, StoreOK, Transaction
    <3>3. i \in 1..Len(req[c].rows) /\ ~(tx.at <= Len(req[c].rows))
      BY <3>1, <3>2 DEF RowsLeft
    <3> QED
      BY <3>2, <3>3
  <2>3. RowIsKept(c, i)
    BY <1>1, <2>2 DEF RowsAreKept, InKeyed, Commits
  <2>4. PICK x \in tx.touched :
          /\ FindContactIDs(work, req[c].key, kv) = {x}
          /\ \A f \in DOMAIN row.vals : work.vals[x][f] = row.vals[f]
    BY <1>1, <2>3 DEF RowIsKept
  <2>5. req[c].list # NoList => <<req[c].list, x>> \in db'.members
    BY <1>1, <2>1, <2>4 DEF Joins
  <2> QED
    BY <2>1, <2>4, <2>5 DEF RowStored
<1>2. IInv /\ RowsAreKept /\ [Next]_vars =>
        [\A c \in Callers : Commits(c) /\ req[c].op = "batch" /\ req[c].key # ById =>
           \A i \in DOMAIN req[c].rows :
             tx.errors[KeyValue(req[c].rows[i], req[c].key)] = "none" => RowStored(c, req[c].rows[i])]_vars
  BY <1>1
<1> QED
  BY <1>2, IInvIsInvariant, KeptIsInvariant, PTL DEF Spec, CleanRowsAreStored

\* Key fields have no unique constraint: what keeps their values apart is that
\* every batch and every seed looks before it writes, in its own transaction.
THEOREM KeysAreNotMultiplied == Spec => KeysStayUnique
<1>1. ASSUME IInv, KeysStaySingle, [Next]_vars, NEW c \in Callers, Commits(c), req[c].key # ById, NEW v \in Values
      PROVE  \/ Holders(db', req[c].key, v) <= Holders(db, req[c].key, v)
             \/ Holders(db', req[c].key, v) = 1
  <2>1. \A t : Holders(t, req[c].key, v) = Cardinality(FindContactIDs(t, req[c].key, v))
    BY <1>1 DEF Holders, FindContactIDs
  <2>2. FindContactIDs(db', req[c].key, v) = FindContactIDs(work, req[c].key, v)
    BY <1>1, CommitPublishes
  <2>3. CASE FindContactIDs(work, req[c].key, v) = FindContactIDs(db, req[c].key, v)
    <3>1. Holders(db, req[c].key, v) \in Nat
      BY <1>1, <2>1, FoundIsFinite, FS_CardinalityType DEF IInv, TypeOK, StoreOK
    <3>2. Holders(db', req[c].key, v) = Holders(db, req[c].key, v)
      BY <2>1, <2>2, <2>3
    <3> QED
      BY <3>1, <3>2
  <2>4. ASSUME NEW x \in ContactIds, FindContactIDs(work, req[c].key, v) = {x}
        PROVE  Holders(db', req[c].key, v) = 1
    BY <2>1, <2>2, <2>4, FS_Singleton
  <2> QED
    BY <1>1, <2>3, <2>4 DEF KeysStaySingle, InKeyed, Commits
<1>2. IInv /\ KeysStaySingle /\ [Next]_vars =>
        [\A c \in Callers : Commits(c) /\ req[c].key # ById =>
           \A v \in Values : Holders(db', req[c].key, v) <= Holders(db, req[c].key, v)
                             \/ Holders(db', req[c].key, v) = 1]_vars
  BY <1>1
<1> QED
  BY <1>2, IInvIsInvariant, KeptIsInvariant, PTL DEF Spec, KeysStayUnique
=============================================================================
