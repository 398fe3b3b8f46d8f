-------------------------- MODULE ContactReads_proofs --------------------------
(***************************************************************************)
(* What ContactReads promises its readers, for every kind of read, any     *)
(* writers and every bound.                                                *)
(***************************************************************************)
EXTENDS ContactReads, FiniteSetTheorems, WellFoundedInduction, TLAPS

-----------------------------------------------------------------------------
(* Numbers and finite sets *)

\* Every set of naturals that is not empty has a least member.
LEMMA LeastNumber ==
  ASSUME NEW T \in SUBSET Nat, T # {}
  PROVE  \E x \in T : \A y \in T : x <= y
<1> DEFINE R == {q \in Nat \X Nat : q[1] < q[2]}
<1>1. IsWellFoundedOn(R, Nat)
  BY NatLessThanWellFounded DEF OpToRel
<1>2. \A m, n \in Nat : n < m => <<n, m>> \in R
  OBVIOUS
<1> HIDE DEF R
<1>3. PICK x \in T : \A y \in T : <<y, x>> \notin R
  BY <1>1, WFMin
<1>4. \A y \in T : y \in Nat /\ x \in Nat /\ ~(y < x)
  BY <1>2, <1>3
<1> QED
  BY <1>3, <1>4

\* One that is bounded has a greatest.
LEMMA GreatestNumber ==
  ASSUME NEW n \in Nat, NEW T \in SUBSET Nat, T # {}, \A y \in T : y <= n
  PROVE  \E x \in T : \A y \in T : y <= x
<1> DEFINE U == {k \in Nat : \A y \in T : y <= k}
<1>1. n \in U
  OBVIOUS
<1>2. PICK u \in U : \A k \in U : u <= k
  BY <1>1, LeastNumber
<1>3. u \in T
  <2>1. SUFFICES ASSUME u \notin T PROVE FALSE
    OBVIOUS
  <2>2. u \in Nat /\ \A y \in T : y \in Nat /\ y <= u /\ y # u
    BY <2>1
  <2>3. PICK y \in T : TRUE
    OBVIOUS
  <2>4. u - 1 \in Nat /\ u - 1 < u
    BY <2>2, <2>3
  <2>5. \A z \in T : z <= u - 1
    BY <2>2
  <2> QED
    BY <1>2, <2>4, <2>5
<1> QED
  BY <1>3

\* The least member that Least picks is one.
LEMMA LeastIsLeast ==
  ASSUME NEW T \in SUBSET Nat, T # {}
  PROVE  Least(T) \in T /\ \A y \in T : Least(T) <= y
BY LeastNumber DEF Least

\* What a finite set is mapped to is finite.
LEMMA ImageIsFinite ==
  ASSUME NEW S, IsFiniteSet(S), NEW f, DOMAIN f = S, f = [x \in S |-> f[x]]
  PROVE  IsFiniteSet({f[x] : x \in S})
<1> DEFINE T == {f[x] : x \in S}
<1>1. f \in Surjection(S, T)
  BY DEF Surjection
<1> QED
  BY <1>1, FS_Surjection

\* A set of one has its only member for the least.
LEMMA LeastOfOne ==
  ASSUME NEW S, IsFiniteSet(S), Cardinality(S) = 1, S \subseteq Nat
  PROVE  S = {Least(S)}
<1>1. PICK x : S = {x}
  BY FS_Singleton
<1>2. Least(S) \in S
  BY <1>1, LeastIsLeast
<1> QED
  BY <1>1, <1>2

\* There are finitely many fields and contacts.
LEMMA IdsAreFinite == IsFiniteSet(FieldIds) /\ IsFiniteSet(ContactIds)
<1>1. 1 \in Int /\ MaxField \in Int /\ MaxContact \in Int
  BY BoundsAssumption
<1> QED
  BY <1>1, FS_Interval DEF FieldIds, ContactIds

-----------------------------------------------------------------------------
(* What a reader relies on in every database that is committed *)

\* Values, changes and members belong to contacts that are there, and every
\* value was logged.
Sane(t) ==
  /\ IsFiniteSet(t.hist)
  /\ \A x \in ContactIds, f \in FieldIds : t.vals[x][f] # NoValue =>
       x \in t.live /\ \E h \in t.hist : h.contact = x /\ h.field = f /\ h.new = t.vals[x][f]
  /\ \A h \in t.hist : h.contact \in t.live /\ h.stamp < t.stamp
  /\ \A m \in t.members : m[2] \in t.live
  /\ \A x \in t.live : x < t.next

\* Ids are not given out again, and a contact that is still there keeps its log.
Follows(t, u) ==
  /\ t.next <= u.next
  /\ \A x \in u.live : x < t.next => x \in t.live
  /\ \A h \in t.hist : h.contact \in u.live => h \in u.hist

\* A commit that keeps the tables as readers rely on.
Goes(t, u) == u \in Tables /\ Sane(u) /\ Follows(t, u)

\* What stands beside the values of the tables differs from them.
LEMMA TextFacts ==
  /\ NoValue \notin Texts /\ Texts \subseteq Stored /\ NoValue \in Stored
  /\ \A new \in FieldValues : DOMAIN new \subseteq FieldIds /\ \A f \in DOMAIN new : new[f] \in Texts
BY SentinelAssumption DEF Texts, Stored, FieldValues

\* The start is a database that writers have left.
LEMMA StartIsSane == Start \in Tables /\ Sane(Start)
BY ReadBoundsAssumption DEF Sane, RowsAreAnchored, TrailExplains, Changes, Tables

\* Values written to a contact come with their log.
LEMMA GoesApply ==
  ASSUME NEW t \in Tables, Sane(t), NEW x \in t.live, NEW new \in FieldValues
  PROVE  Goes(t, ApplyContactValues(t, x, new))
<1> DEFINE changed == Changed(t, x, new)
           entry == [f \in changed |-> [stamp |-> t.stamp, contact |-> x, field |-> f,
                                        old |-> t.vals[x][f], new |-> new[f]]]
           entries == {entry[f] : f \in changed}
           row == [f \in FieldIds |-> IF f \in changed THEN new[f] ELSE t.vals[x][f]]
           vals == [t.vals EXCEPT ![x] = row]
           u == ApplyContactValues(t, x, new)
<1>1. /\ changed \subseteq FieldIds /\ \A f \in changed : new[f] \in Texts
      /\ x \in ContactIds /\ t.stamp \in Nat /\ t.next \in Nat
  BY TextFacts DEF Changed, Tables
<1>2. entries = {[stamp |-> t.stamp, contact |-> x, field |-> f,
                  old |-> t.vals[x][f], new |-> new[f]] : f \in changed}
  OBVIOUS
<1>3. entries \in SUBSET Change /\ \A f \in changed : entry[f] \in entries
  BY <1>1, TextFacts DEF Change, Tables
<1>4. \A h \in entries : h.contact = x /\ h.stamp = t.stamp
  OBVIOUS
<1>5. \A f \in changed : entry[f].contact = x /\ entry[f].field = f /\ entry[f].new = new[f]
  OBVIOUS
<1>6. row \in [FieldIds -> Stored] /\ vals \in [ContactIds -> [FieldIds -> Stored]]
  BY <1>1, TextFacts DEF Tables
<1>7. \A f \in FieldIds : row[f] = IF f \in changed THEN new[f] ELSE t.vals[x][f]
  OBVIOUS
<1>8. IsFiniteSet(entries)
  <2>1. IsFiniteSet(changed)
    <3> HIDE DEF changed
    <3> QED
      BY <1>1, IdsAreFinite, FS_Subset
  <2>2. DOMAIN entry = changed /\ entry = [f \in changed |-> entry[f]]
    OBVIOUS
  <2> HIDE DEF entry, changed
  <2> QED
    BY <2>1, <2>2, ImageIsFinite
<1>9. u = [t EXCEPT !.vals[x] = row, !.hist = t.hist \cup entries, !.stamp = t.stamp + 1]
  BY <1>2 DEF ApplyContactValues
<1> HIDE DEF changed, entry, entries, row, u
<1>10. /\ u \in Tables /\ u.live = t.live /\ u.next = t.next /\ u.members = t.members
       /\ u.vals = vals /\ u.hist = t.hist \cup entries /\ u.stamp = t.stamp + 1
  <2>1. u = [t EXCEPT !.vals = vals, !.hist = t.hist \cup entries, !.stamp = t.stamp + 1]
    BY <1>9
  <2>2. t.hist \cup entries \in SUBSET Change /\ t.stamp + 1 \in Nat
    BY <1>1, <1>3 DEF Tables
  <2> HIDE DEF vals
  <2> QED
    BY <1>6, <2>1, <2>2 DEF Tables
<1>11. /\ \A y \in ContactIds \ {x} : u.vals[y] = t.vals[y]
       /\ u.vals[x] = row
  BY <1>1, <1>10 DEF Tables
<1>12. Sane(u)
  <2>1. IsFiniteSet(u.hist)
    <3>1. IsFiniteSet(t.hist)
      BY DEF Sane
    <3>2. IsFiniteSet(t.hist \cup entries)
      BY <1>8, <3>1, FS_Union
    <3> QED
      BY <1>10, <3>2
  <2>2. ASSUME NEW y \in ContactIds, NEW f \in FieldIds, u.vals[y][f] # NoValue
        PROVE  y \in u.live /\ \E h \in u.hist : h.contact = y /\ h.field = f /\ h.new = u.vals[y][f]
    <3>1. CASE y = x /\ f \in changed
      <4>1. entry[f] \in u.hist /\ u.vals[y][f] = new[f]
        BY <1>3, <1>7, <1>10, <1>11, <3>1
      <4> QED
        BY <1>5, <1>10, <3>1, <4>1
    <3>2. CASE ~(y = x /\ f \in changed)
      <4>1. u.vals[y][f] = t.vals[y][f]
        BY <1>7, <1>11, <3>2
      <4> QED
        BY <1>10, <2>2, <4>1 DEF Sane
    <3> QED
      BY <3>1, <3>2
  <2>3. \A h \in u.hist : h.contact \in u.live /\ h.stamp < u.stamp
    <3>1. \A h \in t.hist : h.stamp \in Nat /\ h.stamp < t.stamp
      BY DEF Sane, Tables, Change
    <3> QED
      BY <1>1, <1>4, <1>10, <3>1 DEF Sane
  <2> QED
    BY <1>10, <2>1, <2>2, <2>3 DEF Sane
<1>13. Follows(t, u)
  BY <1>1, <1>10 DEF Follows
<1> QED
  BY <1>10, <1>12, <1>13 DEF Goes, u

\* Tables are followed by what follows those that follow them.
LEMMA FollowsOn ==
  ASSUME NEW t \in Tables, NEW u \in Tables, NEW w \in Tables,
         Sane(t), Sane(w), Follows(t, u), Follows(u, w)
  PROVE  Follows(t, w)
<1>1. t.next \in Nat /\ u.next \in Nat /\ w.next \in Nat
  BY DEF Tables
<1>2. w.live \subseteq Nat /\ \A h \in t.hist : h.contact \in t.live /\ h.contact < t.next /\ h.contact \in Nat
  BY DEF Tables, Sane, ContactIds
<1>3. ASSUME NEW h \in t.hist, h.contact \in w.live PROVE h \in w.hist
  BY <1>1, <1>2, <1>3 DEF Follows
<1>4. \A x \in w.live : x < t.next => x \in t.live
  BY <1>1, <1>2 DEF Follows
<1> QED
  BY <1>1, <1>3, <1>4 DEF Follows

\* A contact is created under an id that none ever had.
LEMMA GoesCreate ==
  ASSUME NEW t \in Tables, Sane(t), t.next <= MaxContact, NEW new \in FieldValues
  PROVE  Goes(t, CreateContact(t, new))
<1> DEFINE u == [t EXCEPT !.live = t.live \cup {t.next}, !.next = t.next + 1]
<1>1. /\ t.next \in ContactIds /\ t.next \in Nat
      /\ t.live \cup {t.next} \in SUBSET ContactIds /\ t.next + 1 \in Nat \ {0}
  BY BoundsAssumption DEF Tables, ContactIds
<1>2. /\ u \in Tables /\ u.live = t.live \cup {t.next} /\ u.next = t.next + 1
      /\ u.vals = t.vals /\ u.hist = t.hist /\ u.stamp = t.stamp /\ u.members = t.members
  BY <1>1 DEF Tables
<1> HIDE DEF u
<1>3. \A x \in t.live : x \in Nat /\ x < t.next + 1
  BY <1>1 DEF Sane, Tables, ContactIds
<1>4. Sane(u) /\ Follows(t, u)
  BY <1>1, <1>2, <1>3 DEF Sane, Follows
<1>5. Goes(u, ApplyContactValues(u, t.next, new))
  BY <1>2, <1>4, GoesApply
<1>6. CreateContact(t, new) = ApplyContactValues(u, t.next, new)
  BY DEF CreateContact, u
<1> QED
  BY <1>2, <1>4, <1>5, <1>6, FollowsOn DEF Goes

\* A contact that is deleted takes what refers to it along.
LEMMA GoesDelete ==
  ASSUME NEW t \in Tables, Sane(t), NEW S
  PROVE  Goes(t, DeleteContacts(t, S))
<1> DEFINE u == DeleteContacts(t, S)
<1>1. /\ u.live = t.live \ S /\ u.next = t.next /\ u.stamp = t.stamp
      /\ u.vals = [x \in ContactIds |-> IF x \in S THEN [f \in FieldIds |-> NoValue] ELSE t.vals[x]]
      /\ u.hist = {h \in t.hist : h.contact \notin S} /\ u.members = {m \in t.members : m[2] \notin S}
  BY DEF DeleteContacts, Tables
<1>2. u \in Tables
  BY TextFacts DEF DeleteContacts, Tables
<1> HIDE DEF u
<1>3. \A x \in ContactIds, f \in FieldIds : u.vals[x][f] # NoValue => x \notin S /\ u.vals[x][f] = t.vals[x][f]
  BY <1>1
<1>4. IsFiniteSet(u.hist)
  BY <1>1, FS_Subset DEF Sane
<1>5. Sane(u)
  BY <1>1, <1>3, <1>4 DEF Sane
<1>6. Follows(t, u)
  BY <1>1 DEF Follows, Tables
<1> QED
  BY <1>2, <1>5, <1>6 DEF Goes, u

\* Contacts that are there can be put on a list.
LEMMA GoesList ==
  ASSUME NEW t \in Tables, Sane(t), NEW l \in Lists, NEW x \in t.live
  PROVE  Goes(t, AddContactsToList(t, l, {x}))
<1> DEFINE u == AddContactsToList(t, l, {x})
<1>1. /\ u.live = t.live /\ u.next = t.next /\ u.stamp = t.stamp /\ u.vals = t.vals /\ u.hist = t.hist
      /\ u.members = t.members \cup {<<l, x>>}
  BY DEF AddContactsToList, Tables
<1>2. u \in Tables
  BY DEF AddContactsToList, Tables
<1> HIDE DEF u
<1>3. Sane(u) /\ Follows(t, u)
  BY <1>1 DEF Sane, Follows, Tables
<1> QED
  BY <1>2, <1>3 DEF Goes, u

\* A field that is deleted takes its values along, but not their log.
LEMMA GoesDropField ==
  ASSUME NEW t \in Tables, Sane(t), NEW f
  PROVE  Goes(t, DropFieldValues(t, f))
<1> DEFINE u == DropFieldValues(t, f)
<1>1. /\ u.live = t.live /\ u.next = t.next /\ u.stamp = t.stamp /\ u.hist = t.hist /\ u.members = t.members
      /\ u.vals = [x \in ContactIds |-> [t.vals[x] EXCEPT ![f] = NoValue]]
  BY DEF DropFieldValues, Tables
<1>2. u \in Tables
  BY TextFacts DEF DropFieldValues, Tables
<1> HIDE DEF u
<1>3. \A x \in ContactIds, g \in FieldIds : u.vals[x][g] # NoValue => u.vals[x][g] = t.vals[x][g]
  BY <1>1 DEF Tables
<1>4. Sane(u) /\ Follows(t, u)
  BY <1>1, <1>3 DEF Sane, Follows, Tables
<1> QED
  BY <1>2, <1>4 DEF Goes, u

\* A list that is deleted takes its memberships along.
LEMMA GoesDropList ==
  ASSUME NEW t \in Tables, Sane(t), NEW l
  PROVE  Goes(t, DropListMembers(t, l))
<1> DEFINE u == DropListMembers(t, l)
<1>1. /\ u.live = t.live /\ u.next = t.next /\ u.stamp = t.stamp /\ u.hist = t.hist /\ u.vals = t.vals
      /\ u.members \subseteq t.members
  BY DEF DropListMembers, Tables
<1>2. u \in Tables
  BY DEF DropListMembers, Tables
<1> HIDE DEF u
<1>3. Sane(u) /\ Follows(t, u)
  BY <1>1 DEF Sane, Follows, Tables
<1> QED
  BY <1>2, <1>3 DEF Goes, u

-----------------------------------------------------------------------------
(* What was committed so far *)

\* Every database is as readers rely on, and goes on from the ones before it.
PastOK ==
  /\ \A i \in DOMAIN past : Sane(past[i].t)
  /\ \A i, j \in DOMAIN past : i <= j => Follows(past[i].t, past[j].t)

Moment == [fields: SUBSET FieldIds, lists: SUBSET Lists, t: Tables]

\* The types of the past alone.
PastTyped == past \in Seq(Moment) /\ began \in DOMAIN past

\* A commit adds to the past and changes nothing of it.
LEMMA Appended ==
  ASSUME NEW S, NEW s \in Seq(S), NEW e \in S, NEW u, u = Append(s, e)
  PROVE  /\ u \in Seq(S) /\ DOMAIN s = 1..Len(s) /\ DOMAIN u = 1..(Len(s) + 1) /\ Len(u) = Len(s) + 1
         /\ \A i \in 1..Len(s) : u[i] = s[i]
         /\ u[Len(s) + 1] = e /\ Len(s) \in Nat
OBVIOUS

\* The database is the last of the past, and the request began before it.
LEMMA Now ==
  ASSUME PastTyped
  PROVE  /\ DOMAIN past = 1..Len(past) /\ Len(past) \in Nat \ {0} /\ Len(past) \in During
         /\ began \in 1..Len(past) /\ During \subseteq DOMAIN past /\ Db \in Moment
         /\ \A i \in DOMAIN past : past[i] \in Moment
BY DEF PastTyped, During, Db

\* A writer leaves a database that goes on from the one it found.
LEMMA WriteCommits ==
  ASSUME PastTyped, PastOK, Write
  PROVE  /\ pc \notin {"ok", "failed"}
         /\ UNCHANGED <<pc, req, began, at, found, rows, shown, errors, log, file>>
         /\ \E e \in Moment : past' = Append(past, e) /\ Goes(Db.t, e.t)
<1> DEFINE t == Db.t
<1>1. t \in Tables /\ Db.fields \subseteq FieldIds /\ Db.lists \subseteq Lists /\ Sane(t)
  BY Now DEF Moment, PastOK, Db
<1>2. ASSUME NEW u, NEW fs \in SUBSET FieldIds, NEW ls \in SUBSET Lists, Commit(u, fs, ls), Goes(t, u)
      PROVE  /\ pc \notin {"ok", "failed"}
             /\ UNCHANGED <<pc, req, began, at, found, rows, shown, errors, log, file>>
             /\ \E e \in Moment : past' = Append(past, e) /\ Goes(Db.t, e.t)
  <2>1. [fields |-> fs, lists |-> ls, t |-> u] \in Moment
    BY <1>2 DEF Moment, Goes
  <2> QED
    BY <1>2, <2>1 DEF Commit, answerVars
<1>3. \A x \in t.live : DeleteContacts(t, {x}) \in Tables
  BY <1>1, GoesDelete DEF Goes
<1> HIDE DEF t
<1>4. CASE \E new \in Writings : t.next <= MaxContact /\ Commit(CreateContact(t, new), Db.fields, Db.lists)
  BY <1>1, <1>2, <1>4, GoesCreate, ReadBoundsAssumption
<1>5. CASE \E new \in Writings : \E x \in t.live : Commit(ApplyContactValues(t, x, new), Db.fields, Db.lists)
  BY <1>1, <1>2, <1>5, GoesApply, ReadBoundsAssumption
<1>6. CASE \E x \in t.live : Commit(DeleteContacts(t, {x}), Db.fields, Db.lists)
  BY <1>1, <1>2, <1>6, GoesDelete
<1>7. CASE \E x \in t.live : \E l \in Db.lists : Commit(AddContactsToList(t, l, {x}), Db.fields, Db.lists)
  BY <1>1, <1>2, <1>7, GoesList
<1>8. CASE \E f \in Db.fields : Commit(DropFieldValues(t, f), Db.fields \ {f}, Db.lists)
  BY <1>1, <1>2, <1>8, GoesDropField
<1>9. CASE \E l \in Db.lists : Commit(DropListMembers(t, l), Db.fields, Db.lists \ {l})
  BY <1>1, <1>2, <1>9, GoesDropList
<1> QED
  BY <1>4, <1>5, <1>6, <1>7, <1>8, <1>9 DEF Write, t

\* What was committed stays committed, and what is committed goes on from it.
LEMMA PastStep ==
  ASSUME PastTyped, PastOK, [Next]_vars
  PROVE  /\ PastTyped' /\ PastOK'
         /\ Len(past) <= Len(past') /\ \A i \in DOMAIN past : i \in DOMAIN past' /\ past'[i] = past[i]
         /\ pc # "idle" => req' = req /\ began' = began
<1> USE DEF Moment
<1>1. CASE Write
  <2>1. PICK e \in Moment : past' = Append(past, e) /\ Goes(Db.t, e.t)
    BY <1>1, WriteCommits
  <2>2. req' = req /\ began' = began
    BY <1>1, WriteCommits
  <2>3. /\ past' \in Seq(Moment) /\ DOMAIN past = 1..Len(past) /\ Len(past) \in Nat \ {0}
        /\ DOMAIN past' = 1..(Len(past) + 1) /\ Len(past') = Len(past) + 1
        /\ past'[Len(past) + 1] = e /\ \A i \in 1..Len(past) : past'[i] = past[i]
    BY <2>1, Appended, Now DEF PastTyped
  <2>4. \A i \in 1..Len(past) : past[i].t \in Tables /\ Sane(past[i].t) /\ Follows(past[i].t, past[Len(past)].t)
    BY Now, <2>3 DEF PastOK
  <2>5. e.t \in Tables /\ Sane(e.t) /\ Follows(past[Len(past)].t, e.t)
    BY <2>1 DEF Goes, Db
  <2>6. \A i \in 1..Len(past) : Follows(past[i].t, e.t)
    <3>1. past[Len(past)].t \in Tables
      BY <2>3, <2>4
    <3> QED
      BY <2>4, <2>5, <3>1, FollowsOn
  <2>7. Follows(e.t, e.t)
    BY <2>5 DEF Follows, Tables
  <2>8. \A i \in DOMAIN past' : i = Len(past) + 1 \/ i \in 1..Len(past)
    BY <2>3
  <2>9. PastOK'
    <3>1. \A i \in DOMAIN past' : Sane(past'[i].t)
      BY <2>3, <2>4, <2>5, <2>8
    <3>2. ASSUME NEW i \in DOMAIN past', NEW j \in DOMAIN past', i <= j
          PROVE  Follows(past'[i].t, past'[j].t)
      <4>1. CASE j \in 1..Len(past)
        <5>1. i \in 1..Len(past)
          BY <2>3, <3>2, <4>1
        <5> QED
          BY <2>3, <3>2, <4>1, <5>1 DEF PastOK
      <4>2. CASE j = Len(past) + 1
        BY <2>3, <2>6, <2>7, <2>8, <4>2
      <4> QED
        BY <2>8, <4>1, <4>2
    <3> QED
      BY <3>1, <3>2 DEF PastOK
  <2>10. PastTyped'
    BY <2>2, <2>3 DEF PastTyped
  <2> QED
    BY <2>2, <2>3, <2>9, <2>10
<1>2. CASE past' = past
  <2>1. Len(past) \in Nat /\ Len(past) \in DOMAIN past
    BY Now
  <2>2. began' \in DOMAIN past /\ (pc # "idle" => req' = req /\ began' = began)
    <3>1. CASE UNCHANGED vars
      BY <3>1 DEF vars, PastTyped
    <3>2. CASE Serve
      BY <3>2 DEF Serve, CheckList, LoadCatalog, FindKey, Answer, ReadLastChange, Select, LoadRows, LoadValues,
                  ReadLog, Fetch, PastTyped
    <3>3. CASE \E r \in Reads : Ask(r)
      BY <2>1, <3>3 DEF Ask, At
    <3>4. CASE Write
      BY <3>4, WriteCommits DEF PastTyped
    <3> QED
      BY <3>1, <3>2, <3>3, <3>4 DEF Next
  <2> QED
    BY <1>2, <2>1, <2>2 DEF PastTyped, PastOK
<1>3. Write \/ past' = past
  BY DEF Next, vars, Serve, CheckList, LoadCatalog, FindKey, Answer, ReadLastChange, Select, LoadRows, LoadValues,
         ReadLog, Fetch, Ask
<1> QED
  BY <1>1, <1>2, <1>3

\* The start is all the past there is at first.
LEMMA PastInit == Init => PastTyped /\ PastOK
<1> SUFFICES ASSUME Init PROVE PastTyped /\ PastOK
  OBVIOUS
<1> DEFINE e == [fields |-> FieldIds, lists |-> Lists, t |-> Start]
<1>1. e \in Moment /\ e.t = Start
  BY StartIsSane DEF Moment
<1>2. past = <<e>> /\ began = 1
  BY DEF Init
<1> HIDE DEF e
<1>3. PastTyped /\ DOMAIN past = {1} /\ past[1] = e
  BY <1>1, <1>2 DEF PastTyped
<1>4. Follows(Start, Start)
  BY StartIsSane DEF Follows, Tables
<1> QED
  BY <1>1, <1>3, <1>4, StartIsSane DEF PastOK

-----------------------------------------------------------------------------
(* What is asked *)

\* Each kind of request has its own parts.
LEMMA AskedShape ==
  ASSUME NEW r \in Reads
  PROVE  /\ Keyed(r) => r \in KeyedRead
         /\ r.op = "query" => r \in Query
         /\ r.op \in {"changes", "registrations"} => r \in Export
         /\ r.op = "contactlist" => r \in ListExport
         /\ r.op \in {"search", "page"} => r \in Search
         /\ ~Keyed(r) => r.op \in {"query", "changes", "registrations", "contactlist", "search", "page"}
<1>1. r \in Read
  BY ReadsAssumption
<1>2. CASE r \in KeyedRead
  BY <1>2 DEF KeyedRead, Keyed
<1>3. CASE r \in Query
  BY <1>3 DEF Query, Keyed
<1>4. CASE r \in Export
  BY <1>4 DEF Export, Keyed
<1>5. CASE r \in ListExport
  BY <1>5 DEF ListExport, Keyed
<1>6. CASE r \in Search
  BY <1>6 DEF Search, Keyed
<1> QED
  BY <1>1, <1>2, <1>3, <1>4, <1>5, <1>6 DEF Read

\* The parts that more than one kind of request has.
LEMMA AskedParts ==
  ASSUME NEW r \in Reads
  PROVE  /\ Keyed(r) => r.keys \in Seq(Values \cup ContactIds) /\ Len(r.keys) \in Nat
         /\ r.fields \subseteq FieldIds
         /\ r.op \in {"search", "page"} => r.fields = FieldIds
         /\ r.op \in Exports \cup {"query", "search", "page"} => ~Keyed(r)
<1>1. Keyed(r) \/ r.op \in {"query", "changes", "registrations", "contactlist", "search", "page"}
  BY AskedShape
<1> QED
  BY <1>1, AskedShape DEF KeyedRead, Query, Export, ListExport, Search, Keyed, Exports

\* Contacts are finitely many, so what is counted of them is a number.
LEMMA CountContacts ==
  ASSUME NEW S \in SUBSET ContactIds
  PROVE  IsFiniteSet(S) /\ Cardinality(S) \in Nat
BY IdsAreFinite, FS_Subset, FS_CardinalityType

\* A look-up without times gives each contact a number, too.
LEMMA UntimedIs ==
  ASSUME NEW S
  PROVE  DOMAIN Untimed(S) = S /\ \A x \in S : Untimed(S)[x] = 0
BY DEF Untimed

\* A look-up by what contacts are finds those that qualify, each with a number.
LEMMA SelectedIs ==
  ASSUME NEW t \in Tables, Sane(t), NEW r \in Reads, ~Keyed(r), NEW k
  PROVE  /\ DOMAIN Selected(t, r) \subseteq ContactIds
         /\ \A x \in DOMAIN Selected(t, r) : Selected(t, r)[x] \in Int
         /\ \A x \in ContactIds : x \in DOMAIN Selected(t, r) <=> Qualifies(r, t, x, k)
<1>1. t.live \subseteq ContactIds /\ ContactIds \subseteq Nat
  BY DEF Tables, ContactIds
<1>2. CASE r.op = "query"
  <2> DEFINE M == Matching(t, r)
             before(x) == {y \in t.live : y < x /\ t.vals[y][r.field] = r.value}
  <2>1. Selected(t, r) = QueryFinds(t, r)
    BY <1>2 DEF Selected
  <2>2. QueryFinds(t, r) = Untimed(Cut(M, r.offset, r.limit))
    BY DEF QueryFinds
  <2>3. r.limit \in Nat /\ r.offset \in Nat /\ r.nonempty \in BOOLEAN
    BY <1>2, AskedShape DEF Query
  <2>4. ASSUME NEW x \in M PROVE {y \in M : y < x} = before(x) /\ Cardinality(before(x)) \in Nat
    <3>1. before(x) \in SUBSET ContactIds
      BY <1>1
    <3>2. {y \in M : y < x} = before(x)
      BY <2>4 DEF Matching
    <3> HIDE DEF before, M
    <3> QED
      BY <3>1, <3>2, CountContacts
  <2>5. ASSUME NEW x \in ContactIds
        PROVE  Qualifies(r, t, x, k) <=>
                 x \in M /\ Cardinality(before(x)) >= r.offset /\ Cardinality(before(x)) < r.offset + r.limit
    BY <1>2, <2>3 DEF Qualifies, Matching
  <2>6. \A x \in ContactIds : x \in Cut(M, r.offset, r.limit) <=>
          x \in M /\ Cardinality({y \in M : y < x}) \in r.offset..(r.offset + r.limit - 1)
    BY DEF Cut
  <2>7. M \subseteq ContactIds /\ Cut(M, r.offset, r.limit) \subseteq ContactIds
    BY <1>1 DEF Cut, Matching
  <2> HIDE DEF M, before
  <2>8. ASSUME NEW x \in ContactIds PROVE x \in Cut(M, r.offset, r.limit) <=> Qualifies(r, t, x, k)
    <3>1. CASE x \in M
      <4>1. \A n \in Nat : n \in r.offset..(r.offset + r.limit - 1) <=> n >= r.offset /\ n < r.offset + r.limit
        BY <2>3
      <4> QED
        BY <2>4, <2>5, <2>6, <3>1, <4>1
    <3>2. CASE x \notin M
      BY <2>5, <2>6, <3>2
    <3> QED
      BY <3>1, <3>2
  <2> QED
    BY <2>1, <2>2, <2>7, <2>8, UntimedIs
<1>3. CASE r.op = "changes"
  <2> DEFINE changes == ChangesMade(t, r)
             changed == {h.contact : h \in changes}
             sel == [x \in changed |-> Least(Times(changes, x))]
  <2>1. Selected(t, r) = ChangesFind(t, r)
    BY <1>3 DEF Selected
  <2>2. ChangesFind(t, r) = sel
    BY DEF ChangesFind
  <2>3. \A h \in changes : h \in t.hist /\ h.contact \in ContactIds /\ h.stamp \in Nat
    BY DEF Tables, Change, ChangesMade
  <2>4. ASSUME NEW x \in changed PROVE sel[x] \in Int
    <3>1. Times(changes, x) \in SUBSET Nat /\ Times(changes, x) # {}
      BY <2>3, <2>4 DEF Times
    <3>2. Least(Times(changes, x)) \in Int
      BY <3>1, LeastIsLeast
    <3> QED
      BY <2>4, <3>2
  <2>5. \A x \in ContactIds : x \in changed <=> \E h \in changes : h.contact = x
    OBVIOUS
  <2>6. \A x \in ContactIds : x \in changed <=> Qualifies(r, t, x, k)
    BY <1>3, <2>5 DEF Qualifies, InWindow, Keyed, ChangesMade
  <2>7. DOMAIN sel = changed /\ changed \subseteq ContactIds
    BY <2>3
  <2> HIDE DEF changes, changed, sel
  <2> QED
    BY <2>1, <2>2, <2>4, <2>6, <2>7
<1>4. CASE r.op = "registrations"
  <2> DEFINE sel == [x \in {x \in t.live : InWindow(r, x)} |-> x]
  <2>1. Selected(t, r) = RegistrationsFind(t, r)
    BY <1>4 DEF Selected
  <2>2. RegistrationsFind(t, r) = sel
    BY DEF RegistrationsFind
  <2>3. \A x \in ContactIds : Qualifies(r, t, x, k) <=> x \in t.live /\ r.from <= x /\ x <= r.to
    BY <1>4 DEF Qualifies, Keyed
  <2>4. DOMAIN sel = {x \in t.live : InWindow(r, x)} /\ \A x \in DOMAIN sel : sel[x] = x
    OBVIOUS
  <2> HIDE DEF sel
  <2>5. \A x \in ContactIds : x \in DOMAIN sel <=> Qualifies(r, t, x, k)
    BY <2>3, <2>4 DEF InWindow
  <2>6. DOMAIN sel \subseteq ContactIds /\ \A x \in DOMAIN sel : x \in Int
    <3>1. \A x \in ContactIds : x \in Int
      BY DEF ContactIds
    <3>2. DOMAIN sel \subseteq t.live
      BY <2>4
    <3> QED
      BY <1>1, <3>1, <3>2
  <2> QED
    BY <2>1, <2>2, <2>4, <2>5, <2>6
<1>5. CASE r.op = "contactlist"
  <2> DEFINE S == {m[2] : m \in {m \in t.members : m[1] = r.list}}
  <2>1. Selected(t, r) = ListFinds(t, r)
    BY <1>5 DEF Selected
  <2>2. ListFinds(t, r) = Untimed(S)
    BY DEF ListFinds
  <2>3. \A m \in t.members : m = <<m[1], m[2]>> /\ m[2] \in ContactIds
    BY DEF Tables
  <2>4. \A x \in ContactIds : Qualifies(r, t, x, k) <=> <<r.list, x>> \in t.members
    BY <1>5 DEF Qualifies, Keyed
  <2>5. S \subseteq ContactIds /\ \A x \in ContactIds : x \in S <=> <<r.list, x>> \in t.members
    BY <2>3
  <2> HIDE DEF S
  <2>6. DOMAIN Selected(t, r) = S /\ \A x \in S : Selected(t, r)[x] = 0
    BY <2>1, <2>2, UntimedIs
  <2>7. \A x \in ContactIds : x \in S <=> Qualifies(r, t, x, k)
    BY <2>4, <2>5
  <2>8. S \subseteq ContactIds
    BY <2>5
  <2>9. 0 \in Int
    OBVIOUS
  <2> QED
    BY <2>6, <2>7, <2>8, <2>9
<1>6. CASE r.op \in {"search", "page"} /\ r.contact # {}
  <2>1. Selected(t, r) = IdFinds(t, r)
    BY <1>6 DEF Selected
  <2>2. IdFinds(t, r) = Untimed(t.live \cap r.contact)
    BY DEF IdFinds
  <2> QED
    BY <1>1, <1>6, <2>1, <2>2, UntimedIs DEF Qualifies, Keyed
<1>7. CASE r.op \in {"search", "page"} /\ r.contact = {}
  <2> DEFINE having == {x \in t.live : HasText(t, r, x)}
  <2>1. Selected(t, r) = TextFinds(t, r)
    BY <1>7 DEF Selected
  <2>2. TextFinds(t, r) = Untimed(Newest(having, r.limit))
    BY DEF TextFinds
  <2>3. \A x : {y \in having : y > x} = {y \in t.live : y > x /\ HasText(t, r, y)}
    OBVIOUS
  <2>4. \A x \in ContactIds : Qualifies(r, t, x, k) <=>
          x \in t.live /\ HasText(t, r, x) /\ Cardinality({y \in t.live : y > x /\ HasText(t, r, y)}) < r.limit
    BY <1>7 DEF Qualifies, Keyed, HasText
  <2>5. \A x : x \in Newest(having, r.limit) <=> x \in having /\ Cardinality({y \in having : y > x}) < r.limit
    BY DEF Newest
  <2>6. \A x : x \in having <=> x \in t.live /\ HasText(t, r, x)
    OBVIOUS
  <2>7. ASSUME NEW x \in ContactIds PROVE x \in Newest(having, r.limit) <=> Qualifies(r, t, x, k)
    BY <2>3, <2>4, <2>5, <2>6
  <2>8. Newest(having, r.limit) \subseteq ContactIds
    BY <1>1, <2>5, <2>6
  <2> HIDE DEF having
  <2> QED
    BY <2>1, <2>2, <2>7, <2>8, UntimedIs
<1> QED
  BY <1>2, <1>3, <1>4, <1>5, <1>6, <1>7, AskedShape

-----------------------------------------------------------------------------
(* Where a request is *)

\* What has been done, and what not yet, at each statement of a request.
Places ==
  /\ pc \in {"idle", "list", "catalog"} => at = 1 /\ errors = {}
  /\ pc \in {"idle", "list", "catalog", "failed"} => shown = {} /\ errors = {}
  /\ pc # "idle" => req \in Reads
  /\ pc \in {"find", "rows", "values"} /\ ~Keyed(req) => shown = {}
  /\ pc \notin {"file", "ok", "failed"} => file = [lines |-> 0, rows |-> {}]
  /\ pc = "list" => req.op = "contactlist"
  /\ pc \in {"rows", "values"} /\ Keyed(req) => req.op = "getdata"
  /\ pc \in {"rows", "values", "log"} /\ Keyed(req) => at <= Len(req.keys)
  /\ pc = "log" => req.op \in {"last_change", "page"}
  /\ pc = "file" => /\ req.op \in Exports /\ IsFiniteSet(shown)
                    /\ \A s \in shown : s.time \in Int /\ s.contact \in ContactIds
  /\ pc = "ok" /\ Keyed(req) => at \in Nat /\ at > Len(req.keys)
  /\ pc # "idle" /\ ~Keyed(req) => errors = {}

\* The types of all but the past, with those of the times found.
Shape ==
  /\ pc \in Resting \cup {"list", "catalog", "find", "rows", "values", "log", "file"}
  /\ req \in Reads \cup {NoRead}
  /\ pc \notin Resting /\ Keyed(req) => at \in 1..(Len(req.keys) + 1)
  /\ DOMAIN found \subseteq ContactIds /\ rows \subseteq ContactIds
  /\ \A x \in DOMAIN found : found[x] \in Int
  /\ pc = "values" => rows \subseteq DOMAIN found
  /\ log \subseteq Change
  /\ file.rows \subseteq shown /\ (pc = "file" => file.lines \in 0..FileLength)

\* All the types are those of the past and of the rest.
LEMMA TypeParts == PastTyped /\ Shape => TypeOK
BY DEF TypeOK, PastTyped, Shape, Moment

\* Each row that is shown has its place among the rows and the header.
LEMMA LineNumbers ==
  IsFiniteSet(shown) => /\ HeaderLines \in {0, 1} /\ Cardinality(shown) \in Nat
                        /\ \A s : LineOf(s) \in 0..(HeaderLines + Cardinality(shown))
<1> SUFFICES ASSUME IsFiniteSet(shown)
             PROVE  /\ HeaderLines \in {0, 1} /\ Cardinality(shown) \in Nat
                    /\ \A s : LineOf(s) \in 0..(HeaderLines + Cardinality(shown))
  OBVIOUS
<1>1. HeaderLines \in {0, 1} /\ Cardinality(shown) \in Nat
  BY FS_CardinalityType DEF HeaderLines
<1>2. ASSUME NEW s PROVE LineOf(s) \in 0..(HeaderLines + Cardinality(shown))
  <2> DEFINE before == {t \in shown : Earlier(t, s)}
  <2>1. LineOf(s) = HeaderLines + Cardinality(before) /\ before \subseteq shown
    BY DEF LineOf
  <2> HIDE DEF before
  <2>2. Cardinality(before) \in Nat /\ Cardinality(before) <= Cardinality(shown)
    BY <2>1, FS_Subset, FS_CardinalityType
  <2> QED
    BY <1>1, <2>1, <2>2
<1> QED
  BY <1>1, <1>2

\* The file ends with the last row that is not blank, or after it, and the
\* pages a client fetches do not go beyond.
LEMMA Lengths ==
  IsFiniteSet(shown) =>
    /\ FileLength \in Nat /\ \A s \in shown : ~IsBlank(s) => LineOf(s) < FileLength
    /\ \A n \in 0..FileLength :
         /\ LinesSliced(n, PageLines) \in 0..PageLines /\ n + LinesSliced(n, PageLines) \in 0..FileLength
         /\ LinesSliced(n, PageLines) < PageLines => n + PageLines > FileLength
<1> DEFINE most == HeaderLines + Cardinality(shown) + 1
           lengths == {n \in 1..most : \A s \in shown : ~IsBlank(s) => LineOf(s) < n}
<1> SUFFICES ASSUME IsFiniteSet(shown)
             PROVE  /\ FileLength \in Nat /\ \A s \in shown : ~IsBlank(s) => LineOf(s) < FileLength
                    /\ \A n \in 0..FileLength :
                         /\ LinesSliced(n, PageLines) \in 0..PageLines
                         /\ n + LinesSliced(n, PageLines) \in 0..FileLength
                         /\ LinesSliced(n, PageLines) < PageLines => n + PageLines > FileLength
  OBVIOUS
<1>1. most \in 1..most /\ \A s : LineOf(s) < most
  BY LineNumbers
<1>2. FileLength = Least(lengths)
  BY DEF FileLength
<1>3. lengths \subseteq Nat /\ most \in lengths
  BY <1>1
<1>4. FileLength \in lengths
  <2> HIDE DEF lengths
  <2> QED
    BY <1>2, <1>3, LeastIsLeast
<1>5. FileLength \in Nat /\ \A s \in shown : ~IsBlank(s) => LineOf(s) < FileLength
  BY <1>1, <1>4
<1> QED
  BY <1>5, PageAssumption DEF LinesSliced

\* A file does not change while its pages are fetched.
LEMMA LinesLast ==
  ASSUME UNCHANGED <<req, shown>>
  PROVE  FileLength' = FileLength /\ \A s : LineOf(s)' = LineOf(s) /\ (IsBlank(s)' <=> IsBlank(s))
<1>1. HeaderLines' = HeaderLines /\ \A s : LineOf(s)' = LineOf(s) /\ (IsBlank(s)' <=> IsBlank(s))
  BY DEF HeaderLines, LineOf, IsBlank, WithTimestamp
<1>2. {n \in 1..(HeaderLines + Cardinality(shown) + 1) : \A s \in shown : ~IsBlank(s) => LineOf(s) < n}'
      = {n \in 1..(HeaderLines + Cardinality(shown) + 1) : \A s \in shown : ~IsBlank(s) => LineOf(s) < n}
  BY <1>1
<1> QED
  BY <1>1, <1>2 DEF FileLength

\* What LoadContacts shows of the contacts S.
RowOf(x) == [contact |-> x, time |-> found[x],
             vals |-> IF x \in rows THEN Shown(Db.t, x, req.fields) ELSE Blank(req.fields)]
Kept == IF req.op \in {"search", "page"} THEN DOMAIN found ELSE rows
Valued == {RowOf(x) : x \in Kept}

\* The second statement of LoadContacts shows the contacts that the first kept.
LEMMA LoadValuesIs ==
  ASSUME LoadValues
  PROVE  /\ pc = "values" /\ UNCHANGED <<past, req, began, found, rows, errors, log, file>>
         /\ req.op = "getdata" =>
              at' = at + 1 /\ pc' = "find" /\ shown' = shown \cup {[key |-> KeyValue, row |-> v] : v \in Valued}
         /\ req.op # "getdata" =>
              /\ shown' = Valued /\ at' = at
              /\ pc' = IF req.op = "page" THEN "log" ELSE IF req.op \in Exports THEN "file" ELSE "ok"
<1>1. CASE req.op = "getdata"
  BY <1>1 DEF LoadValues, Valued, Kept, RowOf, At, GoTo, NextKey
<1>2. CASE req.op # "getdata"
  BY <1>2 DEF LoadValues, Valued, Kept, RowOf, At, GoTo, Exports
<1> QED
  BY <1>1, <1>2

\* The rows are one for each contact kept, and finitely many.
LEMMA ValuedIs ==
  ASSUME Shape
  PROVE  /\ IsFiniteSet(Valued)
         /\ \A x \in Kept : RowOf(x) \in Valued
         /\ \A s \in Valued : s.contact \in Kept /\ s = RowOf(s.contact)
         /\ Kept \subseteq ContactIds
         /\ pc = "values" => Kept \subseteq DOMAIN found /\ \A s \in Valued : s.time \in Int
         /\ \A x : /\ RowOf(x).contact = x /\ RowOf(x).time = found[x]
                   /\ RowOf(x).vals = IF x \in rows THEN Shown(Db.t, x, req.fields) ELSE Blank(req.fields)
<1>1. Kept \in SUBSET ContactIds
  BY DEF Kept, Shape
<1>2. \A x : /\ RowOf(x).contact = x /\ RowOf(x).time = found[x]
             /\ RowOf(x).vals = IF x \in rows THEN Shown(Db.t, x, req.fields) ELSE Blank(req.fields)
  BY DEF RowOf
<1>3. IsFiniteSet(Valued)
  <2> DEFINE f == [x \in Kept |-> RowOf(x)]
  <2>1. Valued = {f[x] : x \in Kept} /\ DOMAIN f = Kept /\ f = [x \in Kept |-> f[x]]
    BY DEF Valued
  <2>2. IsFiniteSet(Kept)
    BY <1>1, CountContacts
  <2> HIDE DEF f
  <2> QED
    BY <2>1, <2>2, ImageIsFinite
<1>4. \A s \in Valued : \E x \in Kept : s = RowOf(x)
  BY DEF Valued
<1>5. \A s \in Valued : s.contact \in Kept /\ s = RowOf(s.contact)
  BY <1>2, <1>4
<1>6. ASSUME pc = "values" PROVE Kept \subseteq DOMAIN found /\ \A s \in Valued : s.time \in Int
  <2>1. Kept \subseteq DOMAIN found /\ \A x \in DOMAIN found : found[x] \in Int
    BY <1>6 DEF Kept, Shape
  <2> QED
    BY <1>2, <1>5, <2>1
<1> QED
  BY <1>1, <1>2, <1>3, <1>5, <1>6 DEF Valued

\* What ReadLog shows are changes.
LEMMA StoredChanges ==
  ASSUME PastTyped
  PROVE  Db.t.hist \subseteq Change /\ Db.t.live \subseteq ContactIds /\ Db.t \in Tables
BY Now DEF Moment, Tables

\* What a look-up by a key finds is some of the contacts, finitely many.
LEMMA MatchesAre ==
  ASSUME PastTyped
  PROVE  /\ Matches \subseteq ContactIds /\ Matches \subseteq Nat /\ IsFiniteSet(Matches)
         /\ Cardinality(Matches) \in Nat /\ (Cardinality(Matches) = 0 <=> Matches = {})
<1>1. Matches \in SUBSET ContactIds
  BY StoredChanges DEF Matches, FindContactIDs
<1>2. IsFiniteSet(Matches) /\ Cardinality(Matches) \in Nat
  BY <1>1, CountContacts
<1>3. Cardinality(Matches) = 0 <=> Matches = {}
  BY <1>2, FS_EmptySet
<1>4. ContactIds \subseteq Nat
  BY DEF ContactIds
<1> QED
  BY <1>1, <1>2, <1>3, <1>4

\* A key that is usable for one contact matches no other.
LEMMA UsableIs ==
  ASSUME PastTyped, Usable(Matches)
  PROVE  /\ Matches # {}
         /\ req.op # "checkids" => Matches = {Least(Matches)} /\ Least(Matches) \in ContactIds
         /\ ~req.multiple => Matches = {Least(Matches)}
<1>1. ASSUME Cardinality(Matches) = 1 PROVE Matches = {Least(Matches)}
  BY <1>1, MatchesAre, LeastOfOne
<1> QED
  BY <1>1, MatchesAre DEF Usable

\* The positions of the keys that are left.
LEMMA KeysAre ==
  ASSUME Shape, Places, pc \notin Resting, Keyed(req)
  PROVE  at \in Nat \ {0} /\ Len(req.keys) \in Nat /\ at <= Len(req.keys) + 1 /\ DOMAIN req.keys = 1..Len(req.keys)
<1>1. req \in Reads /\ req.keys \in Seq(Values \cup ContactIds)
  BY AskedParts DEF Places, Resting
<1> QED
  BY <1>1 DEF Shape

\* Every step of a request leaves what its next statement relies on.
LEMMA PlacesStep ==
  ASSUME PastTyped, PastOK, Shape, Places, [Next]_vars
  PROVE  Shape' /\ Places'
<1> USE DEF At, GoTo
<1>1. CASE UNCHANGED vars
  BY <1>1, LinesLast DEF vars, answerVars, Shape, Places, Keyed
<1>2. CASE Write
  BY <1>2, WriteCommits, LinesLast DEF Shape, Places, Keyed
<1>3. ASSUME NEW r \in Reads, Ask(r) PROVE Shape' /\ Places'
  <2>1. /\ pc = "idle" /\ req' = r /\ at' = 1 /\ UNCHANGED <<found, rows, shown, errors, log, file>>
        /\ pc' \in {"list", "find", "catalog"} /\ (pc' = "list" => r.op = "contactlist")
    BY <1>3 DEF Ask, answerVars, Places
  <2>2. Keyed(r) => Len(r.keys) \in Nat
    BY AskedParts
  <2>3. shown = {} /\ errors = {} /\ file = [lines |-> 0, rows |-> {}]
    BY <2>1 DEF Places
  <2>4. Shape'
    BY <2>1, <2>2, <2>3 DEF Shape, Keyed, Resting
  <2>5. Places'
    BY <2>1, <2>2, <2>3, AskedParts DEF Places, Keyed
  <2> QED
    BY <2>4, <2>5
<1>4. CASE CheckList \/ LoadCatalog
  <2>1. /\ pc \in {"list", "catalog"} /\ UNCHANGED <<req, at, found, rows, shown, errors, log, file>>
        /\ pc' \in {"catalog", "find", "failed"}
    BY <1>4 DEF CheckList, LoadCatalog, answerVars
  <2>2. Keyed(req) => Len(req.keys) \in Nat
    BY <2>1, AskedParts DEF Places
  <2> QED
    BY <2>1, <2>2 DEF Shape, Places, Keyed, Resting
<1>5. CASE FindKey
  <2>1. /\ pc = "find" /\ Keyed(req) /\ at <= Len(req.keys) /\ UNCHANGED <<req, rows, log, file>>
        /\ file = [lines |-> 0, rows |-> {}] /\ req \in Reads
    BY <1>5 DEF FindKey, KeysLeft, Places
  <2>2. at \in Nat \ {0} /\ Len(req.keys) \in Nat /\ at + 1 \in 1..(Len(req.keys) + 1)
    BY <2>1, KeysAre DEF Resting
  <2>3. CASE pc' = "find" /\ at' = at + 1 /\ UNCHANGED found
    BY <2>1, <2>2, <2>3 DEF Shape, Places, Keyed, Resting
  <2>4. CASE /\ Usable(Matches) /\ req.op # "checkids" /\ found' = [x \in {Least(Matches)} |-> 0]
             /\ pc' = IF req.op = "getdata" THEN "rows" ELSE "log"
             /\ UNCHANGED <<at, shown, errors>>
    <3>1. Least(Matches) \in ContactIds
      BY <2>4, UsableIs
    <3>2. DOMAIN found' = {Least(Matches)} /\ \A x \in DOMAIN found' : found'[x] \in Int
      BY <2>4
    <3>3. (pc' = "rows" /\ req.op = "getdata") \/ (pc' = "log" /\ req.op = "last_change")
      <4>1. req.op \in {"getdata", "last_change"}
        BY <2>1, <2>4 DEF Keyed
      <4> QED
        BY <2>4, <4>1
    <3> QED
      BY <2>1, <2>2, <2>4, <3>1, <3>2, <3>3 DEF Shape, Places, Keyed, Resting
  <2> QED
    BY <1>5, <2>3, <2>4 DEF FindKey, NextKey
<1>6. CASE Answer
  BY <1>6, KeysAre DEF Answer, answerVars, KeysLeft, Shape, Places, Keyed, Resting
<1>7. CASE ReadLastChange
  <2>1. /\ pc = "log" /\ req.op = "last_change" /\ UNCHANGED <<req, found, rows, errors, log, file>>
        /\ pc' = "find" /\ at' = at + 1
    BY <1>7 DEF ReadLastChange, NextKey
  <2>2. Keyed(req) /\ at \in Nat \ {0} /\ Len(req.keys) \in Nat /\ at + 1 \in 1..(Len(req.keys) + 1)
    BY <2>1, KeysAre DEF Resting, Keyed, Places
  <2>3. file = [lines |-> 0, rows |-> {}]
    BY <2>1 DEF Places
  <2> QED
    BY <2>1, <2>2, <2>3 DEF Shape, Places, Keyed, Resting
<1>8. CASE Select
  <2>1. /\ pc = "find" /\ ~Keyed(req) /\ found' = Selected(Db.t, req)
        /\ UNCHANGED <<req, at, rows, shown, errors, log, file>>
        /\ shown = {} /\ file = [lines |-> 0, rows |-> {}] /\ req \in Reads
        /\ pc' \in {"rows", "failed", "file", "ok"} /\ (pc' = "file" => req.op \in Exports)
    BY <1>8 DEF Select, answerVars, Places
  <2>2. DOMAIN found' \subseteq ContactIds /\ \A x \in DOMAIN found' : found'[x] \in Int
    BY <2>1, StoredChanges, Now, SelectedIs DEF PastOK, Db
  <2>3. IsFiniteSet(shown)
    BY <2>1, FS_EmptySet
  <2>4. FileLength' = FileLength /\ 0 \in 0..FileLength
    BY <2>1, <2>3, Lengths, LinesLast
  <2> QED
    BY <2>1, <2>2, <2>3, <2>4 DEF Shape, Places, Keyed, Resting
<1>9. CASE LoadRows
  BY <1>9, StoredChanges DEF LoadRows, answerVars, Shape, Places, Keyed, Resting
<1>10. CASE LoadValues
  <2>1. pc = "values" /\ UNCHANGED <<req, found, rows, errors, log, file>>
    BY <1>10, LoadValuesIs
  <2>2. file = [lines |-> 0, rows |-> {}] /\ req \in Reads /\ (Keyed(req) => req.op = "getdata")
    BY <2>1 DEF Places
  <2>3. CASE req.op = "getdata"
    <3>1. at' = at + 1 /\ pc' = "find" /\ Keyed(req)
      BY <1>10, <2>3, LoadValuesIs DEF Keyed
    <3>2. at \in Nat \ {0} /\ Len(req.keys) \in Nat /\ at + 1 \in 1..(Len(req.keys) + 1)
      BY <2>1, <3>1, KeysAre DEF Resting, Places
    <3> QED
      BY <2>1, <2>2, <3>1, <3>2 DEF Shape, Places, Keyed, Resting
  <2>4. CASE req.op # "getdata"
    <3>1. /\ ~Keyed(req) /\ shown' = Valued /\ at' = at
          /\ pc' = IF req.op = "page" THEN "log" ELSE IF req.op \in Exports THEN "file" ELSE "ok"
      BY <1>10, <2>2, <2>4, LoadValuesIs
    <3>2. IsFiniteSet(shown') /\ \A s \in shown' : s.time \in Int /\ s.contact \in ContactIds
      BY <2>1, <3>1, ValuedIs
    <3>3. FileLength' \in Nat
      <4>1. (IsFiniteSet(shown) => FileLength \in Nat)'
        BY Lengths, PTL
      <4> QED
        BY <3>2, <4>1
    <3> QED
      BY <2>1, <2>2, <3>1, <3>2, <3>3 DEF Shape, Places, Keyed, Resting
  <2> QED
    BY <2>3, <2>4
<1>11. CASE ReadLog
  <2>1. /\ pc = "log" /\ req.op = "page" /\ pc' = "ok" /\ log' \subseteq Db.t.hist
        /\ UNCHANGED <<req, at, found, rows, shown, errors, file>>
    BY <1>11 DEF ReadLog
  <2>2. log' \subseteq Change /\ file = [lines |-> 0, rows |-> {}] /\ ~Keyed(req)
    BY <2>1, StoredChanges DEF Places, Keyed
  <2> QED
    BY <2>1, <2>2 DEF Shape, Places, Keyed, Resting
<1>12. CASE Fetch
  <2> DEFINE n == LinesSliced(file.lines, PageLines)
  <2>1. /\ pc = "file" /\ file' = [lines |-> file.lines + n, rows |-> file.rows \cup Sliced(file.lines, PageLines)]
        /\ pc' \in {"ok", "file"} /\ UNCHANGED <<req, at, found, rows, shown, errors, log>>
    BY <1>12 DEF Fetch
  <2>2. IsFiniteSet(shown) /\ file.lines \in 0..FileLength /\ req.op \in Exports /\ req \in Reads
    BY <2>1 DEF Places, Shape
  <2>3. file.lines + n \in 0..FileLength
    BY <2>2, Lengths
  <2> HIDE DEF n
  <2>4. FileLength' = FileLength /\ file'.lines \in 0..FileLength /\ file'.rows \subseteq shown
    BY <2>1, <2>3, LinesLast DEF Sliced, Shape
  <2>5. ~Keyed(req)
    BY <2>2, AskedParts
  <2> QED
    BY <2>1, <2>2, <2>4, <2>5 DEF Shape, Places, Keyed, Resting
<1> QED
  BY <1>1, <1>2, <1>3, <1>4, <1>5, <1>6, <1>7, <1>8, <1>9, <1>10, <1>11, <1>12 DEF Next, Serve

-----------------------------------------------------------------------------
(* What was true at some moment of the request stays so *)

\* The key value the request is looking at, if it names contacts by keys.
Sought == IF Keyed(req) THEN KeyValue ELSE NoRead
\* It has looked contacts up and not yet shown them.
Looking == pc \in {"rows", "values"} \/ (pc = "log" /\ req.op = "last_change")

\* x qualified at some moment of the request; it was gone at that or a later one.
FoundOnce(x, k) == \E i \in During : Qualifies(req, past[i].t, x, k)
GoneSince(x, k) == \E i, j \in During : i <= j /\ Qualifies(req, past[i].t, x, k) /\ x \notin past[j].t.live

\* AnswersWereTrue and ErrorsWereTrue, of one answer and of one error.
AnswerWasTrue(s) ==
  /\ req.op = "getdata" => WasStored(s.row.contact, s.row.vals, s.key)
  /\ req.op = "checkids" => \E i \in During : \A x \in s.ids : Qualifies(req, past[i].t, x, s.key)
  /\ req.op = "last_change" =>
       \E i, j \in During : /\ i <= j /\ Qualifies(req, past[i].t, s.change.contact, s.key)
                            /\ s.change \in past[j].t.hist /\ IsLastChange(past[j].t, s.change)
  /\ ~Keyed(req) => WasStored(s.contact, s.vals, NoRead)

MatchesThen(i, k) == FindContactIDs(past[i].t, req.key, k)
ErrorWasTrue(e) ==
  \E i \in During : /\ e.said = "none" => MatchesThen(i, e.key) = {}
                    /\ e.said # "none" => Cardinality(MatchesThen(i, e.key)) > 1

\* Both were true of all that is shown.
LEMMA TruthParts ==
  /\ AnswersWereTrue <=> \A s \in shown : AnswerWasTrue(s)
  /\ ErrorsWereTrue <=> \A e \in errors : ErrorWasTrue(e)
<1>1. AnswersWereTrue <=> \A s \in shown : AnswerWasTrue(s)
  BY DEF AnswersWereTrue, AnswerWasTrue
<1>2. ErrorsWereTrue <=> \A e \in errors : ErrorWasTrue(e)
  BY DEF ErrorsWereTrue, ErrorWasTrue, MatchesThen
<1> QED
  BY <1>1, <1>2

\* The moments of a request stay moments of it.
LEMMA MomentsLast ==
  ASSUME PastTyped, PastOK, [Next]_vars, pc # "idle"
  PROVE  /\ req' = req /\ During \subseteq During' /\ \A i \in During : past'[i] = past[i]
         /\ Len(past) \in During /\ Db = past[Len(past)] /\ During \subseteq Int
         /\ \A i \in During : i <= Len(past)
<1>1. /\ began' = began /\ req' = req /\ Len(past) <= Len(past')
      /\ \A i \in DOMAIN past : i \in DOMAIN past' /\ past'[i] = past[i]
  BY PastStep
<1>2. PastTyped'
  BY PastStep
<1>3. Len(past) \in Nat /\ Len(past') \in Nat /\ began \in Nat
  BY <1>2, Now DEF PastTyped
<1>4. During \subseteq DOMAIN past /\ Len(past) \in During
  BY Now
<1> QED
  BY <1>1, <1>3, <1>4 DEF During, Db

\* What was true once of a request is true from then on.
LEMMA TruthLasts ==
  ASSUME PastTyped, PastOK, [Next]_vars, pc # "idle"
  PROVE  /\ \A x, k : (FoundOnce(x, k) => FoundOnce(x, k)') /\ (GoneSince(x, k) => GoneSince(x, k)')
         /\ \A s : AnswerWasTrue(s) => AnswerWasTrue(s)'
         /\ \A e : ErrorWasTrue(e) => ErrorWasTrue(e)'
<1>1. req' = req /\ During \subseteq During' /\ \A i \in During : past'[i] = past[i]
  BY MomentsLast
<1>2. ASSUME NEW x, NEW k
      PROVE  (FoundOnce(x, k) => FoundOnce(x, k)') /\ (GoneSince(x, k) => GoneSince(x, k)')
  BY <1>1 DEF FoundOnce, GoneSince
<1>3. ASSUME NEW x, NEW vals, NEW k, WasStored(x, vals, k) PROVE WasStored(x, vals, k)'
  BY <1>1, <1>3 DEF WasStored
<1>4. ASSUME NEW s, AnswerWasTrue(s) PROVE AnswerWasTrue(s)'
  <2>1. req.op = "getdata" => WasStored(s.row.contact, s.row.vals, s.key)'
    BY <1>3, <1>4 DEF AnswerWasTrue
  <2>2. ~Keyed(req) => WasStored(s.contact, s.vals, NoRead)'
    BY <1>3, <1>4 DEF AnswerWasTrue
  <2>3. req.op = "checkids" => \E i \in During' : \A x \in s.ids : Qualifies(req, past'[i].t, x, s.key)
    BY <1>1, <1>4 DEF AnswerWasTrue
  <2>4. req.op = "last_change" =>
          \E i, j \in During' : /\ i <= j /\ Qualifies(req, past'[i].t, s.change.contact, s.key)
                                /\ s.change \in past'[j].t.hist /\ IsLastChange(past'[j].t, s.change)
    BY <1>1, <1>4 DEF AnswerWasTrue
  <2> QED
    BY <1>1, <2>1, <2>2, <2>3, <2>4 DEF AnswerWasTrue, Keyed
<1>5. ASSUME NEW e, ErrorWasTrue(e) PROVE ErrorWasTrue(e)'
  BY <1>1, <1>5 DEF ErrorWasTrue, MatchesThen
<1> QED
  BY <1>2, <1>4, <1>5

-----------------------------------------------------------------------------
(* Rows, ids, changes and errors were true *)

\* A contact without a row, or with none any more, is shown with empty values.
LEMMA ValuedWasStored ==
  ASSUME PastTyped, PastOK, Shape, Places, [Next]_vars, pc = "values",
         \A x \in DOMAIN found : FoundOnce(x, Sought), \A x \in DOMAIN found \ rows : GoneSince(x, Sought)
  PROVE  \A v \in Valued : WasStored(v.contact, v.vals, Sought)
<1>1. /\ Len(past) \in During /\ Db = past[Len(past)] /\ \A i \in During : i <= Len(past)
      /\ \A j \in During : past[j].t \in Tables /\ Sane(past[j].t)
  BY MomentsLast, Now DEF PastOK, Moment
<1>2. SUFFICES ASSUME NEW v \in Valued PROVE WasStored(v.contact, v.vals, Sought)
  OBVIOUS
<1>3. PICK x \in DOMAIN found : v = RowOf(x) /\ v.contact = x /\ x \in ContactIds
  BY ValuedIs
<1>4. req.fields \subseteq FieldIds
  BY AskedParts DEF Places
<1>5. CASE x \in rows
  <2>1. v.vals = Shown(Db.t, x, req.fields) /\ DOMAIN v.vals = req.fields
    BY <1>3, <1>5, ValuedIs DEF Shown
  <2>2. PICK i \in During : Qualifies(req, past[i].t, x, Sought)
    BY DEF FoundOnce
  <2> QED
    BY <1>1, <1>3, <2>1, <2>2 DEF WasStored
<1>6. CASE x \notin rows
  <2>1. v.vals = Blank(req.fields) /\ DOMAIN v.vals = req.fields
    BY <1>3, <1>6, ValuedIs DEF Blank
  <2>2. PICK i, j \in During : i <= j /\ Qualifies(req, past[i].t, x, Sought) /\ x \notin past[j].t.live
    BY <1>6 DEF GoneSince
  <2>3. \A f \in FieldIds : past[j].t.vals[x][f] = NoValue
    BY <1>1, <1>3, <2>2 DEF Sane
  <2>4. Blank(req.fields) = Shown(past[j].t, x, req.fields)
    BY <1>4, <2>3 DEF Blank, Shown
  <2> QED
    BY <1>3, <2>1, <2>2, <2>4 DEF WasStored
<1> QED
  BY <1>5, <1>6

\* What the current look-up by a key found qualifies now.
LEMMA MatchesQualify ==
  ASSUME PastTyped, Shape, Places, pc = "find", Keyed(req), Usable(Matches)
  PROVE  \A x \in Matches : Qualifies(req, Db.t, x, KeyValue)
<1>1. req \in KeyedRead /\ req.multiple \in BOOLEAN
  BY AskedShape DEF Places, KeyedRead
<1>2. CASE req.op = "checkids" /\ req.multiple
  BY <1>2 DEF Qualifies, Matches
<1>3. CASE ~(req.op = "checkids" /\ req.multiple)
  <2>1. \A x \in Matches : Matches = {x}
    BY <1>1, <1>3, UsableIs
  <2> QED
    BY <2>1 DEF Qualifies, Matches
<1> QED
  BY <1>2, <1>3

\* An error says what the look-up found.
LEMMA ErrorIsTrue ==
  ASSUME PastTyped, ~Usable(Matches), Len(past) \in During,
         NEW e, e = [key |-> KeyValue, said |-> IF Matches = {} THEN "none" ELSE "several"]
  PROVE  ErrorWasTrue(e)
<1>1. MatchesThen(Len(past), e.key) = Matches
  BY DEF MatchesThen, Matches, Db
<1>2. Matches # {} => Cardinality(Matches) > 1
  BY MatchesAre DEF Usable
<1> QED
  BY <1>1, <1>2 DEF ErrorWasTrue

\* What a request has found, shown and reported was true at moments of it.
Told ==
  /\ Looking => \A x \in DOMAIN found : FoundOnce(x, Sought)
  /\ pc = "values" => \A x \in DOMAIN found \ rows : GoneSince(x, Sought)
  /\ \A s \in shown : AnswerWasTrue(s)
  /\ \A e \in errors : ErrorWasTrue(e)

\* A step of a request that adds only what is true keeps Told.
LEMMA ToldStep ==
  ASSUME PastTyped, PastOK, Shape, Places, Told, [Next]_vars
  PROVE  Told'
<1> USE DEF At, GoTo
<1>1. CASE pc = "idle"
  <2>1. /\ shown' = {} /\ errors' = {} /\ pc' \in {"idle", "list", "find", "catalog"}
    <3>1. shown = {} /\ errors = {}
      BY <1>1 DEF Places
    <3>2. CASE Write
      BY <1>1, <3>1, <3>2, WriteCommits
    <3>3. CASE \E r \in Reads : Ask(r)
      BY <1>1, <3>1, <3>3 DEF Ask, answerVars
    <3>4. CASE UNCHANGED vars
      BY <1>1, <3>1, <3>4 DEF vars, answerVars
    <3>5. CASE Serve
      BY <1>1, <3>5 DEF Serve, CheckList, LoadCatalog, FindKey, Answer, ReadLastChange, Select, LoadRows, LoadValues,
                        ReadLog, Fetch
    <3> QED
      BY <3>2, <3>3, <3>4, <3>5 DEF Next
  <2> QED
    BY <2>1 DEF Told, Looking
<1>2. CASE pc # "idle"
  <2>1. /\ \A x, k : (FoundOnce(x, k) => FoundOnce(x, k)') /\ (GoneSince(x, k) => GoneSince(x, k)')
        /\ \A s : AnswerWasTrue(s) => AnswerWasTrue(s)'
        /\ \A e : ErrorWasTrue(e) => ErrorWasTrue(e)'
    BY <1>2, TruthLasts
  <2>2. /\ req' = req /\ req \in Reads /\ Len(past) \in During /\ Db = past[Len(past)]
        /\ \A i \in During : i <= Len(past)
    BY <1>2, MomentsLast DEF Places
  <2>3. Db.t \in Tables /\ Sane(Db.t)
    BY Now, StoredChanges DEF PastOK, Db
  <2> DEFINE found_ == Looking' => \A x \in DOMAIN found' : FoundOnce(x, Sought')
             gone_ == pc' = "values" => \A x \in DOMAIN found' \ rows' : GoneSince(x, Sought')
             shown_ == \A s \in shown' : s \in shown \/ AnswerWasTrue(s)
             errors_ == \A e \in errors' : e \in errors \/ ErrorWasTrue(e)
  <2>4. SUFFICES found_ /\ gone_ /\ shown_ /\ errors_
    <3>1. Looking' => \A x \in DOMAIN found' : FoundOnce(x, Sought)'
      BY <2>1
    <3>2. (pc = "values")' => \A x \in DOMAIN found' \ rows' : GoneSince(x, Sought)'
      BY <2>1
    <3>3. \A s \in shown' : AnswerWasTrue(s)'
      BY <2>1 DEF Told
    <3>4. \A e \in errors' : ErrorWasTrue(e)'
      BY <2>1 DEF Told
    <3> QED
      BY <3>1, <3>2, <3>3, <3>4 DEF Told
  <2>5. CASE Write \/ UNCHANGED vars
    <3>1. UNCHANGED <<pc, req, at, found, rows, shown, errors>>
      BY <2>5, WriteCommits DEF vars, answerVars
    <3>2. Sought' = Sought /\ Looking' = Looking
      BY <3>1 DEF Sought, Looking, KeyValue, Keyed
    <3> QED
      BY <3>1, <3>2 DEF Told
  <2>6. CASE CheckList \/ LoadCatalog \/ Answer \/ ReadLog \/ Fetch
    <3>1. shown' = shown /\ errors' = errors /\ pc' \in {"catalog", "find", "failed", "ok", "file"}
      BY <2>6 DEF CheckList, LoadCatalog, Answer, ReadLog, Fetch, answerVars
    <3> QED
      BY <3>1 DEF Looking
  <2>7. CASE FindKey
    <3>1. pc = "find" /\ Keyed(req) /\ rows' = rows /\ pc' \in {"find", "rows", "log"}
      BY <2>7 DEF FindKey, NextKey
    <3>2. CASE pc' = "find" /\ errors' = errors /\ Usable(Matches) /\ req.op = "checkids"
               /\ shown' = shown \cup {[key |-> KeyValue, ids |-> Matches]}
      <4>1. ASSUME NEW s, s = [key |-> KeyValue, ids |-> Matches] PROVE AnswerWasTrue(s)
        <5>1. \A x \in s.ids : Qualifies(req, past[Len(past)].t, x, s.key)
          BY <2>2, <3>1, <3>2, <4>1, MatchesQualify
        <5> QED
          BY <2>2, <3>2, <5>1 DEF AnswerWasTrue, Keyed
      <4> QED
        BY <3>2, <4>1 DEF Looking
    <3>3. CASE Usable(Matches) /\ req.op # "checkids" /\ found' = [x \in {Least(Matches)} |-> 0]
               /\ UNCHANGED <<at, shown, errors>>
      <4>1. DOMAIN found' = Matches /\ Sought' = KeyValue
        BY <2>2, <3>1, <3>3, UsableIs DEF Sought, KeyValue, Keyed
      <4>2. \A x \in DOMAIN found' : FoundOnce(x, Sought')
        BY <2>2, <3>1, <3>3, <4>1, MatchesQualify DEF FoundOnce
      <4> QED
        BY <3>1, <3>3, <4>2
    <3>4. CASE pc' = "find" /\ shown' = shown /\ ~Usable(Matches)
               /\ (errors' = errors \/ Report(IF Matches = {} THEN "none" ELSE "several"))
      <4>1. errors_
        BY <2>2, <3>4, ErrorIsTrue DEF Report
      <4> QED
        BY <3>4, <4>1 DEF Looking
    <3> QED
      BY <2>7, <3>2, <3>3, <3>4 DEF FindKey, NextKey
  <2>8. CASE ReadLastChange
    <3>1. /\ pc = "log" /\ req.op = "last_change" /\ pc' = "find" /\ errors' = errors
          /\ shown' = shown \cup {[key |-> KeyValue, change |-> h] :
               h \in {h \in Db.t.hist : h.contact \in DOMAIN found /\ h.field \in req.fields /\ IsLastChange(Db.t, h)}}
      BY <2>8 DEF ReadLastChange, NextKey
    <3>2. ASSUME NEW h \in Db.t.hist, h.contact \in DOMAIN found, IsLastChange(Db.t, h),
                 NEW s, s = [key |-> KeyValue, change |-> h]
          PROVE  AnswerWasTrue(s)
      <4>1. PICK i \in During : Qualifies(req, past[i].t, h.contact, KeyValue)
        BY <3>1, <3>2 DEF Told, Looking, FoundOnce, Sought, Keyed
      <4>2. i <= Len(past) /\ s.key = KeyValue /\ s.change = h
        BY <2>2, <3>2
      <4> QED
        BY <2>2, <3>1, <3>2, <4>1, <4>2 DEF AnswerWasTrue, Keyed
    <3> QED
      BY <3>1, <3>2 DEF Looking
  <2>9. CASE Select
    <3>1. /\ pc = "find" /\ ~Keyed(req) /\ found' = Selected(Db.t, req) /\ shown' = shown /\ errors' = errors
          /\ pc' \in {"rows", "failed", "file", "ok"}
      BY <2>9 DEF Select, answerVars
    <3>2. \A x \in DOMAIN found' : Qualifies(req, Db.t, x, Sought')
      BY <2>2, <2>3, <3>1, SelectedIs
    <3> QED
      BY <2>2, <3>1, <3>2 DEF FoundOnce
  <2>10. CASE LoadRows
    <3>1. /\ pc = "rows" /\ pc' = "values" /\ rows' = DOMAIN found \cap Db.t.live
          /\ UNCHANGED <<at, found, shown, errors>>
      BY <2>10 DEF LoadRows, answerVars
    <3>2. Sought' = Sought
      BY <2>2, <3>1 DEF Sought, KeyValue, Keyed
    <3>3. \A x \in DOMAIN found : FoundOnce(x, Sought)
      BY <3>1 DEF Told, Looking
    <3>4. \A x \in DOMAIN found \ rows' : GoneSince(x, Sought)
      BY <2>2, <3>1, <3>3 DEF FoundOnce, GoneSince
    <3> QED
      BY <3>1, <3>2, <3>3, <3>4
  <2>11. CASE LoadValues
    <3>1. pc = "values" /\ errors' = errors
      BY <2>11, LoadValuesIs
    <3>2. \A v \in Valued : WasStored(v.contact, v.vals, Sought)
      BY <3>1, ValuedWasStored DEF Told, Looking
    <3>3. CASE req.op = "getdata"
      <4>1. pc' = "find" /\ shown' = shown \cup {[key |-> KeyValue, row |-> v] : v \in Valued} /\ Sought = KeyValue
        BY <2>11, <3>3, LoadValuesIs DEF Sought, Keyed
      <4>2. ASSUME NEW v \in Valued, NEW s, s = [key |-> KeyValue, row |-> v] PROVE AnswerWasTrue(s)
        BY <3>2, <3>3, <4>1, <4>2 DEF AnswerWasTrue, Keyed
      <4> QED
        BY <3>1, <4>1, <4>2 DEF Looking
    <3>4. CASE req.op # "getdata"
      <4>1. ~Keyed(req) /\ Sought = NoRead
        BY <3>1, <3>4 DEF Places, Sought
      <4>2. shown' = Valued /\ ~Looking' /\ pc' # "values"
        BY <2>2, <2>11, <3>4, LoadValuesIs DEF Looking
      <4>3. \A s \in Valued : AnswerWasTrue(s)
        BY <3>2, <4>1 DEF AnswerWasTrue, Keyed
      <4> QED
        BY <3>1, <4>2, <4>3
    <3> QED
      BY <3>3, <3>4
  <2>12. CASE \E r \in Reads : Ask(r)
    BY <1>2, <2>12 DEF Ask
  <2> QED
    BY <2>5, <2>6, <2>7, <2>8, <2>9, <2>10, <2>11, <2>12 DEF Next, Serve
<1> QED
  BY <1>1, <1>2

-----------------------------------------------------------------------------
(* A contact's page is explained by its log *)

\* Among some changes with bounded stamps one is not before any other.
LEMMA LatestChange ==
  ASSUME NEW n \in Nat, NEW B \in SUBSET Change, B # {}, \A h \in B : h.stamp <= n
  PROVE  \E e \in B : \A g \in B : ~Later(g, e)
<1> DEFINE stamps == {h.stamp : h \in B}
<1>1. B \subseteq Change /\ \A h \in Change : h.stamp \in Nat /\ h.field \in Nat /\ h.field <= MaxField
  BY DEF Change, FieldIds
<1>2. stamps \in SUBSET Nat /\ stamps # {} /\ \A y \in stamps : y <= n
  BY <1>1
<1> HIDE DEF stamps
<1>3. PICK s \in stamps : \A y \in stamps : y <= s
  BY <1>2, GreatestNumber
<1> DEFINE fields == {h.field : h \in {h \in B : h.stamp = s}}
<1>4. fields \in SUBSET Nat /\ fields # {} /\ \A y \in fields : y <= MaxField
  BY <1>1, <1>3 DEF stamps
<1> HIDE DEF fields
<1>5. PICK f \in fields : \A y \in fields : y <= f
  BY <1>4, GreatestNumber, BoundsAssumption
<1>6. PICK e \in B : e.stamp = s /\ e.field = f
  BY <1>5 DEF fields
<1>7. ASSUME NEW g \in B PROVE ~Later(g, e)
  <2>1. g.stamp <= e.stamp
    BY <1>3, <1>6 DEF stamps
  <2>2. g.stamp = e.stamp => g.field <= e.field
    BY <1>5, <1>6 DEF fields
  <2>3. g.stamp \in Nat /\ e.stamp \in Nat /\ g.field \in Nat /\ e.field \in Nat
    BY <1>1, <1>6
  <2> QED
    BY <2>1, <2>2, <2>3 DEF Later
<1> QED
  BY <1>6, <1>7

\* Cutting a log off leaves as many entries as the limit allows.
LEMMA CutLogIsFull ==
  ASSUME NEW n \in Nat, NEW E \in SUBSET Change, IsFiniteSet(E), \A h \in E : h.stamp <= n, NEW limit \in Nat,
         NEW T, T = {h \in E : Cardinality({g \in E : Later(g, h)}) < limit}, T # E
  PROVE  Cardinality(T) >= limit
<1>1. E \ T \in SUBSET Change /\ E \ T # {} /\ \A h \in E \ T : h.stamp <= n
  OBVIOUS
<1>2. PICK e \in E \ T : \A g \in E \ T : ~Later(g, e)
  BY <1>1, LatestChange
<1> DEFINE later == {g \in E : Later(g, e)}
<1>3. later \subseteq T /\ later \subseteq E /\ T \subseteq E
  BY <1>2
<1>4. ~(Cardinality(later) < limit)
  BY <1>2
<1> HIDE DEF later
<1>5. IsFiniteSet(T) /\ IsFiniteSet(later)
  BY <1>3, FS_Subset
<1>6. Cardinality(later) <= Cardinality(T) /\ Cardinality(later) \in Nat /\ Cardinality(T) \in Nat
  BY <1>3, <1>5, FS_Subset, FS_CardinalityType
<1> QED
  BY <1>4, <1>6

\* The rows of a page are of contacts its log is about, as they were stored.
PageRows ==
  pc = "log" /\ req.op = "page" =>
    \A s \in shown : /\ s.contact \in DOMAIN found
                     /\ \E j \in During : s.vals = Shown(past[j].t, s.contact, FieldIds)

\* The rows that the second statement of LoadContacts shows are such.
LEMMA PageRowsStep ==
  ASSUME PastTyped, PastOK, Shape, Places, Told, PageRows, [Next]_vars
  PROVE  PageRows'
<1> USE DEF At, GoTo
<1>1. CASE pc = "log"
  <2>1. req' = req /\ During \subseteq During' /\ \A i \in During : past'[i] = past[i]
    BY <1>1, MomentsLast
  <2>2. pc' = "log" => UNCHANGED <<pc, found, shown>>
    BY <1>1, WriteCommits DEF Next, vars, answerVars, Serve, Ask, CheckList, LoadCatalog, FindKey, Answer, ReadLastChange,
                              Select, LoadRows, LoadValues, ReadLog, Fetch, NextKey
  <2> QED
    BY <1>1, <2>1, <2>2 DEF PageRows
<1>2. CASE pc = "values" /\ LoadValues
  <2>1. req' = req /\ During \subseteq During' /\ (\A i \in During : past'[i] = past[i]) /\ req \in Reads
    BY <1>2, MomentsLast DEF Places
  <2>2. ASSUME req.op = "page" PROVE PageRows'
    <3>1. ~Keyed(req) /\ req.fields = FieldIds /\ Sought = NoRead
      BY <2>1, <2>2, AskedParts DEF Sought
    <3>2. shown' = Valued /\ found' = found /\ Kept = DOMAIN found
      BY <1>2, <2>2, LoadValuesIs DEF Kept
    <3>3. \A v \in Valued : WasStored(v.contact, v.vals, Sought) /\ v.contact \in DOMAIN found
      BY <1>2, <3>2, ValuedWasStored, ValuedIs DEF Told, Looking
    <3>4. \A v \in Valued : DOMAIN v.vals = FieldIds
      <4>1. \A v \in Valued : v.vals \in {Shown(Db.t, v.contact, FieldIds), Blank(FieldIds)}
        BY <3>1, ValuedIs
      <4>2. \A x : DOMAIN Shown(Db.t, x, FieldIds) = FieldIds /\ DOMAIN Blank(FieldIds) = FieldIds
        BY DEF Shown, Blank
      <4> QED
        BY <4>1, <4>2
    <3>5. \A v \in Valued : \E j \in During : v.vals = Shown(past[j].t, v.contact, FieldIds)
      BY <3>3, <3>4 DEF WasStored
    <3> QED
      BY <2>1, <3>2, <3>3, <3>5 DEF PageRows
  <2>3. ASSUME req.op # "page" PROVE PageRows'
    BY <2>1, <2>3 DEF PageRows
  <2> QED
    BY <2>2, <2>3
<1>3. CASE pc # "log" /\ ~LoadValues
  <2>1. pc' = "log" => FindKey
    BY <1>3, WriteCommits DEF Next, vars, answerVars, Serve, Ask, CheckList, LoadCatalog, Answer, ReadLastChange,
                              Select, LoadRows, ReadLog, Fetch, NextKey
  <2>2. FindKey => req'.op # "page"
    BY DEF FindKey, Keyed
  <2> QED
    BY <2>1, <2>2 DEF PageRows
<1> QED
  BY <1>1, <1>2, <1>3 DEF LoadValues

\* A value that was stored was logged, and its entry is in the log of the page
\* unless the contact is gone or the log is cut off.
LEMMA PageIsExplainedStep ==
  ASSUME PastTyped, PastOK, Shape, Places, PageRows, PageIsExplained, [Next]_vars
  PROVE  PageIsExplained'
<1> USE DEF At, GoTo
<1>1. CASE ReadLog
  <2> DEFINE entries == {h \in Db.t.hist : h.contact \in DOMAIN found}
  <2>1. /\ pc = "log" /\ req.op = "page" /\ UNCHANGED <<past, req, began, shown>>
        /\ log' = {h \in entries : Cardinality({g \in entries : Later(g, h)}) < HistoryLimit}
    BY <1>1 DEF ReadLog
  <2>2. Db.t \in Tables /\ Sane(Db.t) /\ Len(past) \in During /\ Db = past[Len(past)] /\ \A i \in During : i <= Len(past)
    BY <2>1, Now, StoredChanges, MomentsLast DEF PastOK, Db
  <2>3. entries \in SUBSET Change /\ IsFiniteSet(entries) /\ Db.t.stamp \in Nat /\ \A h \in entries : h.stamp <= Db.t.stamp
    <3>1. IsFiniteSet(entries)
      BY <2>2, FS_Subset DEF Sane
    <3>2. entries \in SUBSET Change /\ Db.t.stamp \in Nat
      BY <2>2 DEF Tables
    <3>3. \A h \in entries : h.stamp \in Nat /\ h.stamp < Db.t.stamp
      BY <2>2, <3>2 DEF Sane, Change
    <3> QED
      BY <3>1, <3>2, <3>3
  <2>4. SUFFICES ASSUME NEW s \in shown, NEW f \in FieldIds, s.vals[f] # Empty, s.contact \in Db.t.live,
                        ~(Cardinality(log') >= HistoryLimit)
                 PROVE  \E h \in log' : h.field = f /\ h.new = s.vals[f]
    BY <2>1 DEF PageIsExplained, Db
  <2>5. PICK j \in During : s.vals = Shown(past[j].t, s.contact, FieldIds) /\ s.contact \in DOMAIN found
    BY <2>1 DEF PageRows
  <2>6. past[j].t \in Tables /\ Sane(past[j].t) /\ Follows(past[j].t, Db.t) /\ s.contact \in ContactIds
    BY <2>2, <2>5, Now DEF PastOK, Moment, Shape
  <2>7. past[j].t.vals[s.contact][f] # NoValue /\ s.vals[f] = past[j].t.vals[s.contact][f]
    BY <2>4, <2>5 DEF Shown
  <2>8. PICK h \in past[j].t.hist : h.contact = s.contact /\ h.field = f /\ h.new = s.vals[f]
    BY <2>6, <2>7 DEF Sane
  <2>9. h \in entries
    BY <2>4, <2>5, <2>6, <2>8 DEF Follows
  <2> HIDE DEF entries
  <2>10. log' = entries
    BY <2>1, <2>3, <2>4, CutLogIsFull, ReadBoundsAssumption
  <2> QED
    BY <2>8, <2>9, <2>10
<1>2. CASE ~ReadLog
  <2>1. ASSUME pc' = "ok", req'.op = "page" PROVE UNCHANGED <<pc, past, req, shown, log>>
    <3>1. ~UNCHANGED vars => Write \/ Serve \/ \E r \in Reads : Ask(r)
      BY DEF Next
    <3>2. ~Write
      BY <2>1, WriteCommits
    <3>3. ~\E r \in Reads : Ask(r)
      BY <2>1 DEF Ask
    <3>4. ~(CheckList \/ LoadCatalog \/ FindKey \/ Answer \/ ReadLastChange \/ LoadRows)
      BY <2>1 DEF CheckList, LoadCatalog, FindKey, Answer, ReadLastChange, LoadRows, NextKey, Keyed
    <3>5. ~Select
      BY <2>1 DEF Select
    <3>6. ~LoadValues
      BY <2>1, LoadValuesIs
    <3>7. ~Fetch
      BY <2>1 DEF Fetch, Places, Exports
    <3> QED
      BY <1>2, <3>1, <3>2, <3>3, <3>4, <3>5, <3>6, <3>7 DEF Serve, vars, answerVars
  <2> QED
    BY <2>1 DEF PageIsExplained, Db
<1> QED
  BY <1>1, <1>2

-----------------------------------------------------------------------------
(* Nobody who qualifies all along is missed *)

\* x qualifies at every moment of the request.
Throughout(x, k) == \A i \in During : Qualifies(req, past[i].t, x, k)

\* Who qualifies until the request is further, qualified until now.
LEMMA ThroughoutBefore ==
  ASSUME PastTyped, PastOK, [Next]_vars, pc # "idle"
  PROVE  \A x, k : Throughout(x, k)' => Throughout(x, k) /\ Qualifies(req, Db.t, x, k)
<1>1. ASSUME NEW x, NEW k, Throughout(x, k)' PROVE Throughout(x, k) /\ Qualifies(req, Db.t, x, k)
  BY <1>1, MomentsLast DEF Throughout
<1> QED
  BY <1>1

\* Who qualifies is there.
LEMMA QualifiesLive ==
  ASSUME NEW t \in Tables, Sane(t), NEW r, NEW x, NEW k, Qualifies(r, t, x, k)
  PROVE  x \in t.live
<1>1. FindContactIDs(t, r.key, k) \subseteq t.live
  BY DEF FindContactIDs
<1>2. \A h \in t.hist : h.contact \in t.live
  BY DEF Sane
<1>3. <<r.list, x>> \in t.members => x \in t.live
  BY DEF Sane
<1> QED
  BY <1>1, <1>2, <1>3 DEF Qualifies

\* What a request was answered it stays answered.
LEMMA AnsweredLasts ==
  ASSUME PastTyped, PastOK, [Next]_vars, pc # "idle", shown \subseteq shown', file' = file
  PROVE  \A x, k : Answered(x, k) => Answered(x, k)'
<1>1. ASSUME NEW x, NEW k, Answered(x, k) PROVE Answered(x, k)'
  BY <1>1, MomentsLast DEF Answered, Exports, IsBlank, WithTimestamp
<1> QED
  BY <1>1

\* A key value that one contact keeps for itself, or many where many are
\* allowed, is usable.
LEMMA QualifiedIsUsable ==
  ASSUME PastTyped, Keyed(req), NEW x, Qualifies(req, Db.t, x, KeyValue)
  PROVE  x \in Matches /\ Usable(Matches)
<1>1. x \in Matches /\ ((req.op = "checkids" /\ req.multiple) \/ Matches = {x})
  BY DEF Qualifies, Matches, Keyed
<1>2. CASE Matches = {x}
  BY <1>1, <1>2, FS_Singleton DEF Usable
<1>3. CASE req.op = "checkids" /\ req.multiple
  <2>1. Cardinality(Matches) \in Nat /\ Cardinality(Matches) # 0
    BY <1>1, MatchesAre
  <2> QED
    BY <1>1, <1>3, <2>1 DEF Usable
<1> QED
  BY <1>1, <1>2, <1>3

\* Of a contact with changes of the fields asked for, a last one is shown.
LEMMA SomeLastChange ==
  ASSUME NEW t \in Tables, Sane(t), NEW h \in t.hist
  PROVE  \E e \in Changes(t, h.contact, h.field) : IsLastChange(t, e)
<1> DEFINE B == Changes(t, h.contact, h.field)
<1>1. B \in SUBSET Change /\ h \in B /\ t.stamp \in Nat
  BY DEF Changes, Tables
<1>2. \A g \in B : g \in t.hist /\ g.stamp \in Nat /\ g.stamp < t.stamp /\ g.contact = h.contact /\ g.field = h.field
  BY <1>1 DEF Sane, Changes, Change
<1>3. PICK e \in B : \A g \in B : ~Later(g, e)
  <2> HIDE DEF B
  <2>1. \A g \in B : g.stamp <= t.stamp
    BY <1>1, <1>2
  <2> QED
    BY <1>1, <2>1, LatestChange
<1>4. \A g \in B : g.stamp <= e.stamp
  BY <1>2, <1>3 DEF Later
<1>5. Changes(t, e.contact, e.field) = B
  BY <1>2
<1> QED
  BY <1>3, <1>4, <1>5 DEF IsLastChange

\* Whoever qualifies all along is found, kept, shown and answered; what is
\* before the line a file has been fetched to was fetched, unless it is blank.
Missed ==
  /\ Looking => \A x \in ContactIds : Throughout(x, Sought) => x \in DOMAIN found
  /\ pc = "values" => \A x \in ContactIds : Throughout(x, Sought) => x \in rows
  /\ pc \notin {"idle", "failed"} /\ Keyed(req) =>
       \A i \in DOMAIN req.keys : i < at =>
         \A x \in ContactIds : Throughout(x, req.keys[i]) => Answered(x, req.keys[i])
  /\ pc \in {"log", "file", "ok"} /\ ~Keyed(req) =>
       \A x \in ContactIds : Throughout(x, NoRead) => \E s \in shown : s.contact = x
  /\ pc = "file" => \A s \in shown : LineOf(s) < file.lines => s \in file.rows \/ IsBlank(s)
  /\ pc = "ok" /\ req.op \in Exports => \A s \in shown : s \in file.rows \/ IsBlank(s)

\* Fetching goes on line by line, and ends after the last.
LEMMA FetchMisses ==
  ASSUME PastTyped, Shape, Places, Missed, Fetch
  PROVE  /\ pc' = "file" => \A s \in shown' : LineOf(s)' < file'.lines => s \in file'.rows \/ IsBlank(s)'
         /\ pc' = "ok" => \A s \in shown' : s \in file'.rows \/ IsBlank(s)'
<1> DEFINE m == file.lines
           n == LinesSliced(m, PageLines)
<1>1. /\ pc = "file" /\ UNCHANGED <<req, shown>>
      /\ file' = [lines |-> m + n, rows |-> file.rows \cup Sliced(m, PageLines)]
      /\ pc' = IF n < PageLines THEN "ok" ELSE "file"
  BY DEF Fetch, At, GoTo
<1>2. IsFiniteSet(shown) /\ m \in 0..FileLength /\ PageLines \in Nat
  BY <1>1, PageAssumption DEF Places, Shape
<1>3. FileLength \in Nat /\ n \in 0..PageLines /\ (n < PageLines => m + PageLines > FileLength)
  BY <1>2, Lengths
<1>4. \A s \in shown : /\ LineOf(s) \in Nat /\ LineOf(s)' = LineOf(s) /\ (IsBlank(s)' <=> IsBlank(s))
                       /\ LineOf(s) < m => s \in file.rows \/ IsBlank(s)
  <2>1. \A s \in shown : LineOf(s) \in Nat
    BY <1>2, LineNumbers
  <2> QED
    BY <1>1, <2>1, LinesLast DEF Missed
<1>5. \A s \in shown : ~IsBlank(s) => LineOf(s) < FileLength
  BY <1>2, Lengths
<1> HIDE DEF m, n
<1>6. \A s \in shown : LineOf(s) < m + PageLines => s \in file'.rows \/ IsBlank(s)
  <2>1. \A s \in shown : LineOf(s) \in m..(m + PageLines - 1) => s \in file'.rows \/ IsBlank(s)
    BY <1>1 DEF Sliced
  <2> QED
    BY <1>1, <1>2, <1>4, <2>1
<1>7. ASSUME pc' = "file" PROVE \A s \in shown' : LineOf(s)' < file'.lines => s \in file'.rows \/ IsBlank(s)'
  BY <1>1, <1>2, <1>3, <1>4, <1>6, <1>7
<1>8. ASSUME pc' = "ok" PROVE \A s \in shown' : s \in file'.rows \/ IsBlank(s)'
  BY <1>1, <1>2, <1>3, <1>4, <1>5, <1>6, <1>8
<1> QED
  BY <1>7, <1>8

\* The keys before the current one stay answered.
LEMMA KeysLast ==
  ASSUME PastTyped, PastOK, Shape, Places, Missed, [Next]_vars, pc \notin {"idle", "failed"}, Keyed(req),
         shown \subseteq shown', file' = file
  PROVE  \A i \in DOMAIN req.keys : i < at =>
           \A x \in ContactIds : Throughout(x, req.keys[i]) => Answered(x, req.keys[i])'
BY AnsweredLasts, MomentsLast DEF Missed

\* A step that answers the current key, if anybody asked for it qualifies, goes
\* on to the next.
LEMMA NextKeyMisses ==
  ASSUME PastTyped, PastOK, Shape, Places, Missed, [Next]_vars, pc \in {"find", "values", "log"}, Keyed(req),
         at <= Len(req.keys), shown \subseteq shown', file' = file, at' = at + 1, pc' = "find",
         \A x \in ContactIds : \A k :
           k = KeyValue /\ Throughout(x, k) /\ Qualifies(req, Db.t, x, k) => Answered(x, k)'
  PROVE  Missed'
<1>1. req' = req /\ \A x, k : Throughout(x, k)' => Throughout(x, k) /\ Qualifies(req, Db.t, x, k)
  BY MomentsLast, ThroughoutBefore
<1>2. at \in Nat \ {0} /\ Len(req.keys) \in Nat /\ DOMAIN req.keys = 1..Len(req.keys)
  BY KeysAre DEF Resting
<1>3. ASSUME NEW i \in DOMAIN req.keys, i < at + 1, NEW x \in ContactIds, Throughout(x, req.keys[i])'
      PROVE  Answered(x, req.keys[i])'
  <2>1. CASE i < at
    BY <1>1, <1>3, <2>1, KeysLast
  <2>2. CASE i = at
    <3>1. PICK k : k = req.keys[i]
      OBVIOUS
    <3>2. Throughout(x, k)' /\ k = KeyValue
      BY <1>1, <1>3, <2>2, <3>1 DEF KeyValue
    <3> QED
      BY <1>1, <3>1, <3>2
  <2> QED
    BY <1>2, <1>3, <2>1, <2>2
<1> QED
  BY <1>1, <1>3 DEF Missed, Looking, Keyed

\* No step misses anybody.
LEMMA MissedStep ==
  ASSUME PastTyped, PastOK, Shape, Places, Missed, [Next]_vars
  PROVE  Missed'
<1> USE DEF At, GoTo
<1>1. CASE pc = "idle"
  <2>1. pc' \in {"idle", "list", "find", "catalog"} /\ at' = 1
    <3>1. at = 1
      BY <1>1 DEF Places
    <3>2. CASE Write
      BY <1>1, <3>1, <3>2, WriteCommits
    <3>3. CASE \E r \in Reads : Ask(r)
      BY <1>1, <3>1, <3>3 DEF Ask, answerVars
    <3>4. CASE UNCHANGED vars
      BY <1>1, <3>1, <3>4 DEF vars, answerVars
    <3>5. CASE Serve
      BY <1>1, <3>5 DEF Serve, CheckList, LoadCatalog, FindKey, Answer, ReadLastChange, Select, LoadRows, LoadValues,
                        ReadLog, Fetch
    <3> QED
      BY <3>2, <3>3, <3>4, <3>5 DEF Next
  <2>2. ASSUME pc' # "idle", Keyed(req') PROVE DOMAIN req'.keys \subseteq Nat \ {0}
    <3>1. Places'
      BY PlacesStep
    <3>2. req' \in Reads
      BY <2>2, <3>1 DEF Places
    <3> QED
      BY <2>2, <3>2, AskedParts
  <2>3. \A i \in Nat \ {0} : ~(i < 1)
    OBVIOUS
  <2> QED
    BY <2>1, <2>2, <2>3 DEF Missed, Looking, Keyed
<1>2. CASE pc # "idle"
  <2>1. req' = req /\ req \in Reads /\ \A x, k : Throughout(x, k)' => Throughout(x, k) /\ Qualifies(req, Db.t, x, k)
    BY <1>2, MomentsLast, ThroughoutBefore DEF Places
  <2>2. Db.t \in Tables /\ Sane(Db.t)
    BY Now, StoredChanges DEF PastOK, Db
  <2>3. ASSUME UNCHANGED <<pc, at, found, rows, shown, file>> PROVE Missed'
    <3>1. /\ Sought' = Sought /\ Looking' = Looking
          /\ \A s : LineOf(s)' = LineOf(s) /\ (IsBlank(s)' <=> IsBlank(s))
      BY <2>1, <2>3, LinesLast DEF Sought, Looking, KeyValue, Keyed
    <3>2. Looking => \A x \in ContactIds : Throughout(x, Sought)' => x \in DOMAIN found
      BY <2>1, <3>1 DEF Missed
    <3>3. pc = "values" => \A x \in ContactIds : Throughout(x, Sought)' => x \in rows
      BY <2>1, <3>1 DEF Missed
    <3>4. pc \notin {"idle", "failed"} /\ Keyed(req) =>
            \A i \in DOMAIN req.keys : i < at =>
              \A x \in ContactIds : Throughout(x, req.keys[i])' => Answered(x, req.keys[i])'
      <4>1. SUFFICES ASSUME pc \notin {"idle", "failed"}, Keyed(req), NEW i \in DOMAIN req.keys, i < at,
                            NEW x \in ContactIds, Throughout(x, req.keys[i])'
                     PROVE  Answered(x, req.keys[i])'
        OBVIOUS
      <4>2. Throughout(x, req.keys[i])
        BY <2>1, <4>1
      <4> QED
        BY <2>3, <4>1, <4>2, KeysLast
    <3>5. pc \in {"log", "file", "ok"} /\ ~Keyed(req) =>
            \A x \in ContactIds : Throughout(x, NoRead)' => \E s \in shown : s.contact = x
      BY <2>1 DEF Missed
    <3> QED
      BY <2>1, <2>3, <3>1, <3>2, <3>3, <3>4, <3>5 DEF Missed, Keyed
  <2>4. CASE Write \/ UNCHANGED vars
    BY <2>3, <2>4, WriteCommits DEF vars, answerVars
  <2>5. CASE CheckList \/ LoadCatalog
    <3>1. pc' \in {"catalog", "find", "failed"} /\ UNCHANGED <<at, shown, file>> /\ pc \notin {"idle", "failed"}
      BY <2>5 DEF CheckList, LoadCatalog, answerVars
    <3>2. Keyed(req) => \A i \in DOMAIN req.keys : i < at => \A x \in ContactIds :
            Throughout(x, req.keys[i])' => Answered(x, req.keys[i])'
      BY <2>1, <3>1, KeysLast
    <3> QED
      BY <2>1, <3>1, <3>2 DEF Missed, Looking, Keyed
  <2>6. CASE FindKey
    <3>1. pc = "find" /\ Keyed(req) /\ at <= Len(req.keys) /\ UNCHANGED <<rows, file>> /\ pc' \in {"find", "rows", "log"}
      BY <2>6 DEF FindKey, KeysLeft, NextKey
    <3>2. \A x : Qualifies(req, Db.t, x, KeyValue) => x \in Matches /\ Usable(Matches)
      BY <3>1, QualifiedIsUsable
    <3>3. CASE /\ pc' = "find" /\ at' = at + 1 /\ Usable(Matches) /\ req.op = "checkids"
               /\ shown' = shown \cup {[key |-> KeyValue, ids |-> Matches]}
      <4>1. ASSUME NEW x, NEW k, k = KeyValue, Qualifies(req, Db.t, x, k) PROVE Answered(x, k)'
        <5>1. PICK s \in shown' : s = [key |-> KeyValue, ids |-> Matches]
          BY <3>3
        <5>2. s.key = k /\ x \in s.ids
          BY <3>2, <4>1, <5>1
        <5> QED
          BY <2>1, <3>3, <5>2 DEF Answered
      <4> QED
        BY <3>1, <3>3, <4>1, NextKeyMisses
    <3>4. CASE pc' = "find" /\ at' = at + 1 /\ ~Usable(Matches) /\ shown' = shown
      BY <3>1, <3>2, <3>4, NextKeyMisses
    <3>5. CASE pc' # "find" /\ Usable(Matches) /\ req.op # "checkids" /\ found' = [x \in {Least(Matches)} |-> 0]
               /\ pc' \in {"rows", "log"} /\ at' = at /\ shown' = shown
      <4>1. DOMAIN found' = Matches /\ Sought' = KeyValue
        BY <2>1, <3>1, <3>5, UsableIs DEF Sought, KeyValue, Keyed
      <4>2. \A x \in ContactIds : Throughout(x, Sought)' => x \in DOMAIN found'
        BY <2>1, <3>2, <4>1
      <4>3. \A i \in DOMAIN req.keys : i < at => \A x \in ContactIds :
              Throughout(x, req.keys[i])' => Answered(x, req.keys[i])'
        BY <2>1, <3>1, <3>5, KeysLast
      <4> QED
        BY <2>1, <3>1, <3>5, <4>2, <4>3 DEF Missed, Keyed
    <3> QED
      BY <2>6, <3>3, <3>4, <3>5 DEF FindKey, NextKey
  <2>7. CASE Answer
    <3>1. pc' = "ok" /\ pc = "find" /\ Keyed(req) /\ UNCHANGED <<at, shown, file>>
      BY <2>7 DEF Answer, answerVars
    <3>2. \A i \in DOMAIN req.keys : i < at => \A x \in ContactIds :
            Throughout(x, req.keys[i])' => Answered(x, req.keys[i])'
      BY <2>1, <3>1, KeysLast
    <3>3. req.op \notin Exports
      BY <2>1, <3>1, AskedParts
    <3> QED
      BY <2>1, <3>1, <3>2, <3>3 DEF Missed, Looking, Keyed, Exports
  <2>8. CASE ReadLastChange
    <3> DEFINE said == {[key |-> KeyValue, change |-> h] :
               h \in {h \in Db.t.hist : h.contact \in DOMAIN found /\ h.field \in req.fields /\ IsLastChange(Db.t, h)}}
    <3>1. /\ pc = "log" /\ req.op = "last_change" /\ pc' = "find" /\ at' = at + 1 /\ file' = file /\ past' = past
          /\ shown' = shown \cup said
      BY <2>8 DEF ReadLastChange, NextKey
    <3>2. Keyed(req) /\ at <= Len(req.keys) /\ Sought = KeyValue
      BY <3>1 DEF Keyed, Places, Sought
    <3>3. ASSUME NEW x \in ContactIds, NEW k, k = KeyValue, Throughout(x, k) PROVE Answered(x, k)'
      <4>1. x \in DOMAIN found
        BY <3>1, <3>2, <3>3 DEF Missed, Looking
      <4>2. CASE \A h \in Db.t.hist : h.contact = x => h.field \notin req.fields
        <5>1. Len(past') \in During' /\ past'[Len(past')].t = Db.t
          <6>1. Len(past) \in During
            BY Now
          <6> QED
            BY <1>2, <3>1, <6>1, MomentsLast DEF Db
        <5> QED
          BY <2>1, <3>1, <4>2, <5>1 DEF Answered
      <4>3. CASE \E h \in Db.t.hist : h.contact = x /\ h.field \in req.fields
        <5>1. PICK h \in Db.t.hist : h.contact = x /\ h.field \in req.fields
          BY <4>3
        <5>2. PICK e \in Changes(Db.t, h.contact, h.field) : IsLastChange(Db.t, e)
          BY <2>2, SomeLastChange
        <5>3. e \in Db.t.hist /\ e.contact = x /\ e.field \in req.fields
          BY <5>1 DEF Changes
        <5>4. [key |-> KeyValue, change |-> e] \in said
          BY <4>1, <5>2, <5>3
        <5>5. PICK s \in shown' : s = [key |-> KeyValue, change |-> e]
          BY <3>1, <5>4
        <5>6. s.key = k /\ s.change.contact = x
          BY <3>3, <5>3, <5>5
        <5> QED
          BY <2>1, <3>1, <5>6 DEF Answered
      <4> QED
        BY <4>2, <4>3
    <3> HIDE DEF said
    <3> QED
      BY <3>1, <3>2, <3>3, NextKeyMisses
  <2>9. CASE Select
    <3>1. /\ pc = "find" /\ ~Keyed(req) /\ found' = Selected(Db.t, req) /\ UNCHANGED <<shown, file>>
          /\ pc' = "rows" \/ (pc' \in {"failed", "file", "ok"} /\ DOMAIN found' = {})
          /\ (pc' = "ok" => req.op \notin Exports)
      BY <2>9 DEF Select, answerVars
    <3>2. \A x \in ContactIds : \A k : Qualifies(req, Db.t, x, k) => x \in DOMAIN found'
      BY <2>1, <2>2, <3>1, SelectedIs
    <3>3. \A x \in ContactIds : \A k : Throughout(x, k)' => x \in DOMAIN found'
      BY <2>1, <3>2
    <3>4. shown' = {}
      BY <3>1 DEF Places
    <3> QED
      BY <2>1, <3>1, <3>3, <3>4 DEF Missed, Looking, Keyed
  <2>10. CASE LoadRows
    <3>1. /\ pc = "rows" /\ pc' = "values" /\ rows' = DOMAIN found \cap Db.t.live
          /\ UNCHANGED <<at, found, shown, file>>
      BY <2>10 DEF LoadRows, answerVars
    <3>2. Sought' = Sought
      BY <2>1, <3>1 DEF Sought, KeyValue, Keyed
    <3>3. \A x \in ContactIds : Throughout(x, Sought)' => x \in DOMAIN found /\ x \in Db.t.live
      BY <2>1, <2>2, <3>1, <3>2, QualifiesLive DEF Missed, Looking
    <3>4. Keyed(req) => \A i \in DOMAIN req.keys : i < at => \A x \in ContactIds :
            Throughout(x, req.keys[i])' => Answered(x, req.keys[i])'
      BY <2>1, <3>1, KeysLast
    <3> QED
      BY <2>1, <3>1, <3>3, <3>4 DEF Missed, Keyed
  <2>11. CASE LoadValues
    <3>1. pc = "values" /\ file' = file
      BY <2>11, LoadValuesIs
    <3>2. \A x \in ContactIds : Throughout(x, Sought) => x \in Kept
      BY <3>1 DEF Missed, Looking, Kept
    <3>3. CASE req.op = "getdata"
      <4>1. /\ pc' = "find" /\ at' = at + 1 /\ shown' = shown \cup {[key |-> KeyValue, row |-> v] : v \in Valued}
            /\ Keyed(req) /\ Sought = KeyValue /\ at <= Len(req.keys)
        BY <2>11, <3>1, <3>3, LoadValuesIs DEF Sought, Keyed, Places
      <4>2. ASSUME NEW x \in ContactIds, NEW k, k = KeyValue, Throughout(x, k) PROVE Answered(x, k)'
        <5>1. RowOf(x) \in Valued /\ RowOf(x).contact = x
          BY <3>2, <4>1, <4>2, ValuedIs
        <5>2. PICK v \in Valued : v = RowOf(x)
          BY <5>1
        <5>3. PICK s \in shown' : s = [key |-> KeyValue, row |-> v]
          BY <4>1
        <5>4. s.key = k /\ s.row.contact = x
          BY <4>2, <5>1, <5>2, <5>3
        <5> QED
          BY <2>1, <3>3, <5>4 DEF Answered
      <4> QED
        BY <3>1, <4>1, <4>2, NextKeyMisses
    <3>4. CASE req.op # "getdata"
      <4>1. /\ ~Keyed(req) /\ Sought = NoRead /\ shown' = Valued
            /\ pc' = IF req.op = "page" THEN "log" ELSE IF req.op \in Exports THEN "file" ELSE "ok"
        BY <2>11, <3>1, <3>4, LoadValuesIs DEF Places, Sought
      <4>2. \A x \in ContactIds : Throughout(x, NoRead)' => \E s \in shown' : s.contact = x
        BY <2>1, <3>2, <4>1, ValuedIs
      <4>3. pc' = "file" => \A s \in shown' : LineOf(s)' \in Nat
        <5>1. Places'
          BY PlacesStep
        <5>2. (IsFiniteSet(shown) => /\ HeaderLines \in {0, 1} /\ Cardinality(shown) \in Nat
                                    /\ \A s : LineOf(s) \in 0..(HeaderLines + Cardinality(shown)))'
          BY LineNumbers, PTL
        <5> QED
          BY <5>1, <5>2 DEF Places
      <4>4. pc' = "file" => file'.lines = 0
        BY <3>1 DEF Places
      <4>5. pc' = "file" => \A s \in shown' : ~(LineOf(s)' < file'.lines)
        BY <4>3, <4>4
      <4>6. pc' # "ok" \/ req.op \notin Exports
        BY <4>1
      <4>7. ~Looking' /\ pc' # "values"
        BY <2>1, <4>1 DEF Looking
      <4> QED
        BY <2>1, <4>1, <4>2, <4>5, <4>6, <4>7 DEF Missed, Keyed
    <3> QED
      BY <3>3, <3>4
  <2>12. CASE ReadLog
    <3>1. pc = "log" /\ pc' = "ok" /\ req.op = "page" /\ shown' = shown
      BY <2>12 DEF ReadLog
    <3>2. ~Keyed(req) /\ req.op \notin Exports
      BY <3>1 DEF Keyed, Exports
    <3>3. \A x \in ContactIds : Throughout(x, NoRead)' => \E s \in shown' : s.contact = x
      BY <2>1, <3>1, <3>2 DEF Missed
    <3> QED
      BY <2>1, <3>1, <3>2, <3>3 DEF Missed, Looking, Keyed
  <2>13. CASE Fetch
    <3>1. pc = "file" /\ pc' \in {"file", "ok"} /\ shown' = shown
      BY <2>13 DEF Fetch
    <3>2. ~Keyed(req)
      BY <2>1, <3>1, AskedParts DEF Places
    <3>3. \A x \in ContactIds : Throughout(x, NoRead)' => \E s \in shown' : s.contact = x
      BY <2>1, <3>1, <3>2 DEF Missed
    <3> QED
      BY <2>1, <2>13, <3>1, <3>2, <3>3, FetchMisses DEF Missed, Looking, Keyed
  <2>14. CASE \E r \in Reads : Ask(r)
    BY <1>2, <2>14 DEF Ask
  <2> QED
    BY <2>4, <2>5, <2>6, <2>7, <2>8, <2>9, <2>10, <2>11, <2>12, <2>13, <2>14 DEF Next, Serve
<1> QED
  BY <1>1, <1>2

-----------------------------------------------------------------------------
(* The theorems *)

\* What holds in every state of a request and its writers.
ReadsInv == PastTyped /\ PastOK /\ Shape /\ Places /\ Told /\ PageRows /\ PageIsExplained /\ Missed

\* Nothing has been asked, found or shown at first.
LEMMA ReadsInit == Init => ReadsInv
<1> SUFFICES ASSUME Init PROVE ReadsInv
  OBVIOUS
<1>1. PastTyped /\ PastOK
  BY PastInit
<1>2. pc = "idle" /\ req = NoRead /\ at = 1 /\ rows = {} /\ shown = {} /\ errors = {} /\ log = {}
      /\ file = [lines |-> 0, rows |-> {}] /\ DOMAIN found = {}
  BY DEF Init
<1>3. Shape /\ Places
  BY <1>2 DEF Shape, Places, Resting
<1>4. Told /\ PageRows /\ PageIsExplained /\ Missed
  BY <1>2 DEF Told, Looking, PageRows, PageIsExplained, Missed
<1> QED
  BY <1>1, <1>3, <1>4 DEF ReadsInv

\* Every commit and every step of the request keeps all of it.
LEMMA ReadsStep == ReadsInv /\ [Next]_vars => ReadsInv'
<1> SUFFICES ASSUME ReadsInv, [Next]_vars PROVE ReadsInv'
  OBVIOUS
<1> USE DEF ReadsInv
<1>1. PastTyped' /\ PastOK'
  BY PastStep
<1>2. Shape' /\ Places'
  BY PlacesStep
<1>3. Told'
  BY ToldStep
<1>4. PageRows' /\ PageIsExplained'
  BY PageRowsStep, PageIsExplainedStep
<1>5. Missed'
  BY MissedStep
<1> QED
  BY <1>1, <1>2, <1>3, <1>4, <1>5

\* So it holds of every behaviour.
LEMMA ReadsIsInvariant == Spec => []ReadsInv
BY ReadsInit, ReadsStep, PTL DEF Spec

\* The invariant has no database, position or row that is none.
THEOREM ReadsTypeCorrect == Spec => []TypeOK
<1>1. ReadsInv => TypeOK
  BY TypeParts DEF ReadsInv
<1> QED
  BY <1>1, ReadsIsInvariant, PTL

\* Every row, id, change, error and page is one that some moment, or two, of the
\* request explain, whatever is committed between its statements.
THEOREM ReadersAreToldTheTruth == Spec => []ShownWasStored
<1>1. ReadsInv => ShownWasStored
  BY TruthParts DEF ReadsInv, Told, ShownWasStored
<1> QED
  BY <1>1, ReadsIsInvariant, PTL

\* A contact that qualifies in every database the request could see is answered,
\* and its row is among those of a file fetched in pages of two lines or more,
\* unless the row is one cell without a text.
THEOREM ReadersMissNobody == Spec => []NobodyIsMissed
<1>1. ReadsInv => NobodyIsMissed
  <2> SUFFICES ASSUME ReadsInv, pc = "ok", NEW x \in ContactIds,
                      NEW k \in (IF Keyed(req) THEN {req.keys[i] : i \in DOMAIN req.keys} ELSE {NoRead}),
                      \A i \in During : Qualifies(req, past[i].t, x, k)
               PROVE  Answered(x, k)
    BY DEF NobodyIsMissed
  <2>1. req \in Reads /\ Throughout(x, k)
    BY DEF ReadsInv, Places, Throughout
  <2>2. CASE Keyed(req)
    <3>1. PICK i \in DOMAIN req.keys : k = req.keys[i]
      BY <2>2
    <3>2. i < at
      <4>1. req.keys \in Seq(Values \cup ContactIds) /\ at \in Nat /\ at > Len(req.keys)
        BY <2>1, <2>2, AskedParts DEF ReadsInv, Places
      <4>2. i \in 1..Len(req.keys) /\ Len(req.keys) \in Nat
        BY <4>1
      <4> QED
        BY <4>1, <4>2
    <3> QED
      BY <2>1, <2>2, <3>1, <3>2 DEF ReadsInv, Missed
  <2>3. CASE ~Keyed(req)
    <3>1. k = NoRead
      BY <2>3
    <3>2. PICK s \in shown : s.contact = x
      BY <2>1, <2>3, <3>1 DEF ReadsInv, Missed
    <3>3. req.op \in Exports \/ req.op \in {"query", "search", "page"}
      BY <2>1, <2>3, AskedShape DEF Exports
    <3>4. req.op \in Exports => s \in file.rows \/ IsBlank(s)
      BY <3>2 DEF ReadsInv, Missed
    <3> QED
      BY <3>2, <3>3, <3>4 DEF Answered
  <2> QED
    BY <2>2, <2>3
<1> QED
  BY <1>1, ReadsIsInvariant, PTL
=============================================================================
