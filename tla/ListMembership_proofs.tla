------------------------ MODULE ListMembership_proofs ------------------------
(***************************************************************************)
(* What ListMembership guarantees for every set of clients, keys and       *)
(* requests and every bound.                                               *)
(***************************************************************************)
EXTENDS ListMembership, FiniteSetTheorems, WellFoundedInduction, TLAPS

-----------------------------------------------------------------------------
(* Typing *)

LEMMA TypeInit == Init => TypeOK
<1>1. NoGroup \in Groups
  BY MembershipAssumption DEF NoGroup, Groups, Kinds
<1>2. 0 \in 0..MaxContacts /\ 0 \in 0..MaxGroups /\ 0 \in 0..MaxCalls
  BY MembershipAssumption
<1>3. ASSUME Init
      PROVE  /\ keyOf \in [ContactIds -> Keys \cup {NoKey}] /\ lastGroup \in [Kinds -> 0..MaxGroups]
             /\ pc \in [Clients -> Steps \cup Resting]
             /\ request \in [Clients -> Requests \cup {NoRequest}] /\ target \in [Clients -> Groups]
  BY <1>1, <1>2, <1>3, Zenon DEF Init, Resting
<1>4. ASSUME Init
      PROVE  /\ left \in [Clients -> SUBSET Keys] /\ found \in [Clients -> SUBSET ContactIds]
             /\ seen \in [Clients -> SUBSET ContactIds] /\ offset \in [Clients -> Nat]
             /\ touched \in [Clients -> BOOLEAN] /\ owed \in [Clients -> SUBSET ContactIds]
  BY <1>4, SMT DEF Init
<1> QED
  BY <1>2, <1>3, <1>4 DEF Init, TypeOK

\* What is owed after a change of the memberships is a part of what was.
LEMMA OweIsTyped ==
  ASSUME TypeOK, NEW rows, OweAfter(rows)
  PROVE  owed' \in [Clients -> SUBSET ContactIds]
BY DEF OweAfter, TypeOK

LEMMA MembersAreContacts == \A rows, g : Members(rows, g) \subseteq ContactIds
BY DEF Members

LEMMA MatchingAreContacts ==
  ASSUME TypeOK
  PROVE  \A v : Matching(v) \subseteq contacts /\ Matching(v) \subseteq ContactIds
<1>1. contacts \subseteq ContactIds
  <2>1. 1..lastContact \subseteq 1..MaxContacts
    BY MembershipAssumption DEF TypeOK
  <2> QED
    BY <2>1 DEF TypeOK, ContactIds
<1> QED
  BY <1>1 DEF Matching

LEMMA TypeEnvironment == TypeOK /\ Environment => TypeOK'
<1> SUFFICES ASSUME TypeOK, Environment PROVE TypeOK'
  OBVIOUS
<1> USE MembershipAssumption
<1>1. ASSUME NEW k \in Keys, CreateContact(k) PROVE TypeOK'
  BY <1>1 DEF TypeOK, CreateContact, Fresh, ContactIds, requestVars, ghosts
<1>2. ASSUME NEW i \in ContactIds, NEW k \in Keys, EditKey(i, k) PROVE TypeOK'
  BY <1>2 DEF TypeOK, EditKey, requestVars, ghosts
<1>3. ASSUME NEW i \in ContactIds, DeleteContact(i) PROVE TypeOK'
  <2>1. owed' \in [Clients -> SUBSET ContactIds]
    BY <1>3, OweIsTyped DEF DeleteContact, Becomes
  <2> QED
    BY <1>3, <2>1 DEF TypeOK, DeleteContact, Becomes, MembershipsWithout, requestVars
<1>4. CASE Reset
  <2>1. owed' \in [Clients -> SUBSET ContactIds]
    BY <1>4, OweIsTyped DEF Reset, Becomes
  <2> QED
    BY <1>4, <2>1 DEF TypeOK, Reset, Becomes, requestVars, Kinds
<1> QED
  BY <1>1, <1>2, <1>3, <1>4 DEF Environment

LEMMA TypeCall == 
  ASSUME TypeOK, NEW c \in Clients, NEW r \in Requests, NEW g \in Groups, Call(c, r, g)
  PROVE  TypeOK'
<1>1. r \in Request
  BY MembershipAssumption
<1>2. First(r) \in Steps
  BY DEF First, Steps
<1>3. IF Reads(r) THEN Members(on, g) \subseteq ContactIds ELSE TRUE
  BY MembersAreContacts
<1> QED
  BY <1>1, <1>2, <1>3, MembershipAssumption DEF Call, TypeOK, GoTo, tables, Request

LEMMA TypeInsert ==
  ASSUME TypeOK, NEW c \in Clients, NEW k \in Kinds, NEW step \in Steps \cup Resting,
         Insert(c, k), GoTo(c, step)
  PROVE  TypeOK'
<1> DEFINE id == Fresh(lastGroup[k], {g[2] : g \in {h \in groups : h[1] = k}})
<1>1. id = lastGroup[k] + 1 /\ id \in 1..MaxGroups
  BY MembershipAssumption DEF Insert, Fresh, TypeOK
<1> HIDE DEF id
<1>2. /\ groups' = groups \cup {<<k, id>>} /\ lastGroup' = [lastGroup EXCEPT ![k] = id]
      /\ target' = [target EXCEPT ![c] = <<k, id>>]
      /\ UNCHANGED <<contacts, keyOf, lastContact, on, request, left, found, offset, seen, ghosts>>
  BY DEF Insert, id
<1>3. <<k, id>> \in Groups
  BY <1>1 DEF Groups
<1>4. lastGroup' \in [Kinds -> 0..MaxGroups]
  BY <1>1, <1>2 DEF TypeOK
<1>5. groups' \subseteq Groups /\ \A g \in groups' : g[2] <= lastGroup'[g[1]]
  <2>1. \A g \in groups : g[2] <= lastGroup'[g[1]]
    BY <1>1, <1>2 DEF TypeOK, Groups
  <2> QED
    BY <1>1, <1>2, <1>3, <2>1 DEF TypeOK
<1> QED
  BY <1>2, <1>3, <1>4, <1>5 DEF TypeOK, GoTo, ghosts

LEMMA TypeApply ==
  ASSUME TypeOK, NEW c \in Clients, NEW k \in Kinds, Apply(c, k)
  PROVE  TypeOK'
<1>1. Rows(target[c], found[c]) \subseteq Groups \X ContactIds
  BY DEF TypeOK, Rows
<1>2. PICK rows \in {Changed(Op(c), target[c], found[c]), on}, answer \in {"ok", "failed"} : Change(c, rows, answer)
  BY DEF Apply, RolledBack
<1>3. rows \subseteq Groups \X ContactIds
  BY <1>1 DEF Changed, TypeOK
<1>4. owed' \in [Clients -> SUBSET ContactIds] /\ on' = rows
  BY <1>2, OweIsTyped DEF Change, Becomes
<1>5. touched' \in [Clients -> BOOLEAN]
  BY <1>2 DEF Change, TypeOK
<1>6. pc' \in [Clients -> Steps \cup Resting]
  BY <1>2 DEF Change, TypeOK, GoTo, Resting
<1> QED
  BY <1>3, <1>4, <1>5, <1>6 DEF Apply, TypeOK

LEMMA TypeShow ==
  ASSUME TypeOK, NEW c \in Clients, NEW page, NEW shown \in SUBSET ContactIds, Show(c, page, shown)
  PROVE  /\ pc' \in [Clients -> Steps \cup Resting] /\ offset' \in [Clients -> Nat]
         /\ seen' \in [Clients -> SUBSET ContactIds]
BY MembershipAssumption DEF Show, TypeOK, GoTo, Steps, Resting

LEMMA TypeServe ==
  ASSUME TypeOK, NEW c \in Clients, Serve(c)
  PROVE  TypeOK'
<1>1. CASE LookUp(c)
  <2>1. PICK step \in Steps \cup Resting : GoTo(c, step)
    <3>1. AfterLookUp(Op(c)) \in Steps
      BY DEF AfterLookUp, Steps
    <3> QED
      BY <1>1, <3>1 DEF LookUp, Resting
  <2> QED
    BY <1>1, <2>1 DEF LookUp, TypeOK, GoTo, tables, ghosts
<1>2. CASE ResolveValue(c)
  <2>1. PICK v \in left[c], ids \in SUBSET ContactIds :
          /\ left' = [left EXCEPT ![c] = left[c] \ {v}] /\ found' = [found EXCEPT ![c] = found[c] \cup ids]
          /\ Asks(c, ids)
    BY <1>2, MatchingAreContacts DEF ResolveValue
  <2>2. named' \subseteq Groups \X ContactIds
    BY <2>1 DEF Asks, TypeOK, Rows
  <2> QED
    BY <1>2, <2>1, <2>2 DEF ResolveValue, TypeOK, tables
<1>3. CASE ResolveRef(c)
  <2>1. PICK v \in left[c] :
          /\ left' = [left EXCEPT ![c] = {}]
          /\ \/ Matching(v) = {} /\ GoTo(c, "failed") /\ UNCHANGED <<found, named>>
             \/ \E i \in Matching(v) : found' = [found EXCEPT ![c] = {i}] /\ Asks(c, {i}) /\ UNCHANGED pc
    BY <1>3 DEF ResolveRef
  <2>2. named' \subseteq Groups \X ContactIds /\ found' \in [Clients -> SUBSET ContactIds]
    BY <2>1, MatchingAreContacts DEF Asks, TypeOK, Rows
  <2>3. pc' \in [Clients -> Steps \cup Resting]
    BY <2>1 DEF TypeOK, GoTo, Resting
  <2> QED
    BY <1>3, <2>1, <2>2, <2>3 DEF ResolveRef, TypeOK, tables
<1>4. CASE RefuseKey(c)
  BY <1>4 DEF RefuseKey, TypeOK, GoTo, Resting, tables, ghosts
<1>5. CASE CreateList(c) \/ CreateSegment(c)
  BY <1>5, TypeInsert DEF CreateList, CreateSegment, Kinds, Steps, Resting
<1>6. CASE ChangeMembership(c) \/ SetSegmentMember(c)
  BY <1>6, TypeApply DEF ChangeMembership, SetSegmentMember, Kinds
<1>7. CASE RenameList(c)
  BY <1>7 DEF RenameList, TypeOK, GoTo, Resting, tables, ghosts
<1>8. CASE DeleteList(c) \/ DeleteSegment(c)
  <2>1. PICK k \in Kinds : Delete(c, k)
    BY <1>8 DEF DeleteList, DeleteSegment, Kinds
  <2>2. owed' \in [Clients -> SUBSET ContactIds] /\ on' \subseteq on
    BY <2>1, OweIsTyped DEF Delete, Becomes
  <2> QED
    BY <2>1, <2>2 DEF Delete, TypeOK, GoTo, Resting
<1>9. CASE ReadPage(c)
  <2>1. Page(Members(on, target[c]), offset[c], PageSize) \subseteq ContactIds
    BY MembersAreContacts DEF Page
  <2> QED
    BY <1>9, <2>1, TypeShow DEF ReadPage, TypeOK, GoTo, Steps, tables, ghosts
<1>10. CASE LoadData(c)
  <2>1. found[c] \cap contacts \subseteq ContactIds
    BY DEF TypeOK
  <2> QED
    BY <1>10, <2>1, TypeShow DEF LoadData, TypeOK, tables, ghosts
<1>11. CASE ReadSegment(c)
  BY <1>11, MembersAreContacts DEF ReadSegment, TypeOK, GoTo, Resting, tables, ghosts
<1>12. CASE Abandon(c)
  BY <1>12 DEF Abandon, TypeOK, GoTo, Resting, tables, ghosts
<1> QED
  BY <1>1, <1>2, <1>3, <1>4, <1>5, <1>6, <1>7, <1>8, <1>9, <1>10, <1>11, <1>12 DEF Serve

LEMMA TypeStutter == TypeOK /\ UNCHANGED vars => TypeOK'
BY DEF TypeOK, vars, tables, requestVars, ghosts

\* Tables, requests and histories stay well typed, ids below their counters.
THEOREM TypeCorrect == Spec => []TypeOK
<1>1. TypeOK /\ [Next]_vars => TypeOK'
  BY TypeEnvironment, TypeCall, TypeServe, TypeStutter DEF Next
<1> QED
  BY <1>1, TypeInit, PTL DEF Spec

-----------------------------------------------------------------------------
(* Integrity *)

\* A request resolves contacts only for a change, starts without any, and has
\* changed nothing while it runs.
ProgressOf(c) ==
  /\ At(c, "resolve") => Op(c) \in {"create", "add", "remove", "replace"}
  /\ (At(c, "insert") => Op(c) = "create") /\ (At(c, "load") => Op(c) = "data")
  /\ pc[c] \in {"insert", "lookup", "page"} /\ Op(c) # "data" => found[c] = {}
  /\ pc[c] \in Steps \cup {"failed"} => ~touched[c]
Progress == \A c \in Clients : ProgressOf(c)

\* Why an id that was found may be inserted: it is still the contact that was
\* asked for, or it, or the group, is gone for good.
GoneContact(i) == i \notin contacts /\ i <= lastContact
GoneGroup(g) == g \notin groups /\ g[2] <= lastGroup[g[1]]
FoundIsNamed(c) ==
  At(c, "resolve") /\ Adds(c) =>
    \A i \in found[c] : <<target[c], i>> \in named \/ GoneContact(i) \/ GoneGroup(target[c])
Named == ~wiped => on \subseteq named /\ \A c \in Clients : FoundIsNamed(c)

Integrity == TypeOK /\ Progress /\ MembersExist /\ Named

LEMMA OthersAreKept ==
  ASSUME TypeOK, NEW c \in Clients, NEW d \in Clients \ {c},
         Serve(c) \/ \E r \in Requests, g \in Groups : Call(c, r, g)
  PROVE  /\ pc'[d] = pc[d] /\ request'[d] = request[d] /\ target'[d] = target[d]
         /\ found'[d] = found[d] /\ touched'[d] = touched[d]
<1>1. CASE \E r \in Requests, g \in Groups : Call(c, r, g)
  BY <1>1 DEF Call, TypeOK, GoTo
<1>2. CASE LookUp(c) \/ RefuseKey(c) \/ RenameList(c) \/ Abandon(c)
  BY <1>2 DEF LookUp, RefuseKey, RenameList, Abandon, GoTo, TypeOK, ghosts
<1>3. CASE ResolveValue(c) \/ ResolveRef(c)
  BY <1>3 DEF ResolveValue, ResolveRef, GoTo, TypeOK
<1>4. CASE CreateList(c) \/ CreateSegment(c)
  BY <1>4 DEF CreateList, CreateSegment, Insert, GoTo, TypeOK, ghosts
<1>5. CASE ChangeMembership(c) \/ SetSegmentMember(c)
  BY <1>5 DEF ChangeMembership, SetSegmentMember, Apply, Change, GoTo, TypeOK
<1>6. CASE DeleteList(c) \/ DeleteSegment(c)
  BY <1>6 DEF DeleteList, DeleteSegment, Delete, GoTo, TypeOK
<1>7. CASE ReadPage(c) \/ ReadSegment(c) \/ LoadData(c)
  BY <1>7 DEF ReadPage, ReadSegment, LoadData, Show, GoTo, TypeOK, ghosts
<1> QED
  BY <1>1, <1>2, <1>3, <1>4, <1>5, <1>6, <1>7 DEF Serve

LEMMA ProgressCall ==
  ASSUME TypeOK, NEW c \in Clients, NEW r \in Requests, NEW g \in Groups, Call(c, r, g)
  PROVE  ProgressOf(c)'
<1>1. r \in Request /\ (r.via = "admin" => r.op \in {"create", "add", "remove", "delete"})
  BY MembershipAssumption
<1>2. /\ pc'[c] = First(r) /\ request'[c] = r /\ found'[c] = {} /\ touched'[c] = FALSE
  BY DEF Call, TypeOK, GoTo
<1>3. First(r) = "resolve" => r.op \in {"create", "add", "remove", "replace"}
  BY <1>1 DEF First, Request
<1>4. First(r) # "load"
  BY DEF First
<1>5. First(r) = "insert" => r.op = "create"
  BY <1>1 DEF First, Request
<1> QED
  BY <1>2, <1>3, <1>4, <1>5 DEF ProgressOf, At, Op

LEMMA ProgressServe ==
  ASSUME TypeOK, NEW c \in Clients, ProgressOf(c), Serve(c)
  PROVE  ProgressOf(c)'
<1> USE DEF ProgressOf, At, Op
<1>1. CASE LookUp(c)
  <2>1. request[c].op \in Ops
    BY MembershipAssumption DEF TypeOK, Request, NoRequest, Ops
  <2>2. /\ AfterLookUp(request[c].op) = "resolve" => Op(c) \in {"create", "add", "remove", "replace"}
        /\ AfterLookUp(request[c].op) \notin {"load", "insert"}
    BY <2>1 DEF AfterLookUp, Ops
  <2> QED
    BY <1>1, <2>2 DEF LookUp, GoTo, TypeOK, ghosts, Steps
<1>2. CASE ResolveValue(c) \/ ResolveRef(c)
  BY <1>2 DEF ResolveValue, ResolveRef, GoTo, TypeOK, Steps
<1>3. CASE RefuseKey(c) \/ RenameList(c) \/ Abandon(c)
  BY <1>3 DEF RefuseKey, RenameList, Abandon, GoTo, TypeOK, ghosts, Steps
<1>4. CASE CreateList(c) \/ CreateSegment(c)
  BY <1>4 DEF CreateList, CreateSegment, Insert, GoTo, TypeOK, ghosts, Steps
<1>5. CASE ChangeMembership(c) \/ SetSegmentMember(c)
  <2>1. pc'[c] \in {"ok", "failed"} /\ (pc'[c] = "failed" => touched'[c] = touched[c])
    BY <1>5 DEF ChangeMembership, SetSegmentMember, Apply, Change, RolledBack, Becomes, GoTo, TypeOK
  <2> QED
    BY <1>5, <2>1 DEF ChangeMembership, SetSegmentMember, Apply, Steps
<1>6. CASE DeleteList(c) \/ DeleteSegment(c)
  BY <1>6 DEF DeleteList, DeleteSegment, Delete, GoTo, TypeOK, Steps
<1>7. CASE ReadPage(c) \/ ReadSegment(c) \/ LoadData(c)
  BY <1>7 DEF ReadPage, ReadSegment, LoadData, Show, GoTo, TypeOK, ghosts, Steps
<1> QED
  BY <1>1, <1>2, <1>3, <1>4, <1>5, <1>6, <1>7 DEF Serve

LEMMA ProgressNext == TypeOK /\ Progress /\ [Next]_vars => Progress'
<1> SUFFICES ASSUME TypeOK, Progress, [Next]_vars, NEW d \in Clients PROVE ProgressOf(d)'
  BY DEF Progress
<1>0. ProgressOf(d)
  BY DEF Progress
<1>1. ASSUME NEW c \in Clients, Serve(c) \/ \E r \in Requests, g \in Groups : Call(c, r, g)
      PROVE  ProgressOf(d)'
  <2>1. CASE d = c
    BY <1>0, <1>1, <2>1, ProgressServe, ProgressCall
  <2>2. CASE d # c
    BY <1>0, <1>1, <2>2, OthersAreKept DEF ProgressOf, At, Op
  <2> QED
    BY <2>1, <2>2
<1>2. CASE Environment
  BY <1>0, <1>2 DEF Environment, CreateContact, EditKey, DeleteContact, Reset, requestVars, ghosts, ProgressOf, At, Op
<1>3. CASE UNCHANGED vars
  BY <1>0, <1>3 DEF vars, requestVars, ghosts, ProgressOf, At, Op
<1> QED
  BY <1>1, <1>2, <1>3 DEF Next

LEMMA MembersExistNext == TypeOK /\ Progress /\ MembersExist /\ [Next]_vars => MembersExist'
<1> SUFFICES ASSUME TypeOK, Progress, MembersExist, [Next]_vars PROVE MembersExist'
  OBVIOUS
<1>1. CASE Environment
  <2>1. CASE \E k \in Keys : CreateContact(k)
    BY <2>1 DEF CreateContact, MembersExist
  <2>2. CASE \E i \in ContactIds, k \in Keys : EditKey(i, k)
    BY <2>2 DEF EditKey, MembersExist
  <2>3. CASE \E i \in ContactIds : DeleteContact(i)
    BY <2>3 DEF DeleteContact, Becomes, MembershipsWithout, MembersExist
  <2>4. CASE Reset
    BY <2>4 DEF Reset, Becomes, MembersExist
  <2> QED
    BY <1>1, <2>1, <2>2, <2>3, <2>4 DEF Environment
<1>2. ASSUME NEW c \in Clients, NEW k \in Kinds, Apply(c, k) PROVE MembersExist'
  <2>1. Op(c) \in {"create", "add", "remove", "replace"}
    BY <1>2 DEF Progress, ProgressOf, Apply
  <2>2. CASE Adds(c) => Insertable(target[c], found[c])
    <3>1. Adds(c) => Rows(target[c], found[c]) \subseteq groups \X contacts
      BY <2>2 DEF Insertable, Rows
    <3>2. on' = Changed(Op(c), target[c], found[c])
      BY <1>2, <2>2 DEF Apply, Change, Becomes
    <3>3. Changed(Op(c), target[c], found[c]) \subseteq groups \X contacts
      BY <2>1, <3>1 DEF Changed, Adds, MembersExist
    <3> QED
      BY <1>2, <3>2, <3>3 DEF Apply, MembersExist
  <2>3. CASE ~(Adds(c) => Insertable(target[c], found[c]))
    BY <1>2, <2>3 DEF Apply, Change, RolledBack, Becomes, MembersExist
  <2> QED
    BY <2>2, <2>3
<1>3. ASSUME NEW c \in Clients, NEW k \in Kinds, Delete(c, k) PROVE MembersExist'
  BY <1>3 DEF Delete, Becomes, MembersExist
<1>4. ASSUME NEW c \in Clients, NEW k \in Kinds, Insert(c, k) PROVE MembersExist'
  BY <1>4 DEF Insert, MembersExist
<1>6. ASSUME NEW c \in Clients, NEW r \in Requests, NEW g \in Groups, Call(c, r, g) PROVE MembersExist'
  BY <1>6 DEF Call, tables, MembersExist
<1>7. ASSUME NEW c \in Clients, Serve(c) PROVE MembersExist'
  <2>1. CASE ChangeMembership(c) \/ SetSegmentMember(c)
    BY <1>2, <2>1 DEF ChangeMembership, SetSegmentMember, Kinds
  <2>2. CASE CreateList(c) \/ CreateSegment(c)
    BY <1>4, <2>2 DEF CreateList, CreateSegment, Kinds
  <2>3. CASE DeleteList(c) \/ DeleteSegment(c)
    BY <1>3, <2>3 DEF DeleteList, DeleteSegment, Kinds
  <2>4. CASE LookUp(c) \/ ResolveValue(c) \/ ResolveRef(c) \/ RefuseKey(c) \/ RenameList(c) \/ Abandon(c)
    BY <2>4 DEF LookUp, ResolveValue, ResolveRef, RefuseKey, RenameList, Abandon, tables, MembersExist
  <2>5. CASE ReadPage(c) \/ LoadData(c) \/ ReadSegment(c)
    BY <2>5 DEF ReadPage, LoadData, ReadSegment, tables, MembersExist
  <2> QED
    BY <1>7, <2>1, <2>2, <2>3, <2>4, <2>5 DEF Serve
<1>8. CASE UNCHANGED vars
  BY <1>8 DEF vars, tables, MembersExist
<1> QED
  BY <1>1, <1>6, <1>7, <1>8 DEF Next

\* A row of a request's own change is one that somebody named.
LEMMA NamedApply ==
  ASSUME TypeOK, Progress, Named, ~wiped, NEW c \in Clients, NEW k \in Kinds, Apply(c, k)
  PROVE  on' \subseteq named
<1>1. Op(c) \in {"create", "add", "remove", "replace"} /\ At(c, "resolve")
  BY DEF Progress, ProgressOf, Apply
<1>2. on \subseteq named /\ FoundIsNamed(c)
  BY DEF Named
<1>3. CASE Adds(c) => Insertable(target[c], found[c])
  <2>1. ASSUME Adds(c), NEW i \in found[c] PROVE <<target[c], i>> \in named
    BY <1>1, <1>2, <1>3, <2>1 DEF FoundIsNamed, Insertable, GoneContact, GoneGroup
  <2>2. Adds(c) => Rows(target[c], found[c]) \subseteq named
    BY <2>1 DEF Rows
  <2>3. on' = Changed(Op(c), target[c], found[c])
    BY <1>3 DEF Apply, Change, Becomes
  <2> QED
    BY <1>1, <1>2, <2>2, <2>3 DEF Changed, Adds
<1>4. CASE ~(Adds(c) => Insertable(target[c], found[c]))
  BY <1>2, <1>4 DEF Apply, Change, RolledBack, Becomes
<1> QED
  BY <1>3, <1>4

\* An id that is gone does not come back, and what was named stays named while
\* its contact and its group are there.
Persist ==
  /\ \A i \in ContactIds : GoneContact(i) => GoneContact(i)'
  /\ \A g \in Groups : GoneGroup(g) => GoneGroup(g)'
  /\ \A g \in Groups, i \in ContactIds :
       <<g, i>> \in named => <<g, i>> \in named' \/ GoneContact(i)' \/ GoneGroup(g)'

LEMMA PersistServe ==
  ASSUME TypeOK, NEW c \in Clients, Serve(c) PROVE Persist
<1>1. CASE LookUp(c) \/ RefuseKey(c) \/ RenameList(c) \/ Abandon(c)
  BY <1>1 DEF LookUp, RefuseKey, RenameList, Abandon, tables, ghosts, Persist, GoneContact, GoneGroup
<1>2. CASE ResolveValue(c)
  BY <1>2 DEF ResolveValue, Asks, tables, Persist, GoneContact, GoneGroup
<1>3. CASE ResolveRef(c)
  BY <1>3 DEF ResolveRef, Asks, tables, Persist, GoneContact, GoneGroup
<1>4. CASE CreateList(c) \/ CreateSegment(c)
  <2>1. PICK k \in Kinds : Insert(c, k)
    BY <1>4 DEF CreateList, CreateSegment, Kinds
  <2> DEFINE id == lastGroup[k] + 1
  <2>2. groups' = groups \cup {<<k, id>>} /\ lastGroup' = [lastGroup EXCEPT ![k] = id]
    BY <2>1 DEF Insert, Fresh
  <2>3. ASSUME NEW g \in Groups, GoneGroup(g) PROVE GoneGroup(g)'
    <3>1. lastGroup \in [Kinds -> Nat] /\ g[1] \in Kinds /\ g[2] \in Nat
      BY MembershipAssumption DEF TypeOK, Groups
    <3>2. g # <<k, id>> /\ g[2] <= lastGroup'[g[1]]
      BY <2>2, <2>3, <3>1 DEF GoneGroup
    <3> QED
      BY <2>2, <2>3, <3>2 DEF GoneGroup
  <2>4. UNCHANGED <<contacts, lastContact, named>>
    BY <2>1 DEF Insert, ghosts
  <2> QED
    BY <2>3, <2>4 DEF Persist, GoneContact
<1>5. CASE ChangeMembership(c) \/ SetSegmentMember(c)
  BY <1>5 DEF ChangeMembership, SetSegmentMember, Apply, Persist, GoneContact, GoneGroup
<1>6. CASE DeleteList(c) \/ DeleteSegment(c)
  <2>1. PICK k \in Kinds : Delete(c, k)
    BY <1>6 DEF DeleteList, DeleteSegment, Kinds
  <2>2. UNCHANGED <<contacts, lastContact, lastGroup, target>> /\ groups' = groups \ {target[c]}
    BY <2>1 DEF Delete
  <2>3. ASSUME NEW g \in groups, g = target[c] PROVE GoneGroup(g)'
    BY <2>2, <2>3 DEF GoneGroup, TypeOK
  <2>4. named' = {row \in named : row[1] # target[c] \/ target[c] \notin groups}
    BY <2>1 DEF Delete
  <2> QED
    BY <2>2, <2>3, <2>4 DEF Persist, GoneContact, GoneGroup
<1>7. CASE ReadPage(c) \/ LoadData(c) \/ ReadSegment(c)
  BY <1>7 DEF ReadPage, LoadData, ReadSegment, tables, ghosts, Persist, GoneContact, GoneGroup
<1> QED
  BY <1>1, <1>2, <1>3, <1>4, <1>5, <1>6, <1>7 DEF Serve

LEMMA PersistNext == TypeOK /\ [Next]_vars /\ ~wiped' => Persist
<1> SUFFICES ASSUME TypeOK, [Next]_vars, ~wiped' PROVE Persist
  OBVIOUS
<1>0. lastContact \in Nat /\ contacts \subseteq 1..lastContact
  BY MembershipAssumption DEF TypeOK
<1>1. CASE \E k \in Keys : CreateContact(k)
  <2>1. contacts' = contacts \cup {lastContact + 1} /\ lastContact' = lastContact + 1
        /\ UNCHANGED <<groups, lastGroup, named>>
    BY <1>1 DEF CreateContact, Fresh, ghosts
  <2>2. ASSUME NEW i \in ContactIds, GoneContact(i) PROVE GoneContact(i)'
    BY <1>0, <2>1, <2>2 DEF GoneContact, ContactIds
  <2> QED
    BY <2>1, <2>2 DEF Persist, GoneGroup
<1>2. CASE \E i \in ContactIds, k \in Keys : EditKey(i, k)
  BY <1>2 DEF EditKey, ghosts, Persist, GoneContact, GoneGroup
<1>3. ASSUME NEW i \in ContactIds, DeleteContact(i) PROVE Persist
  <2>1. GoneContact(i)'
    BY <1>0, <1>3 DEF DeleteContact, GoneContact
  <2>2. UNCHANGED <<lastContact, groups, lastGroup>> /\ contacts' = contacts \ {i}
        /\ named' = {row \in named : row[2] # i}
    BY <1>3 DEF DeleteContact
  <2> QED
    BY <2>1, <2>2 DEF Persist, GoneContact, GoneGroup
<1>4. ~Reset
  BY DEF Reset
<1>5. ASSUME NEW c \in Clients, NEW r \in Requests, NEW g \in Groups, Call(c, r, g) PROVE Persist
  BY <1>5 DEF Call, tables, Persist, GoneContact, GoneGroup
<1>6. CASE UNCHANGED vars
  BY <1>6 DEF vars, tables, ghosts, Persist, GoneContact, GoneGroup
<1> QED
  BY <1>1, <1>2, <1>3, <1>4, <1>5, <1>6, PersistServe DEF Next, Environment

LEMMA FoundIsKept ==
  ASSUME TypeOK, Persist, NEW d \in Clients, FoundIsNamed(d),
         pc'[d] = pc[d], request'[d] = request[d], target'[d] = target[d], found'[d] = found[d]
  PROVE  FoundIsNamed(d)'
<1>1. target[d] \in Groups /\ found[d] \subseteq ContactIds
  BY DEF TypeOK
<1> QED
  BY <1>1 DEF FoundIsNamed, At, Adds, Op, Persist

LEMMA FoundServe ==
  ASSUME TypeOK, NEW c \in Clients, ProgressOf(c), FoundIsNamed(c),
         Serve(c) \/ \E r \in Requests, g \in Groups : Call(c, r, g)
  PROVE  FoundIsNamed(c)'
<1>1. CASE \E r \in Requests, g \in Groups : Call(c, r, g)
  BY <1>1 DEF Call, TypeOK, FoundIsNamed
<1>2. CASE LookUp(c)
  <2>1. AfterLookUp("data") # "resolve"
    BY DEF AfterLookUp
  <2> QED
    BY <1>2, <2>1 DEF LookUp, GoTo, TypeOK, ProgressOf, At, Op, FoundIsNamed
<1>3. CASE ResolveValue(c)
  BY <1>3 DEF ResolveValue, Asks, Rows, tables, TypeOK, FoundIsNamed, At, Adds, Op, GoneContact, GoneGroup
<1>4. CASE ResolveRef(c)
  BY <1>4 DEF ResolveRef, Asks, Rows, GoTo, tables, TypeOK, FoundIsNamed, At, Adds, Op, GoneContact, GoneGroup
<1>5. CASE CreateList(c) \/ CreateSegment(c)
  <2>1. found[c] = {}
    BY <1>5 DEF CreateList, CreateSegment, Insert, ProgressOf, At, Op
  <2> QED
    BY <1>5, <2>1 DEF CreateList, CreateSegment, Insert, FoundIsNamed
<1>6. pc'[c] = "resolve" => LookUp(c) \/ ResolveValue(c) \/ ResolveRef(c) \/ CreateList(c) \/ CreateSegment(c)
                            \/ \E r \in Requests, g \in Groups : Call(c, r, g)
  <2>1. CASE RefuseKey(c) \/ RenameList(c) \/ Abandon(c)
    BY <2>1 DEF RefuseKey, RenameList, Abandon, GoTo, TypeOK
  <2>2. CASE ChangeMembership(c) \/ SetSegmentMember(c)
    BY <2>2 DEF ChangeMembership, SetSegmentMember, Apply, Change, GoTo, TypeOK
  <2>3. CASE DeleteList(c) \/ DeleteSegment(c)
    BY <2>3 DEF DeleteList, DeleteSegment, Delete, GoTo, TypeOK
  <2>4. CASE ReadPage(c) \/ ReadSegment(c) \/ LoadData(c)
    BY <2>4 DEF ReadPage, ReadSegment, LoadData, Show, GoTo, TypeOK
  <2> QED
    BY <2>1, <2>2, <2>3, <2>4 DEF Serve
<1> QED
  BY <1>1, <1>2, <1>3, <1>4, <1>5, <1>6 DEF FoundIsNamed, At

LEMMA NamedNext == TypeOK /\ Progress /\ Named /\ [Next]_vars => Named'
<1> SUFFICES ASSUME TypeOK, Progress, Named, [Next]_vars, ~wiped' PROVE Named'
  BY DEF Named
<1>1. ~wiped
  BY DEF Next, Environment, CreateContact, EditKey, DeleteContact, Reset, Call, Serve, LookUp, ResolveValue,
     ResolveRef, RefuseKey, CreateList, CreateSegment, Insert, ChangeMembership, SetSegmentMember, Apply,
     RenameList, DeleteList, DeleteSegment, Delete, ReadPage, ReadSegment, LoadData, Abandon, ghosts, vars
<1>2. on \subseteq named /\ \A c \in Clients : FoundIsNamed(c) /\ ProgressOf(c)
  BY <1>1 DEF Named, Progress
<1>3. Persist
  BY PersistNext
<1>4. ASSUME NEW c \in Clients, Serve(c) \/ \E r \in Requests, g \in Groups : Call(c, r, g), NEW d \in Clients
      PROVE  FoundIsNamed(d)'
  <2>1. CASE d = c
    BY <1>2, <1>4, <2>1, FoundServe
  <2>2. CASE d # c
    BY <1>2, <1>3, <1>4, <2>2, OthersAreKept, FoundIsKept
  <2> QED
    BY <2>1, <2>2
<1>5. ASSUME NEW d \in Clients, UNCHANGED requestVars PROVE FoundIsNamed(d)'
  BY <1>2, <1>3, <1>5, FoundIsKept DEF requestVars
<1>6. (Environment \/ UNCHANGED vars) => UNCHANGED requestVars
  BY DEF Environment, CreateContact, EditKey, DeleteContact, Reset, vars
<1>7. \A d \in Clients : FoundIsNamed(d)'
  BY <1>4, <1>5, <1>6 DEF Next
<1>8. on' \subseteq named'
  <2>1. CASE Environment
    BY <1>2, <2>1 DEF Environment, CreateContact, EditKey, DeleteContact, Reset, Becomes, MembershipsWithout, ghosts
  <2>2. ASSUME NEW c \in Clients, NEW k \in Kinds, Apply(c, k) PROVE on' \subseteq named'
    BY <1>1, <2>2, NamedApply DEF Apply
  <2>3. ASSUME NEW c \in Clients, NEW k \in Kinds, Insert(c, k) \/ Delete(c, k) PROVE on' \subseteq named'
    BY <1>2, <2>3 DEF Insert, Delete, Becomes, ghosts
  <2>4. ASSUME NEW c \in Clients, ResolveValue(c) \/ ResolveRef(c) PROVE on' \subseteq named'
    BY <1>2, <2>4 DEF ResolveValue, ResolveRef, Asks, tables
  <2>5. ASSUME NEW c \in Clients,
               LookUp(c) \/ RefuseKey(c) \/ RenameList(c) \/ Abandon(c) \/ ReadPage(c) \/ ReadSegment(c) \/ LoadData(c)
        PROVE  on' \subseteq named'
    BY <1>2, <2>5 DEF LookUp, RefuseKey, RenameList, Abandon, ReadPage, ReadSegment, LoadData, tables, ghosts
  <2>6. ASSUME NEW c \in Clients, NEW r \in Requests, NEW g \in Groups, Call(c, r, g) PROVE on' \subseteq named'
    BY <1>2, <2>6 DEF Call, tables
  <2>7. UNCHANGED vars => on' \subseteq named'
    BY <1>2 DEF vars, tables, ghosts
  <2> QED
    BY <2>1, <2>2, <2>3, <2>4, <2>5, <2>6, <2>7
       DEF Next, Serve, CreateList, CreateSegment, ChangeMembership, SetSegmentMember, DeleteList, DeleteSegment, Kinds
<1> QED
  BY <1>7, <1>8 DEF Named

LEMMA IntegrityIsKept == Spec => []Integrity
<1>1. Init => Integrity
  BY TypeInit DEF Init, Integrity, Progress, ProgressOf, MembersExist, Named, FoundIsNamed, At, Steps
<1>2. TypeOK /\ [Next]_vars => TypeOK'
  BY TypeEnvironment, TypeCall, TypeServe, TypeStutter DEF Next
<1>3. Integrity /\ [Next]_vars => Integrity'
  BY <1>2, ProgressNext, MembersExistNext, NamedNext DEF Integrity
<1> QED
  BY <1>1, <1>3, PTL DEF Spec

\* Every membership is of a contact and a group that are there (handler_list.go:189).
THEOREM MembersAlwaysExist == Spec => []MembersExist
BY IntegrityIsKept, PTL DEF Integrity

\* A membership is one that a request asked for: an id that was resolved before
\* a deletion never comes to mean another contact or group.
THEOREM NobodyElseIsAdded == Spec => []OnlyNamedContacts
<1>1. Integrity => OnlyNamedContacts
  BY DEF Integrity, Named, OnlyNamedContacts
<1> QED
  BY <1>1, IntegrityIsKept, PTL

\* A change that fails has changed no membership (handler_list.go:199).
THEOREM FailedChangesAreUndone == Spec => []FailureChangesNothing
<1>1. Integrity => FailureChangesNothing
  BY DEF Integrity, Progress, ProgressOf, FailureChangesNothing, At
<1> QED
  BY <1>1, IntegrityIsKept, PTL

-----------------------------------------------------------------------------
(* Pages *)

LEMMA LeastNumber ==
  ASSUME NEW T \in SUBSET Nat, T # {}
  PROVE  \E x \in T : \A y \in T : x <= y
<1> DEFINE R == {q \in Nat \X Nat : q[1] < q[2]}
<1>1. IsWellFoundedOn(R, Nat)
  BY NatLessThanWellFounded DEF OpToRel
<1>2. \A m, n \in Nat : n < m => <<n, m>> \in R
  OBVIOUS
<1> HIDE DEF R
<1>3. PICK x \in T : \A y \in T : <<y, x>> \notin R
  BY <1>1, WFMin
<1>4. ASSUME NEW y \in T PROVE x <= y
  <2>1. x \in Nat /\ y \in Nat /\ ~(y < x)
    BY <1>2, <1>3
  <2> QED
    BY <2>1
<1> QED
  BY <1>4

LEMMA GreatestNumber ==
  ASSUME NEW n \in Nat, NEW T \in SUBSET (1..n), T # {}
  PROVE  \E x \in T : \A y \in T : y <= x
<1> DEFINE U == {k \in Nat : \A y \in T : y <= k}
<1>1. n \in U
  OBVIOUS
<1>2. PICK u \in U : \A k \in U : u <= k
  BY <1>1, LeastNumber
<1>3. u \in T
  <2>1. SUFFICES ASSUME u \notin T PROVE FALSE
    OBVIOUS
  <2>2. u \in Nat /\ \A y \in T : y \in 1..n /\ y <= u /\ y # u
    BY <2>1
  <2>3. PICK t \in T : TRUE
    OBVIOUS
  <2>4. u - 1 \in Nat /\ u - 1 < u
    BY <2>2, <2>3
  <2>5. ASSUME NEW y \in T PROVE y <= u - 1
    BY <2>2, <2>5
  <2> QED
    BY <1>2, <2>4, <2>5
<1> QED
  BY <1>3

\* What comes before an entry: a page is counted by their number.
Under(S, i) == {j \in S : j < i}

LEMMA UnderIsFinite ==
  ASSUME NEW n \in Nat, NEW S \in SUBSET (1..n), NEW i
  PROVE  IsFiniteSet(Under(S, i)) /\ Cardinality(Under(S, i)) \in Nat
<1>1. IsFiniteSet(1..n)
  BY FS_Interval
<1>2. Under(S, i) \subseteq 1..n
  BY DEF Under
<1> QED
  BY <1>1, <1>2, FS_Subset, FS_CardinalityType

\* No more entries than a bound come after fewer than that bound.
LEMMA FewHaveALowRank ==
  ASSUME NEW n \in Nat, NEW S \in SUBSET (1..n), NEW bound \in Nat,
         NEW A, A = {i \in S : Cardinality(Under(S, i)) < bound}
  PROVE  IsFiniteSet(A) /\ Cardinality(A) <= bound
<1>1. IsFiniteSet(1..n)
  BY FS_Interval
<1>2. IsFiniteSet(A)
  BY <1>1, FS_Subset
<1>3. CASE A = {}
  <2>1. Cardinality(A) = 0
    BY <1>3, FS_EmptySet
  <2> QED
    BY <1>2, <2>1
<1>4. CASE A # {}
  <2>1. PICK a \in A : \A i \in A : i <= a
    BY <1>4, GreatestNumber
  <2>2. A \subseteq Under(S, a) \cup {a}
    <3>1. ASSUME NEW i \in A PROVE i \in Under(S, a) \/ i = a
      <4>1. i \in S /\ i \in Nat /\ a \in Nat /\ i <= a
        BY <2>1
      <4> QED
        BY <4>1 DEF Under
    <3> QED
      BY <3>1
  <2>3. IsFiniteSet(Under(S, a)) /\ Cardinality(Under(S, a)) \in Nat
    BY UnderIsFinite
  <2>4. IsFiniteSet(Under(S, a) \cup {a}) /\ Cardinality(Under(S, a) \cup {a}) <= Cardinality(Under(S, a)) + 1
    <3>1. Cardinality(Under(S, a) \cup {a}) \in {Cardinality(Under(S, a)), Cardinality(Under(S, a)) + 1}
      BY <2>3, FS_AddElement
    <3> QED
      BY <2>3, <3>1, FS_AddElement
  <2>5. Cardinality(A) <= Cardinality(Under(S, a) \cup {a})
    BY <2>2, <2>4, FS_Subset
  <2>6. Cardinality(Under(S, a) \cup {a}) \in Nat /\ Cardinality(A) \in Nat
    BY <1>2, <2>4, FS_CardinalityType
  <2> QED
    <3>1. Cardinality(Under(S, a)) < bound
      OBVIOUS
    <3> QED
      BY <1>2, <2>3, <2>4, <2>5, <2>6, <3>1
<1> QED
  BY <1>2, <1>3, <1>4

\* Nothing comes after a page that is not full.
LEMMA ShortPageIsTheLast ==
  ASSUME NEW n \in Nat, NEW S \in SUBSET (1..n), NEW from \in Nat, NEW size \in Nat \ {0},
         NEW P, P = Page(S, from, size), Cardinality(P) < size
  PROVE  \A i \in S : Cardinality(Under(S, i)) < from + size
<1> DEFINE A == {i \in S : Cardinality(Under(S, i)) < from}
           B == {i \in S : ~(Cardinality(Under(S, i)) < from + size)}
<1>0. P = {i \in S : Cardinality(Under(S, i)) \in from..(from + size - 1)}
  BY DEF Page, Under
<1>1. SUFFICES ASSUME B # {} PROVE FALSE
  OBVIOUS
<1>2. PICK b \in B : \A i \in B : b <= i
  <2>1. B \in SUBSET Nat
    <3>1. \A i \in S : i \in Nat
      OBVIOUS
    <3> QED
      BY <3>1
  <2> QED
    BY <1>1, <2>1, LeastNumber
<1>3. Under(S, b) \subseteq A \cup P
  <2>1. ASSUME NEW i \in S, i < b PROVE i \in A \cup P
    <3>1. i \notin B
      BY <1>2, <2>1
    <3>2. Cardinality(Under(S, i)) \in Nat /\ Cardinality(Under(S, i)) < from + size
      BY <3>1, UnderIsFinite
    <3> QED
      BY <1>0, <3>2
  <2> QED
    BY <2>1 DEF Under
<1>4. IsFiniteSet(A) /\ Cardinality(A) <= from /\ Cardinality(A) \in Nat
  BY FewHaveALowRank, FS_CardinalityType
<1>5. IsFiniteSet(P) /\ Cardinality(P) \in Nat
  <2>1. IsFiniteSet(1..n)
    BY FS_Interval
  <2> QED
    BY <1>0, <2>1, FS_Subset, FS_CardinalityType
<1>6. Cardinality(Under(S, b)) \in Nat /\ ~(Cardinality(Under(S, b)) < from + size)
  BY <1>2, UnderIsFinite
<1> HIDE DEF A, B
<1>7. IsFiniteSet(A \cup P) /\ Cardinality(A \cup P) = Cardinality(A) + Cardinality(P) - Cardinality(A \cap P)
  BY <1>4, <1>5, FS_Union
<1>8. Cardinality(A \cap P) \in Nat /\ Cardinality(A \cup P) \in Nat
  BY <1>4, <1>7, FS_Intersection, FS_CardinalityType
<1>9. Cardinality(Under(S, b)) <= Cardinality(A \cup P)
  BY <1>3, <1>7, FS_Subset
<1> QED
  BY <1>4, <1>5, <1>6, <1>7, <1>8, <1>9

Rank(c, i) == Cardinality(Under(Members(on, target[c]), i))

\* Who is owed something is reading.  The members it is owed are still there,
\* and those that the pages it has had are counted from were shown to it.
Covering(c) ==
  /\ Reads(request[c]) /\ pc[c] \in {"lookup", "page", "load"} \cup Resting
  /\ owed[c] \subseteq Members(on, target[c])
  /\ pc[c] \in {"lookup", "page"} => \A i \in owed[c] : Rank(c, i) < offset[c] => i \in seen[c]
  /\ At(c, "load") =>
       /\ \A i \in owed[c] : Rank(c, i) < offset[c] + PageSize => i \in seen[c] \cup found[c]
       /\ Cardinality(found[c]) < PageSize => owed[c] \subseteq seen[c] \cup found[c]
  /\ At(c, "ok") => owed[c] \subseteq seen[c]
Covered == \A c \in Clients : owed[c] # {} => Covering(c)

\* Members that come move no other member to an earlier page.
LEMMA RanksGrow ==
  ASSUME TypeOK, NEW c \in Clients, target'[c] = target[c],
         Members(on, target[c]) \subseteq Members(on', target[c]), NEW i
  PROVE  Rank(c, i) \in Nat /\ Rank(c, i)' \in Nat /\ Rank(c, i) <= Rank(c, i)'
<1> DEFINE S == Members(on, target[c])
           T == Members(on', target[c])
<1>1. S \in SUBSET (1..MaxContacts) /\ T \in SUBSET (1..MaxContacts) /\ MaxContacts \in Nat
  BY MembersAreContacts, MembershipAssumption DEF ContactIds
<1>2. /\ IsFiniteSet(Under(S, i)) /\ Cardinality(Under(S, i)) \in Nat
      /\ IsFiniteSet(Under(T, i)) /\ Cardinality(Under(T, i)) \in Nat
  BY <1>1, UnderIsFinite
<1>3. Under(S, i) \subseteq Under(T, i)
  BY DEF Under
<1>4. Cardinality(Under(S, i)) <= Cardinality(Under(T, i))
  BY <1>2, <1>3, FS_Subset
<1> QED
  BY <1>2, <1>4 DEF Rank

\* What others do, additions included, takes nothing from a reader that is still
\* owed something.
LEMMA CoveringKept ==
  ASSUME TypeOK, NEW d \in Clients, Covering(d), owed'[d] = owed[d],
         Members(on, target[d]) \subseteq Members(on', target[d]),
         pc'[d] = pc[d], request'[d] = request[d], target'[d] = target[d],
         found'[d] = found[d], offset'[d] = offset[d], seen'[d] = seen[d]
  PROVE  Covering(d)'
<1>1. \A i : Rank(d, i) \in Nat /\ Rank(d, i)' \in Nat /\ Rank(d, i) <= Rank(d, i)'
  BY RanksGrow
<1>2. offset[d] \in Nat /\ PageSize \in Nat
  BY MembershipAssumption DEF TypeOK
<1>3. owed'[d] \subseteq Members(on', target'[d])
  BY DEF Covering
<1>4. pc'[d] \in {"lookup", "page"} => \A i \in owed'[d] : Rank(d, i)' < offset'[d] => i \in seen'[d]
  BY <1>1, <1>2 DEF Covering
<1>5. At(d, "load")' =>
        /\ \A i \in owed'[d] : Rank(d, i)' < offset'[d] + PageSize => i \in seen'[d] \cup found'[d]
        /\ Cardinality(found'[d]) < PageSize => owed'[d] \subseteq seen'[d] \cup found'[d]
  BY <1>1, <1>2 DEF Covering, At
<1> QED
  BY <1>3, <1>4, <1>5 DEF Covering, At, Reads

\* Whatever changes the memberships: nobody is owed what has left.
LEMMA OweKept ==
  ASSUME TypeOK, NEW rows, Becomes(rows), NEW d \in Clients, owed'[d] # {}
  PROVE  owed'[d] = owed[d] /\ Members(on, target[d]) \subseteq Members(on', target[d])
BY DEF Becomes, OweAfter

LEMMA ServeKeepsOwed ==
  ASSUME TypeOK, NEW c \in Clients, Serve(c), NEW d \in Clients, owed'[d] # {}
  PROVE  owed'[d] = owed[d] /\ Members(on, target[d]) \subseteq Members(on', target[d])
<1>1. CASE \E rows : Becomes(rows)
  BY <1>1, OweKept
<1>2. CASE UNCHANGED <<on, owed>>
  BY <1>2
<1>3. (\E rows : Becomes(rows)) \/ UNCHANGED <<on, owed>>
  <2>1. CASE LookUp(c) \/ RefuseKey(c) \/ RenameList(c) \/ Abandon(c) \/ ReadPage(c) \/ LoadData(c) \/ ReadSegment(c)
    BY <2>1 DEF LookUp, RefuseKey, RenameList, Abandon, ReadPage, LoadData, ReadSegment, tables, ghosts
  <2>2. CASE ResolveValue(c) \/ ResolveRef(c)
    BY <2>2 DEF ResolveValue, ResolveRef, tables
  <2>3. CASE CreateList(c) \/ CreateSegment(c)
    BY <2>3 DEF CreateList, CreateSegment, Insert, ghosts
  <2>4. CASE ChangeMembership(c) \/ SetSegmentMember(c)
    BY <2>4 DEF ChangeMembership, SetSegmentMember, Apply, Change
  <2>5. CASE DeleteList(c) \/ DeleteSegment(c)
    BY <2>5 DEF DeleteList, DeleteSegment, Delete
  <2> QED
    BY <2>1, <2>2, <2>3, <2>4, <2>5 DEF Serve
<1> QED
  BY <1>1, <1>2, <1>3

LEMMA OthersPages ==
  ASSUME TypeOK, NEW c \in Clients, Serve(c), NEW d \in Clients \ {c}
  PROVE  offset'[d] = offset[d] /\ seen'[d] = seen[d]
<1>1. CASE LookUp(c) \/ RefuseKey(c) \/ RenameList(c) \/ Abandon(c) \/ ResolveValue(c) \/ ResolveRef(c)
  BY <1>1 DEF LookUp, RefuseKey, RenameList, Abandon, ResolveValue, ResolveRef
<1>2. CASE CreateList(c) \/ CreateSegment(c) \/ ChangeMembership(c) \/ SetSegmentMember(c)
  BY <1>2 DEF CreateList, CreateSegment, Insert, ChangeMembership, SetSegmentMember, Apply
<1>3. CASE DeleteList(c) \/ DeleteSegment(c)
  BY <1>3 DEF DeleteList, DeleteSegment, Delete
<1>4. CASE ReadPage(c) \/ ReadSegment(c) \/ LoadData(c)
  BY <1>4 DEF ReadPage, ReadSegment, LoadData, Show, TypeOK
<1> QED
  BY <1>1, <1>2, <1>3, <1>4 DEF Serve

\* A page goes on where the last one ended, and one that is not full is the end.
LEMMA PageCovers ==
  ASSUME TypeOK, NEW c \in Clients, Covering(c), At(c, "page"),
         NEW page, page = Page(Members(on, target[c]), offset[c], PageSize)
  PROVE  /\ \A i \in owed[c] : Rank(c, i) < offset[c] + PageSize => i \in seen[c] \cup page
         /\ Cardinality(page) < PageSize => owed[c] \subseteq seen[c] \cup page
<1> DEFINE S == Members(on, target[c])
<1>1. S \in SUBSET (1..MaxContacts) /\ MaxContacts \in Nat /\ offset[c] \in Nat /\ PageSize \in Nat \ {0}
  BY MembersAreContacts, MembershipAssumption DEF ContactIds, TypeOK
<1>2. owed[c] \subseteq S /\ \A i \in owed[c] : Rank(c, i) < offset[c] => i \in seen[c]
  BY DEF Covering, At
<1>3. \A i \in S : Rank(c, i) \in Nat /\ (Rank(c, i) \in offset[c]..(offset[c] + PageSize - 1) => i \in page)
  BY <1>1, UnderIsFinite DEF Rank, Page, Under
<1>4. ASSUME NEW i \in owed[c], Rank(c, i) < offset[c] + PageSize PROVE i \in seen[c] \cup page
  BY <1>1, <1>2, <1>3, <1>4
<1>5. ASSUME Cardinality(page) < PageSize PROVE owed[c] \subseteq seen[c] \cup page
  <2>1. \A i \in S : Rank(c, i) < offset[c] + PageSize
    BY <1>1, <1>5, ShortPageIsTheLast DEF Rank
  <2> QED
    BY <1>2, <1>4, <2>1
<1> QED
  BY <1>4, <1>5

LEMMA CoveringServe ==
  ASSUME TypeOK, MembersExist, NEW c \in Clients, Covering(c), Serve(c), owed'[c] # {}
  PROVE  Covering(c)'
<1>1. owed'[c] = owed[c]
  BY ServeKeepsOwed
<1>2. /\ Reads(request[c]) /\ pc[c] \in {"lookup", "page", "load"} \cup Resting
      /\ owed[c] \subseteq Members(on, target[c]) /\ Op(c) \in {"members", "data"}
  BY DEF Covering, Reads, Op
<1>3. CASE LookUp(c)
  <2>1. pc'[c] \in {"page", "failed"} /\ At(c, "lookup")
    BY <1>2, <1>3 DEF LookUp, AfterLookUp, GoTo, TypeOK
  <2> QED
    BY <1>1, <1>3, <2>1 DEF LookUp, Covering, Rank, Resting, At, tables
<1>4. CASE Abandon(c)
  <2>1. pc'[c] = "gone"
    BY <1>4 DEF Abandon, GoTo, TypeOK
  <2> QED
    BY <1>1, <1>2, <1>4, <2>1 DEF Abandon, Covering, Resting, At, tables
<1>5. CASE ReadSegment(c)
  <2>1. pc'[c] = "ok" /\ seen'[c] = Members(on, target[c])
    BY <1>5 DEF ReadSegment, GoTo, TypeOK
  <2> QED
    BY <1>1, <1>2, <1>5, <2>1 DEF ReadSegment, Covering, Resting, At, tables
<1>6. CASE ReadPage(c)
  <2> DEFINE page == Page(Members(on, target[c]), offset[c], PageSize)
  <2>1. /\ \A i \in owed[c] : Rank(c, i) < offset[c] + PageSize => i \in seen[c] \cup page
        /\ Cardinality(page) < PageSize => owed[c] \subseteq seen[c] \cup page
    BY <1>6, PageCovers DEF ReadPage
  <2>2. UNCHANGED <<on, request, target, owed>> /\ \A i : Rank(c, i)' = Rank(c, i)
    BY <1>6 DEF ReadPage, tables, ghosts, Rank
  <2>3. CASE Op(c) = "data"
    <3>1. pc'[c] = "load" /\ found'[c] = page /\ UNCHANGED <<offset, seen>>
      BY <1>6, <2>3 DEF ReadPage, GoTo, TypeOK
    <3> HIDE DEF page
    <3> QED
      BY <1>2, <2>1, <2>2, <3>1 DEF Covering, At
  <2>4. CASE Op(c) # "data"
    <3>1. Show(c, page, page)
      BY <1>6, <2>4 DEF ReadPage
    <3> HIDE DEF page
    <3>2. /\ seen'[c] = seen[c] \cup page
          /\ \/ Cardinality(page) < PageSize /\ pc'[c] = "ok"
             \/ pc'[c] = "lookup" /\ offset'[c] = offset[c] + PageSize
      BY <3>1 DEF Show, GoTo, TypeOK
    <3> QED
      BY <1>2, <2>1, <2>2, <3>2 DEF Covering, Resting, At
  <2> QED
    BY <2>3, <2>4
<1>7. CASE LoadData(c)
  <2>1. UNCHANGED <<on, request, target, owed>> /\ \A i : Rank(c, i)' = Rank(c, i)
    BY <1>7 DEF LoadData, tables, ghosts, Rank
  <2>2. /\ seen'[c] = seen[c] \cup (found[c] \cap contacts)
        /\ \/ Cardinality(found[c]) < PageSize /\ pc'[c] = "ok"
           \/ pc'[c] = "lookup" /\ offset'[c] = offset[c] + PageSize
    BY <1>7 DEF LoadData, Show, GoTo, TypeOK
  <2>3. owed[c] \subseteq contacts
    BY <1>2 DEF MembersExist, Members
  <2>4. /\ \A i \in owed[c] : Rank(c, i) < offset[c] + PageSize => i \in seen'[c]
        /\ Cardinality(found[c]) < PageSize => owed[c] \subseteq seen'[c]
    BY <1>7, <2>2, <2>3 DEF LoadData, Covering
  <2> QED
    BY <1>2, <2>1, <2>2, <2>4 DEF Covering, Resting, At
<1>8. ~(ResolveValue(c) \/ ResolveRef(c) \/ RefuseKey(c) \/ ChangeMembership(c) \/ SetSegmentMember(c))
  BY <1>2 DEF ResolveValue, ResolveRef, RefuseKey, ChangeMembership, SetSegmentMember, Apply, At, Resting
<1>9. ~(CreateList(c) \/ CreateSegment(c) \/ RenameList(c) \/ DeleteList(c) \/ DeleteSegment(c))
  BY <1>2 DEF CreateList, CreateSegment, Insert, RenameList, DeleteList, DeleteSegment, Delete, At, Resting
<1> QED
  BY <1>3, <1>4, <1>5, <1>6, <1>7, <1>8, <1>9 DEF Serve

LEMMA CoveredCall ==
  ASSUME TypeOK, Covered, NEW c \in Clients, NEW r \in Requests, NEW g \in Groups, Call(c, r, g),
         NEW d \in Clients, owed'[d] # {}
  PROVE  Covering(d)'
<1>1. on' = on /\ (d # c => owed'[d] = owed[d] /\ offset'[d] = offset[d] /\ seen'[d] = seen[d])
  BY DEF Call, tables, TypeOK
<1>2. CASE d = c
  <2>1. Reads(r) /\ owed'[c] = Members(on, g) /\ target'[c] = g /\ request'[c] = r /\ offset'[c] = 0
    BY <1>2 DEF Call, TypeOK
  <2>2. r.via = "api"
    BY <2>1, MembershipAssumption DEF Reads, Request
  <2>3. pc'[c] = "lookup"
    BY <2>1, <2>2 DEF Call, First, GoTo, TypeOK, Reads
  <2>4. \A i : Rank(c, i)' \in Nat
    <3>1. Members(on, g) \in SUBSET (1..MaxContacts) /\ MaxContacts \in Nat
      BY MembersAreContacts, MembershipAssumption DEF ContactIds
    <3> QED
      BY <1>1, <2>1, <3>1, UnderIsFinite DEF Rank
  <2> QED
    BY <1>1, <1>2, <2>1, <2>3, <2>4 DEF Covering, At
<1>3. CASE d # c
  <2>1. Covering(d)
    BY <1>1, <1>3 DEF Covered
  <2> QED
    BY <1>1, <1>3, <2>1, OthersAreKept, CoveringKept
<1> QED
  BY <1>2, <1>3

LEMMA CoveredNext == TypeOK /\ MembersExist /\ Covered /\ [Next]_vars => Covered'
<1> SUFFICES ASSUME TypeOK, MembersExist, Covered, [Next]_vars, NEW d \in Clients, owed'[d] # {}
             PROVE  Covering(d)'
  BY DEF Covered
<1>1. CASE Environment \/ UNCHANGED vars
  <2>1. UNCHANGED <<pc, request, target, found, offset, seen>>
    BY <1>1 DEF Environment, CreateContact, EditKey, DeleteContact, Reset, vars, requestVars
  <2>2. (\E rows : Becomes(rows)) \/ UNCHANGED <<on, owed>>
    BY <1>1 DEF Environment, CreateContact, EditKey, DeleteContact, Reset, vars, tables, ghosts
  <2>3. owed'[d] = owed[d] /\ Members(on, target[d]) \subseteq Members(on', target[d])
    BY <2>2, OweKept
  <2>4. Covering(d)
    BY <2>3 DEF Covered
  <2> QED
    BY <2>1, <2>3, <2>4, CoveringKept
<1>2. ASSUME NEW c \in Clients, Serve(c) PROVE Covering(d)'
  <2>1. owed'[d] = owed[d] /\ Members(on, target[d]) \subseteq Members(on', target[d])
    BY <1>2, ServeKeepsOwed
  <2>2. Covering(d)
    BY <2>1 DEF Covered
  <2>3. CASE d = c
    BY <1>2, <2>2, <2>3, CoveringServe
  <2>4. CASE d # c
    BY <1>2, <2>1, <2>2, <2>4, OthersAreKept, OthersPages, CoveringKept
  <2> QED
    BY <2>3, <2>4
<1> QED
  BY <1>1, <1>2, CoveredCall DEF Next

\* A client that reads a list page by page has been shown every contact that was
\* on it when it asked, unless a member has left since: members that come move
\* nobody to a page it has had (handler_list.go:83, 139).
THEOREM PagesShowEverybody == Spec => []PagesCoverTheList
<1>1. Init => Covered
  BY DEF Init, Covered
<1>2. TypeOK /\ MembersExist /\ Covered /\ [Next]_vars => Covered'
  BY CoveredNext
<1>3. Covered => PagesCoverTheList
  BY DEF Covered, Covering, PagesCoverTheList
<1>4. Integrity => TypeOK /\ MembersExist
  BY DEF Integrity
<1> QED
  BY <1>1, <1>2, <1>3, <1>4, IntegrityIsKept, PTL DEF Spec
=============================================================================
