---------------------------- MODULE ListMembership ----------------------------
(***************************************************************************)
(* Contact lists and segments, here together called groups                 *)
(* (handler_list.go, handler_segment.go, the dashboard's forms for both).  *)
(* A request looks its group up, resolves one external id per statement,   *)
(* and changes the membership in a transaction that names contacts by the  *)
(* ids it found.  Contacts and groups come and go between its statements.  *)
(***************************************************************************)
EXTENDS Naturals, FiniteSets

CONSTANTS
  Clients,      \* concurrent requests
  Keys, NoKey,  \* values of the key field; no contact
  Requests,     \* what is asked for: see Request
  PageSize,     \* the limit of a client that reads a list page by page
  MaxContacts, MaxGroups,  \* bounds on the ids that are given out
  MaxCalls      \* bound on the requests of a behaviour

Kinds == {"list", "segment"}
Ops == {"create", "add", "remove", "replace", "rename", "delete", "members", "data"}
Request == [op: Ops, kind: Kinds, via: {"api", "admin"}, values: SUBSET Keys]

ASSUME MembershipAssumption ==
  /\ Requests \subseteq Request
  /\ \A r \in Requests : r.via = "admin" =>
       /\ r.op \in {"create", "add", "remove", "delete"}
       /\ r.op \in {"add", "remove"} => Cardinality(r.values) = 1
  /\ PageSize \in Nat \ {0} /\ MaxContacts \in Nat /\ MaxGroups \in Nat \ {0} /\ MaxCalls \in Nat

VARIABLES
  contacts, keyOf, lastContact,  \* the contacts, their key values, their AUTOINCREMENT counter
  groups, lastGroup,             \* both kinds of group, and the counter of each table
  on,        \* contact_list_members and segment_members: pairs of a group and a contact
  pc,        \* the statement each request is about to execute, or how it ended
  request, target,  \* what it asks for, of which group
  left,      \* the values it has not resolved yet
  found,     \* the ids it has resolved, or the page it has read
  offset, seen,     \* where its next page starts, and the contacts it was shown
  named,     \* memberships that some request asked for, of contacts and groups as they were then
  touched,   \* whether the request has changed a membership
  owed,      \* what a reader must be shown: its group when it asked, while no member leaves
  wiped, calls

tables == <<contacts, keyOf, lastContact, groups, lastGroup, on>>
requestVars == <<pc, request, target, left, found, offset, seen>>
ghosts == <<named, touched, owed, wiped, calls>>
vars == <<tables, requestVars, ghosts>>

ContactIds == 1..MaxContacts
Groups == Kinds \X (1..MaxGroups)
Members(rows, g) == {i \in ContactIds : <<g, i>> \in rows}
Rows(g, ids) == {g} \X ids
Resting == {"idle", "ok", "failed", "gone"}
Steps == {"insert", "lookup", "resolve", "rename", "delete", "page", "load"}

NoGroup == <<"list", 1>>
NoRequest == [op |-> "rename", kind |-> "list", via |-> "api", values |-> {}]

Init ==
  /\ contacts = {} /\ keyOf = [i \in ContactIds |-> NoKey] /\ lastContact = 0
  /\ groups = {} /\ lastGroup = [k \in Kinds |-> 0] /\ on = {}
  /\ pc = [c \in Clients |-> "idle"]
  /\ request = [c \in Clients |-> NoRequest]
  /\ target = [c \in Clients |-> NoGroup]
  /\ left = [c \in Clients |-> {}] /\ found = [c \in Clients |-> {}]
  /\ offset = [c \in Clients |-> 0] /\ seen = [c \in Clients |-> {}]
  /\ named = {} /\ touched = [c \in Clients |-> FALSE] /\ owed = [c \in Clients |-> {}]
  /\ wiped = FALSE /\ calls = 0

-----------------------------------------------------------------------------
At(c, step) == pc[c] = step
GoTo(c, step) == pc' = [pc EXCEPT ![c] = step]
Op(c) == request[c].op
Adds(c) == Op(c) \in {"create", "add", "replace"}

\* A reader is owed nothing once a member has left its group: an offset
\* counted before then skips members that are still there.
OweAfter(rows) ==
  owed' = [c \in Clients |-> IF Members(on, target[c]) \subseteq Members(rows, target[c])
                               THEN owed[c] ELSE {}]
Becomes(rows) == on' = rows /\ OweAfter(rows)

\* deviations: the counter is read before it is advanced; the id of the last row plus one
FreshUnadvanced(last, used) == last
FreshReused(last, used) == IF used = {} THEN 1 ELSE 1 + CHOOSE i \in used : \A j \in used : j <= i
Fresh(last, used) == last + 1

-----------------------------------------------------------------------------
(* Contacts, and resets *)

CreateContact(k) ==
  LET id == Fresh(lastContact, contacts)
  IN  /\ id <= MaxContacts
      /\ contacts' = contacts \cup {id} /\ lastContact' = id
      /\ keyOf' = [keyOf EXCEPT ![id] = k]
      /\ UNCHANGED <<groups, lastGroup, on, requestVars, ghosts>>

EditKey(i, k) ==
  /\ i \in contacts /\ keyOf' = [keyOf EXCEPT ![i] = k]
  /\ UNCHANGED <<contacts, lastContact, groups, lastGroup, on, requestVars, ghosts>>

\* deviation: the foreign key does not cascade
MembershipsKept(gone) == on
MembershipsWithout(gone) == {row \in on : row[2] \notin gone}

DeleteContact(i) ==
  /\ i \in contacts
  /\ contacts' = contacts \ {i}
  /\ Becomes(MembershipsWithout({i}))
  /\ named' = {row \in named : row[2] # i}
  /\ keyOf' = [keyOf EXCEPT ![i] = NoKey]
  /\ UNCHANGED <<lastContact, groups, lastGroup, requestVars, touched, wiped, calls>>

\* Reset, in one step: the counters start again.
Reset ==
  /\ contacts' = {} /\ lastContact' = 0 /\ keyOf' = [i \in ContactIds |-> NoKey]
  /\ groups' = {} /\ lastGroup' = [k \in Kinds |-> 0]
  /\ Becomes({}) /\ named' = {} /\ wiped' = TRUE
  /\ UNCHANGED <<requestVars, touched, calls>>

-----------------------------------------------------------------------------
(* One request *)

Reads(r) == r.op \in {"members", "data"}

\* The API looks the group up first; the dashboard does not.
First(r) ==
  CASE r.op = "create" -> "insert"
    [] r.op # "create" /\ r.via = "api" -> "lookup"
    [] r.op = "delete" /\ r.via = "admin" -> "delete"
    [] OTHER -> "resolve"

Call(c, r, g) ==
  /\ pc[c] \in Resting /\ calls < MaxCalls
  /\ g[1] = r.kind
  /\ calls' = calls + 1
  /\ request' = [request EXCEPT ![c] = r]
  /\ target' = [target EXCEPT ![c] = g]
  /\ left' = [left EXCEPT ![c] = r.values]
  /\ found' = [found EXCEPT ![c] = {}]
  /\ offset' = [offset EXCEPT ![c] = 0]
  /\ seen' = [seen EXCEPT ![c] = {}]
  /\ touched' = [touched EXCEPT ![c] = FALSE]
  /\ owed' = [owed EXCEPT ![c] = IF Reads(r) THEN Members(on, g) ELSE {}]
  /\ GoTo(c, First(r))
  /\ UNCHANGED <<tables, named, wiped>>

\* The group stays whatever becomes of its members.
Insert(c, k) ==
  LET id == Fresh(lastGroup[k], {g[2] : g \in {h \in groups : h[1] = k}})
  IN  /\ At(c, "insert") /\ request[c].kind = k /\ id <= MaxGroups
      /\ groups' = groups \cup {<<k, id>>}
      /\ lastGroup' = [lastGroup EXCEPT ![k] = id]
      /\ target' = [target EXCEPT ![c] = <<k, id>>]
      /\ UNCHANGED <<contacts, keyOf, lastContact, on, request, left, found, offset, seen, ghosts>>

CreateList(c) == Insert(c, "list") /\ GoTo(c, IF request[c].values = {} THEN "ok" ELSE "resolve")
CreateSegment(c) == Insert(c, "segment") /\ GoTo(c, "ok")

AfterLookUp(op) ==
  CASE op \in {"rename", "delete"} -> op
    [] op \in {"members", "data"} -> "page"
    [] OTHER -> "resolve"

LookUp(c) ==
  /\ At(c, "lookup")
  /\ GoTo(c, IF target[c] \in groups THEN AfterLookUp(Op(c)) ELSE "failed")
  /\ UNCHANGED <<tables, request, target, left, found, offset, seen, ghosts>>

Matching(v) == {i \in contacts : keyOf[i] = v}
Asks(c, ids) == named' = IF Adds(c) THEN named \cup Rows(target[c], ids) ELSE named

\* The API takes the one contact that matches and reports the value otherwise.
ResolveValue(c) ==
  /\ At(c, "resolve") /\ request[c].via = "api"
  /\ \E v \in left[c] :
       LET ids == IF Cardinality(Matching(v)) = 1 THEN Matching(v) ELSE {}
       IN  /\ left' = [left EXCEPT ![c] = left[c] \ {v}]
           /\ found' = [found EXCEPT ![c] = found[c] \cup ids]
           /\ Asks(c, ids)
  /\ UNCHANGED <<tables, pc, request, target, offset, seen, touched, owed, wiped, calls>>

\* The dashboard takes the first of those that match, and none is an error.
ResolveRef(c) ==
  /\ At(c, "resolve") /\ request[c].via = "admin"
  /\ \E v \in left[c] :
       /\ left' = [left EXCEPT ![c] = {}]
       /\ \/ Matching(v) = {} /\ GoTo(c, "failed") /\ UNCHANGED <<found, named>>
          \/ \E i \in Matching(v) :
               /\ \A j \in Matching(v) : i <= j
               /\ found' = [found EXCEPT ![c] = {i}] /\ Asks(c, {i})
               /\ UNCHANGED pc
  /\ UNCHANGED <<tables, request, target, offset, seen, touched, owed, wiped, calls>>

\* No catalogue, a key that is no field, or too many values.
RefuseKey(c) ==
  /\ At(c, "resolve") /\ request[c].via = "api" /\ left[c] = request[c].values
  /\ GoTo(c, "failed")
  /\ UNCHANGED <<tables, request, target, left, found, offset, seen, ghosts>>

\* OR IGNORE forgives a pair that is there, not a key that points nowhere.
Insertable(g, ids) == ids = {} \/ (g \in groups /\ ids \subseteq contacts)

Changed(op, g, ids) ==
  CASE op = "remove" -> on \ Rows(g, ids)
    [] op = "replace" -> {row \in on : row[1] # g} \cup Rows(g, ids)
    [] OTHER -> on \cup Rows(g, ids)

\* deviation: ClearList in a transaction of its own
RolledBackAfterClear(c) == IF Op(c) = "replace" THEN {row \in on : row[1] # target[c]} ELSE on
RolledBack(c) == on

Change(c, rows, answer) ==
  /\ Becomes(rows)
  /\ touched' = [touched EXCEPT ![c] = touched[c] \/ on' # on]
  /\ GoTo(c, answer)

Apply(c, k) ==
  /\ At(c, "resolve") /\ left[c] = {} /\ request[c].kind = k
  /\ IF Adds(c) => Insertable(target[c], found[c])
       THEN Change(c, Changed(Op(c), target[c], found[c]), "ok")
       ELSE Change(c, RolledBack(c), "failed")
  /\ UNCHANGED <<contacts, keyOf, lastContact, groups, lastGroup,
                 request, target, left, found, offset, seen, named, wiped, calls>>

\* One transaction; for a segment, and one contact, one statement.
ChangeMembership(c) == Apply(c, "list")
SetSegmentMember(c) == Apply(c, "segment")

RenameList(c) ==
  /\ At(c, "rename") /\ GoTo(c, IF target[c] \in groups THEN "ok" ELSE "failed")
  /\ UNCHANGED <<tables, request, target, left, found, offset, seen, ghosts>>

Delete(c, k) ==
  /\ At(c, "delete") /\ request[c].kind = k
  /\ GoTo(c, IF target[c] \in groups THEN "ok" ELSE "failed")
  /\ groups' = groups \ {target[c]}
  /\ Becomes({row \in on : row[1] # target[c]})
  /\ named' = {row \in named : row[1] # target[c] \/ target[c] \notin groups}
  /\ UNCHANGED <<contacts, keyOf, lastContact, lastGroup,
                 request, target, left, found, offset, seen, touched, wiped, calls>>

DeleteList(c) == Delete(c, "list")
DeleteSegment(c) == Delete(c, "segment")

\* deviation: the offset counts from one
PageFromOne(ids, from, size) == {i \in ids : Cardinality({j \in ids : j < i}) \in (from + 1)..(from + size)}
Page(ids, from, size) == {i \in ids : Cardinality({j \in ids : j < i}) \in from..(from + size - 1)}

\* Shows a page; the client asks for the next one until a page is not full.
Show(c, page, shown) ==
  /\ seen' = [seen EXCEPT ![c] = seen[c] \cup shown]
  /\ IF Cardinality(page) < PageSize
       THEN GoTo(c, "ok") /\ UNCHANGED offset
       ELSE GoTo(c, "lookup") /\ offset' = [offset EXCEPT ![c] = offset[c] + PageSize]

ReadPage(c) ==
  LET page == Page(Members(on, target[c]), offset[c], PageSize)
  IN  /\ At(c, "page") /\ request[c].kind = "list"
      /\ IF Op(c) = "data"
           THEN found' = [found EXCEPT ![c] = page] /\ GoTo(c, "load") /\ UNCHANGED <<offset, seen>>
           ELSE Show(c, page, page) /\ UNCHANGED found
      /\ UNCHANGED <<tables, request, target, left, ghosts>>

\* A segment is read as a whole.
ReadSegment(c) ==
  /\ At(c, "page") /\ request[c].kind = "segment" /\ GoTo(c, "ok")
  /\ seen' = [seen EXCEPT ![c] = Members(on, target[c])]
  /\ UNCHANGED <<tables, request, target, left, found, offset, ghosts>>

\* LoadContacts: contacts that are gone by now are left out.
LoadData(c) ==
  /\ At(c, "load") /\ Show(c, found[c], found[c] \cap contacts)
  /\ UNCHANGED <<tables, request, target, left, found, ghosts>>

\* The client goes away, and its next statement fails.
Abandon(c) ==
  /\ pc[c] \in Steps /\ GoTo(c, "gone")
  /\ UNCHANGED <<tables, request, target, left, found, offset, seen, ghosts>>

-----------------------------------------------------------------------------
Serve(c) ==
  \/ LookUp(c) \/ ResolveValue(c) \/ ResolveRef(c) \/ RefuseKey(c)
  \/ CreateList(c) \/ ChangeMembership(c) \/ RenameList(c) \/ DeleteList(c) \/ ReadPage(c) \/ LoadData(c)
  \/ CreateSegment(c) \/ SetSegmentMember(c) \/ DeleteSegment(c) \/ ReadSegment(c)
  \/ Abandon(c)

Environment ==
  \/ \E k \in Keys : CreateContact(k)
  \/ \E i \in ContactIds, k \in Keys : EditKey(i, k)
  \/ \E i \in ContactIds : DeleteContact(i)
  \/ Reset

Next ==
  \/ \E c \in Clients : Serve(c) \/ \E r \in Requests, g \in Groups : Call(c, r, g)
  \/ Environment

Spec == Init /\ [][Next]_vars

-----------------------------------------------------------------------------
(* What must hold *)

TypeOK ==
  /\ contacts \subseteq 1..lastContact /\ lastContact \in 0..MaxContacts
  /\ keyOf \in [ContactIds -> Keys \cup {NoKey}]
  /\ lastGroup \in [Kinds -> 0..MaxGroups]
  /\ groups \subseteq Groups /\ \A g \in groups : g[2] <= lastGroup[g[1]]
  /\ on \subseteq Groups \X ContactIds /\ named \subseteq Groups \X ContactIds
  /\ pc \in [Clients -> Steps \cup Resting]
  /\ request \in [Clients -> Requests \cup {NoRequest}] /\ target \in [Clients -> Groups]
  /\ left \in [Clients -> SUBSET Keys]
  /\ found \in [Clients -> SUBSET ContactIds] /\ seen \in [Clients -> SUBSET ContactIds]
  /\ offset \in [Clients -> Nat]
  /\ touched \in [Clients -> BOOLEAN] /\ owed \in [Clients -> SUBSET ContactIds]
  /\ wiped \in BOOLEAN /\ calls \in 0..MaxCalls

\* No group has a member that is gone, and no group that is gone has members,
\* whatever was deleted since a request looked it up (handler_list.go:189).
MembersExist == on \subseteq groups \X contacts

\* A contact is on a group only because a request asked for this contact on this
\* group: an id that was resolved before a deletion never comes to mean another
\* contact or list. Until a reset, which gives ids out again.
OnlyNamedContacts == ~wiped => on \subseteq named

\* A change that is answered with an error has changed no membership: not the
\* entries before the one that failed, and not the ClearList of a replace
\* (handler_list.go:199).
FailureChangesNothing == \A c \in Clients : At(c, "failed") => ~touched[c]

\* A client that reads a list page by page is shown every contact that was on it
\* all the while, as long as no member left: additions move no page away.
PagesCoverTheList == \A c \in Clients : At(c, "ok") => owed[c] \subseteq seen[c]
=============================================================================
