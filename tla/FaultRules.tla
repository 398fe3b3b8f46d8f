------------------------------ MODULE FaultRules ------------------------------
(***************************************************************************)
(* Injected faults (store/fault.go, faultMiddleware).  A request reads the *)
(* enabled rules in one statement, decides without them which one fires,   *)
(* and spends a hit of it in another statement; the rules are created,     *)
(* deleted and reset at any time in between.                               *)
(***************************************************************************)
EXTENDS Integers, FiniteSets

CONSTANTS
  Clients,   \* concurrent HTTP requests to the Emarsys surface
  Kinds,     \* kinds of request that rules tell apart
  Shapes,    \* rules as they are created
  MaxRules,  \* bound on the rules a behaviour creates
  MaxCalls   \* bound on its requests

ASSUME FaultAssumption ==
  /\ MaxRules \in Nat /\ MaxCalls \in Nat /\ IsFiniteSet(Clients) /\ Kinds # {}
  /\ Shapes \subseteq [matches: SUBSET Kinds, certain: BOOLEAN, limited: BOOLEAN, left: Int]

VARIABLES
  rules,   \* table fault_rules, by id
  nextId,  \* its AUTOINCREMENT counter
  pc,      \* the statement each request is about to execute, or how it ended
  kind,    \* what it asks
  firing,  \* the rule that fires on it, as it was when read
  made,    \* the rules created so far: their number names each of them for good
  hits,    \* the requests that each of these has answered
  wiped,   \* whether the database was reset
  calls

requestVars == <<pc, kind, firing>>
vars == <<rules, nextId, requestVars, made, hits, wiped, calls>>

Ids == 1..MaxRules
Rule == [id: Ids, name: Ids, shape: Shapes, enabled: BOOLEAN, left: Int]
NoRule == [id |-> 0]
Resting == {"idle", "passed", "faulted", "gone"}

Init ==
  /\ rules = <<>> /\ nextId = 1
  /\ pc = [c \in Clients |-> "idle"]
  /\ kind = [c \in Clients |-> CHOOSE k \in Kinds : TRUE]
  /\ firing = [c \in Clients |-> NoRule]
  /\ made = 0 /\ hits = [n \in Ids |-> 0] /\ wiped = FALSE /\ calls = 0

-----------------------------------------------------------------------------
At(c, step) == pc[c] = step
GoTo(c, step) == pc' = [pc EXCEPT ![c] = step]

\* deviation: MAX(id) + 1, as for fields
IdAfterLast(i) == (\A j \in DOMAIN rules : j < i) /\ (i = 1 \/ i - 1 \in DOMAIN rules)
FreshId(i) == i = nextId

CreateRule(shape, i) ==
  /\ made < MaxRules /\ FreshId(i)
  /\ made' = made + 1
  /\ nextId' = i + 1
  /\ rules' = [j \in DOMAIN rules \cup {i} |->
       IF j = i THEN [id |-> i, name |-> made + 1, shape |-> shape, enabled |-> TRUE, left |-> shape.left]
                ELSE rules[j]]
  /\ UNCHANGED <<requestVars, hits, wiped, calls>>

DeleteRule(i) ==
  /\ i \in DOMAIN rules
  /\ rules' = [j \in DOMAIN rules \ {i} |-> rules[j]]
  /\ UNCHANGED <<nextId, requestVars, made, hits, wiped, calls>>

\* Dropping fault_rules drops its counter as well.
Reset ==
  /\ rules' = <<>> /\ nextId' = 1 /\ wiped' = TRUE
  /\ UNCHANGED <<requestVars, made, hits, calls>>

-----------------------------------------------------------------------------
Arrive(c, k) ==
  /\ pc[c] \in Resting /\ calls < MaxCalls
  /\ calls' = calls + 1
  /\ kind' = [kind EXCEPT ![c] = k]
  /\ GoTo(c, "read")
  /\ UNCHANGED <<rules, nextId, firing, made, hits, wiped>>

\* deviation: reads the retired rules too
MatchesRetired(i, k) == k \in rules[i].shape.matches
Matches(i, k) == rules[i].enabled /\ k \in rules[i].shape.matches

\* Rules are tried in the order of their ids; a certain one is not passed over.
MayFire(i, k) == Matches(i, k) /\ \A j \in DOMAIN rules : j < i /\ Matches(j, k) => ~rules[j].shape.certain
MayPass(k) == \A i \in DOMAIN rules : Matches(i, k) => ~rules[i].shape.certain

ReadRules(c) ==
  /\ At(c, "read")
  /\ \/ \E i \in DOMAIN rules :
          MayFire(i, kind[c]) /\ firing' = [firing EXCEPT ![c] = rules[i]] /\ GoTo(c, "consume")
     \/ MayPass(kind[c]) /\ GoTo(c, "passed") /\ UNCHANGED firing
  /\ UNCHANGED <<rules, nextId, kind, made, hits, wiped, calls>>

\* deviation: hits are counted from what was read
SpentAsRead(r, read) ==
  [r EXCEPT !.left = read.left - 1, !.enabled = r.enabled /\ ~(r.shape.limited /\ read.left - 1 <= 0)]

\* Unlimited rules have no count; one that is kept here is never looked at.
Spent(r, read) ==
  [r EXCEPT !.left = IF r.shape.limited THEN r.left - 1 ELSE r.left,
            !.enabled = r.enabled /\ ~(r.shape.limited /\ r.left - 1 <= 0)]

\* ConsumeFaultHit is one UPDATE, by id; then the request is answered.
Consume(c) ==
  LET f == firing[c]
  IN  /\ At(c, "consume") /\ GoTo(c, "faulted")
      /\ rules' = [i \in DOMAIN rules |-> IF i = f.id THEN Spent(rules[i], f) ELSE rules[i]]
      /\ hits' = [hits EXCEPT ![f.name] = hits[f.name] + 1]
      /\ firing' = [firing EXCEPT ![c] = NoRule]
      /\ UNCHANGED <<nextId, kind, made, wiped, calls>>

\* The client goes away: no rules are read, or no hit is spent.
Abandon(c) ==
  /\ pc[c] \in {"read", "consume"} /\ GoTo(c, "gone")
  /\ firing' = [firing EXCEPT ![c] = NoRule]
  /\ UNCHANGED <<rules, nextId, kind, made, hits, wiped, calls>>

-----------------------------------------------------------------------------
Serve(c) == ReadRules(c) \/ Consume(c) \/ Abandon(c) \/ \E k \in Kinds : Arrive(c, k)

Next ==
  \/ \E c \in Clients : Serve(c)
  \/ \E shape \in Shapes, i \in Ids : CreateRule(shape, i)
  \/ \E i \in Ids : DeleteRule(i)
  \/ Reset

Spec == Init /\ [][Next]_vars

-----------------------------------------------------------------------------
(* What must hold *)

TypeOK ==
  /\ DOMAIN rules \subseteq Ids /\ \A i \in DOMAIN rules : rules[i] \in Rule /\ rules[i].id = i
  /\ nextId \in 1..(MaxRules + 1) /\ made \in 0..MaxRules /\ calls \in 0..MaxCalls /\ wiped \in BOOLEAN
  /\ pc \in [Clients -> Resting \cup {"read", "consume"}]
  /\ kind \in [Clients -> Kinds] /\ firing \in [Clients -> Rule \cup {NoRule}]
  /\ \A c \in Clients : IF At(c, "consume")
                          THEN firing[c] \in Rule /\ firing[c].enabled
                          ELSE firing[c] = NoRule
  /\ hits \in [Ids -> Nat]

Budget(r) == r.shape.left
AtLeastOne(n) == IF n < 1 THEN 1 ELSE n

\* A limited rule that is still enabled has hits left, or has not fired yet:
\* one created without any hits fires once.
EnabledHasHits ==
  \A i \in DOMAIN rules :
    rules[i].enabled /\ rules[i].shape.limited => rules[i].left > 0 \/ rules[i].left = Budget(rules[i])

\* Requests that read a rule before its last hit was spent overspend it, by at
\* most one each: alone, a client gets exactly what the rule was created for.
OverspendIsBounded ==
  \A i \in DOMAIN rules : rules[i].shape.limited =>
    hits[rules[i].name] <= AtLeastOne(Budget(rules[i])) + Cardinality(Clients) - 1

\* A limited rule stays enabled as long as it has hits left and answers no more
\* requests than it was created for, but for those that were under way.
BudgetIsKept == EnabledHasHits /\ OverspendIsBounded

\* A rule pays for the requests it answered and for no others, although rules
\* are deleted and created while requests that read them are on their way.
\* A reset gives ids away again and with them late hits.
HitsAreAccounted ==
  ~wiped => \A i \in DOMAIN rules :
    rules[i].shape.limited => rules[i].left = Budget(rules[i]) - hits[rules[i].name]
=============================================================================
