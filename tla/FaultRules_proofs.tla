--------------------------- MODULE FaultRules_proofs ---------------------------
(***************************************************************************)
(* What FaultRules guarantees for every finite set of clients, every shape *)
(* of rule and every bound.                                                *)
(***************************************************************************)
EXTENDS FaultRules, FiniteSetTheorems, TLAPS

-----------------------------------------------------------------------------
(* Typing *)

LEMMA TypeInit == Init => TypeOK
<1>1. DOMAIN <<>> = {} /\ (CHOOSE k \in Kinds : TRUE) \in Kinds
  BY FaultAssumption
<1>2. 1 \in 1..(MaxRules + 1) /\ 0 \in 0..MaxRules /\ 0 \in 0..MaxCalls
  BY FaultAssumption
<1>3. Init => /\ pc \in [Clients -> Resting \cup {"read", "consume"}] /\ kind \in [Clients -> Kinds]
              /\ hits \in [Ids -> Nat] /\ firing \in [Clients -> Rule \cup {NoRule}]
              /\ \A c \in Clients : ~At(c, "consume") /\ firing[c] = NoRule
  BY <1>1 DEF Init, At, Resting
<1> QED
  BY <1>1, <1>2, <1>3 DEF Init, TypeOK

LEMMA SpentIsTyped ==
  ASSUME NEW r \in Rule, NEW read
  PROVE  /\ Spent(r, read) \in Rule
         /\ Spent(r, read).id = r.id /\ Spent(r, read).name = r.name /\ Spent(r, read).shape = r.shape
         /\ r.shape.limited => Spent(r, read).left = r.left - 1
         /\ Spent(r, read).enabled => r.enabled /\ (r.shape.limited => r.left - 1 > 0)
<1>1. r.shape.limited \in BOOLEAN /\ r.left \in Int /\ r.enabled \in BOOLEAN
  BY FaultAssumption DEF Rule
<1> DEFINE left == IF r.shape.limited THEN r.left - 1 ELSE r.left
           enabled == r.enabled /\ ~(r.shape.limited /\ r.left - 1 <= 0)
<1>2. left \in Int /\ enabled \in BOOLEAN
  BY <1>1
<1>3. /\ r.shape.limited => left = r.left - 1
      /\ enabled => r.enabled /\ (r.shape.limited => r.left - 1 > 0)
  BY <1>1
<1>4. Spent(r, read) = [r EXCEPT !.left = left, !.enabled = enabled]
  BY DEF Spent
<1> HIDE DEF left, enabled
<1>5. Spent(r, read) = [id |-> r.id, name |-> r.name, shape |-> r.shape, enabled |-> enabled, left |-> left]
  BY <1>4 DEF Rule
<1> QED
  BY <1>2, <1>3, <1>5 DEF Rule

LEMMA TypeCreate ==
  ASSUME TypeOK, NEW shape \in Shapes, NEW i \in Ids, CreateRule(shape, i)
  PROVE  TypeOK'
<1>1. made + 1 \in Ids /\ i + 1 \in 1..(MaxRules + 1) /\ shape.left \in Int
  BY FaultAssumption DEF CreateRule, TypeOK, Ids
<1>2. [id |-> i, name |-> made + 1, shape |-> shape, enabled |-> TRUE, left |-> shape.left] \in Rule
  BY <1>1 DEF Rule
<1>3. made' \in 0..MaxRules /\ nextId' \in 1..(MaxRules + 1)
  BY <1>1, FaultAssumption DEF CreateRule, TypeOK, Ids
<1>4. DOMAIN rules' \subseteq Ids /\ \A j \in DOMAIN rules' : rules'[j] \in Rule /\ rules'[j].id = j
  BY <1>2 DEF CreateRule, TypeOK
<1> QED
  BY <1>3, <1>4 DEF CreateRule, TypeOK, requestVars, At

LEMMA TypeServe ==
  ASSUME TypeOK, NEW c \in Clients, Serve(c)
  PROVE  TypeOK'
<1>1. CASE ReadRules(c)
  <2>1. CASE \E i \in DOMAIN rules : MayFire(i, kind[c]) /\ firing' = [firing EXCEPT ![c] = rules[i]] /\ GoTo(c, "consume")
    BY <1>1, <2>1 DEF ReadRules, MayFire, Matches, TypeOK, At, GoTo
  <2>2. CASE GoTo(c, "passed") /\ UNCHANGED firing
    BY <1>1, <2>2 DEF ReadRules, TypeOK, At, GoTo, Resting
  <2> QED
    BY <1>1, <2>1, <2>2 DEF ReadRules
<1>2. CASE Consume(c)
  <2>1. firing[c].name \in Ids
    BY <1>2 DEF Consume, At, TypeOK, Rule
  <2>2. DOMAIN rules' \subseteq Ids /\ \A j \in DOMAIN rules' : rules'[j] \in Rule /\ rules'[j].id = j
    BY <1>2, SpentIsTyped DEF Consume, TypeOK
  <2>3. hits' \in [Ids -> Nat]
    BY <1>2, <2>1 DEF Consume, TypeOK
  <2> QED
    BY <1>2, <2>2, <2>3 DEF Consume, TypeOK, At, GoTo, Resting
<1>3. CASE Abandon(c)
  BY <1>3 DEF Abandon, TypeOK, At, GoTo, Resting
<1>4. ASSUME NEW k \in Kinds, Arrive(c, k) PROVE TypeOK'
  BY <1>4, FaultAssumption DEF Arrive, TypeOK, At, GoTo, Resting
<1> QED
  BY <1>1, <1>2, <1>3, <1>4 DEF Serve

LEMMA TypeNext == TypeOK /\ [Next]_vars => TypeOK'
<1> SUFFICES ASSUME TypeOK, [Next]_vars PROVE TypeOK'
  OBVIOUS
<1>1. ASSUME NEW i \in Ids, DeleteRule(i) PROVE TypeOK'
  BY <1>1 DEF DeleteRule, TypeOK, requestVars, At
<1>2. CASE Reset
  BY <1>2, FaultAssumption DEF Reset, TypeOK, requestVars, At
<1>3. CASE UNCHANGED vars
  BY <1>3 DEF vars, TypeOK, requestVars, At
<1> QED
  BY <1>1, <1>2, <1>3, TypeCreate, TypeServe DEF Next

\* Rules, requests and histories stay well typed; a request fires a rule that was
\* enabled when it read it.
THEOREM TypeCorrect == Spec => []TypeOK
BY TypeInit, TypeNext, PTL DEF Spec

-----------------------------------------------------------------------------
(* Accounting *)

\* Until a reset the number of a rule is its id.
NumberedByIds ==
  ~wiped => /\ nextId = made + 1
            /\ \A i \in DOMAIN rules : rules[i].name = i
            /\ \A c \in Clients : At(c, "consume") => firing[c].name = firing[c].id

\* A number names one rule for good, also across resets.
NamesAreUnique ==
  /\ \A i \in DOMAIN rules : rules[i].name <= made
  /\ \A i, j \in DOMAIN rules : rules[i].name = rules[j].name => i = j
  /\ \A c \in Clients : At(c, "consume") =>
       /\ firing[c].name <= made
       /\ \A i \in DOMAIN rules : rules[i].name = firing[c].name => i = firing[c].id
  /\ \A n \in Ids : n > made => hits[n] = 0

Pending(n) == {c \in Clients : At(c, "consume") /\ firing[c].name = n}
Bound(r) == AtLeastOne(Budget(r)) + Cardinality(Clients) - 1

\* A hit is paid for at once; late ones are counted before they are spent.
HitsAreSpent ==
  \A i \in DOMAIN rules : rules[i].shape.limited =>
    /\ hits[rules[i].name] <= Budget(rules[i]) - rules[i].left
    /\ hits[rules[i].name] + Cardinality(Pending(rules[i].name)) <= Bound(rules[i])

Accounts == NumberedByIds /\ HitsAreAccounted /\ NamesAreUnique /\ EnabledHasHits /\ HitsAreSpent

LEMMA OthersAreKept ==
  ASSUME TypeOK, NEW c \in Clients, Serve(c), NEW d \in Clients \ {c}
  PROVE  pc'[d] = pc[d] /\ firing'[d] = firing[d]
BY DEF Serve, ReadRules, Consume, Abandon, Arrive, GoTo, TypeOK

\* What a step that creates no rule does to the rules: they are spent, or gone.
RulesAreSpent ==
  /\ DOMAIN rules' \subseteq DOMAIN rules /\ made' = made
  /\ \A i \in DOMAIN rules' : /\ rules'[i].name = rules[i].name /\ rules'[i].shape = rules[i].shape
                              /\ rules[i].shape.limited => rules'[i].left <= rules[i].left

LEMMA ServeSpends ==
  ASSUME TypeOK, NEW c \in Clients, Serve(c) PROVE RulesAreSpent
<1>1. ASSUME NEW i \in DOMAIN rules PROVE rules[i] \in Rule /\ rules[i].left \in Int
  BY DEF TypeOK, Rule
<1>2. CASE Consume(c)
  <2>1. DOMAIN rules' = DOMAIN rules /\ made' = made
        /\ \A i \in DOMAIN rules' : rules'[i] = rules[i] \/ rules'[i] = Spent(rules[i], firing[c])
    BY <1>2 DEF Consume
  <2> SUFFICES ASSUME NEW i \in DOMAIN rules
               PROVE  /\ rules'[i].name = rules[i].name /\ rules'[i].shape = rules[i].shape
                      /\ rules[i].shape.limited => rules'[i].left <= rules[i].left
    BY <2>1 DEF RulesAreSpent
  <2>2. CASE rules'[i] = rules[i]
    BY <1>1, <2>2
  <2>3. CASE rules'[i] = Spent(rules[i], firing[c])
    <3>1. rules[i].shape.limited => rules'[i].left = rules[i].left - 1
      BY <1>1, <2>3, SpentIsTyped
    <3>2. rules'[i].name = rules[i].name /\ rules'[i].shape = rules[i].shape
      BY <1>1, <2>3, SpentIsTyped
    <3> QED
      BY <1>1, <3>1, <3>2
  <2> QED
    BY <2>1, <2>2, <2>3
<1>3. CASE ReadRules(c) \/ Abandon(c) \/ \E k \in Kinds : Arrive(c, k)
  <2>1. rules' = rules /\ made' = made
    BY <1>3 DEF ReadRules, Abandon, Arrive
  <2> QED
    BY <1>1, <2>1 DEF RulesAreSpent
<1> QED
  BY <1>2, <1>3 DEF Serve

LEMMA RemovalSpends ==
  ASSUME TypeOK, (\E i \in Ids : DeleteRule(i)) \/ Reset \/ UNCHANGED vars PROVE RulesAreSpent
<1>1. DOMAIN rules' \subseteq DOMAIN rules /\ made' = made /\ \A i \in DOMAIN rules' : rules'[i] = rules[i]
  <2>1. DOMAIN <<>> = {}
    OBVIOUS
  <2>2. CASE Reset
    BY <2>1, <2>2 DEF Reset
  <2>3. CASE (\E i \in Ids : DeleteRule(i)) \/ UNCHANGED vars
    BY <2>3 DEF DeleteRule, vars
  <2> QED
    BY <2>2, <2>3
<1>2. \A i \in DOMAIN rules : rules[i].left \in Int
  BY DEF TypeOK, Rule
<1> QED
  BY <1>1, <1>2 DEF RulesAreSpent

LEMMA NamesCreate ==
  ASSUME TypeOK, NamesAreUnique, NEW shape \in Shapes, NEW i \in Ids, CreateRule(shape, i)
  PROVE  NamesAreUnique'
<1>1. made \in Nat /\ made' = made + 1 /\ UNCHANGED <<hits, pc, firing>>
  BY DEF CreateRule, TypeOK, requestVars
<1>2. DOMAIN rules' = DOMAIN rules \cup {i}
      /\ \A j \in DOMAIN rules' : rules'[j].name = IF j = i THEN made + 1 ELSE rules[j].name
  BY DEF CreateRule
<1>3. \A j \in DOMAIN rules : rules[j].name \in Nat /\ rules[j].name <= made
  BY DEF TypeOK, Rule, Ids, NamesAreUnique
<1>4. \A c \in Clients : At(c, "consume") => firing[c].name \in Nat /\ firing[c].name <= made
  BY DEF TypeOK, Rule, Ids, NamesAreUnique
<1>5. \A j \in DOMAIN rules' : rules'[j].name <= made'
  BY <1>1, <1>2, <1>3
<1>6. \A j, k \in DOMAIN rules' : rules'[j].name = rules'[k].name => j = k
  BY <1>1, <1>2, <1>3 DEF NamesAreUnique
<1>7. ASSUME NEW c \in Clients, At(c, "consume")
      PROVE  firing[c].name <= made' /\ \A j \in DOMAIN rules' : rules'[j].name = firing[c].name => j = firing[c].id
  BY <1>1, <1>2, <1>4, <1>7 DEF NamesAreUnique
<1>8. \A n \in Ids : n > made' => hits[n] = 0
  BY <1>1 DEF NamesAreUnique, Ids
<1> QED
  BY <1>1, <1>5, <1>6, <1>7, <1>8 DEF NamesAreUnique, At

\* A request that comes to fire a rule, or spends a hit, has read it from the table.
LEMMA FiringIsRead ==
  ASSUME TypeOK, NEW c \in Clients, Serve(c), NEW d \in Clients, At(d, "consume")'
  PROVE  \/ At(d, "consume") /\ firing'[d] = firing[d]
         \/ /\ d = c /\ ReadRules(c)
            /\ \E i \in DOMAIN rules : firing'[d] = rules[i] /\ rules[i].enabled
<1>1. CASE d # c
  BY <1>1, OthersAreKept DEF At
<1>2. CASE d = c
  <2>1. ~Consume(c) /\ ~Abandon(c) /\ ~\E k \in Kinds : Arrive(c, k)
    BY <1>2 DEF Consume, Abandon, Arrive, GoTo, At, TypeOK
  <2> QED
    BY <1>2, <2>1 DEF Serve, ReadRules, MayFire, Matches, GoTo, At, TypeOK
<1> QED
  BY <1>1, <1>2

LEMMA NamesServe ==
  ASSUME TypeOK, NamesAreUnique, NEW c \in Clients, Serve(c)
  PROVE  NamesAreUnique'
<1>1. RulesAreSpent
  BY ServeSpends
<1>2. ASSUME NEW d \in Clients, At(d, "consume")'
      PROVE  /\ firing'[d].name <= made'
             /\ \A i \in DOMAIN rules' : rules'[i].name = firing'[d].name => i = firing'[d].id
  BY <1>1, <1>2, FiringIsRead DEF RulesAreSpent, NamesAreUnique, TypeOK
<1>3. ASSUME NEW n \in Ids, n > made' PROVE hits'[n] = 0
  <2>1. CASE Consume(c)
    <3>1. firing[c].name <= made /\ firing[c].name \in Nat /\ made \in Nat /\ n \in Nat
      BY <2>1 DEF Consume, NamesAreUnique, TypeOK, Rule, At, Ids
    <3>2. firing[c].name # n
      BY <1>1, <1>3, <3>1 DEF RulesAreSpent
    <3> QED
      BY <1>1, <1>3, <2>1, <3>2 DEF Consume, RulesAreSpent, NamesAreUnique, TypeOK
  <2>2. CASE ~Consume(c)
    BY <1>1, <1>3, <2>2 DEF Serve, ReadRules, Abandon, Arrive, RulesAreSpent, NamesAreUnique
  <2> QED
    BY <2>1, <2>2
<1> QED
  BY <1>1, <1>2, <1>3 DEF RulesAreSpent, NamesAreUnique

LEMMA NamesNext == TypeOK /\ NamesAreUnique /\ [Next]_vars => NamesAreUnique'
<1> SUFFICES ASSUME TypeOK, NamesAreUnique, [Next]_vars PROVE NamesAreUnique'
  OBVIOUS
<1>1. CASE (\E i \in Ids : DeleteRule(i)) \/ Reset \/ UNCHANGED vars
  <2>1. RulesAreSpent
    BY <1>1, RemovalSpends
  <2>2. UNCHANGED <<pc, firing, hits>>
    BY <1>1 DEF DeleteRule, Reset, vars, requestVars
  <2> QED
    BY <2>1, <2>2 DEF RulesAreSpent, NamesAreUnique, At
<1> QED
  BY <1>1, NamesCreate, NamesServe DEF Next

\* Every rule is paid for by the requests it answered, until a reset.
Paid == NumberedByIds /\ HitsAreAccounted

LEMMA PaidCreate ==
  ASSUME TypeOK, NamesAreUnique, Paid, NEW shape \in Shapes, NEW i \in Ids, CreateRule(shape, i), ~wiped
  PROVE  Paid'
<1>1. /\ nextId = made + 1 /\ \A j \in DOMAIN rules : rules[j].name = j
      /\ \A c \in Clients : At(c, "consume") => firing[c].name = firing[c].id
      /\ \A j \in DOMAIN rules : rules[j].shape.limited => rules[j].left = Budget(rules[j]) - hits[rules[j].name]
  BY DEF Paid, NumberedByIds, HitsAreAccounted
<1>2. i = made + 1 /\ made' = made + 1 /\ nextId' = i + 1 /\ UNCHANGED <<pc, firing, hits>>
  BY <1>1 DEF CreateRule, FreshId, requestVars
<1>3. DOMAIN rules' = DOMAIN rules \cup {i} /\ \A j \in DOMAIN rules' : j # i => rules'[j] = rules[j]
  BY DEF CreateRule
<1>4. rules'[i].name = made + 1 /\ rules'[i].shape = shape /\ rules'[i].left = shape.left
  BY DEF CreateRule
<1>5. hits[i] = 0
  BY <1>2 DEF NamesAreUnique, TypeOK
<1>6. shape.left \in Int
  BY FaultAssumption
<1>7. NumberedByIds'
  BY <1>1, <1>2, <1>3, <1>4 DEF NumberedByIds, At
<1>8. ASSUME NEW j \in DOMAIN rules', rules'[j].shape.limited
      PROVE  rules'[j].left = Budget(rules'[j]) - hits[rules'[j].name]
  <2>1. CASE j = i
    BY <1>2, <1>4, <1>5, <1>6, <2>1 DEF Budget
  <2>2. CASE j # i
    BY <1>1, <1>3, <1>8, <2>2 DEF Budget
  <2> QED
    BY <2>1, <2>2
<1> QED
  BY <1>2, <1>7, <1>8 DEF Paid, HitsAreAccounted

LEMMA PaidServe ==
  ASSUME TypeOK, Paid, NEW c \in Clients, Serve(c), ~wiped
  PROVE  Paid'
<1>1. /\ nextId = made + 1 /\ \A j \in DOMAIN rules : rules[j].name = j
      /\ \A d \in Clients : At(d, "consume") => firing[d].name = firing[d].id
      /\ \A j \in DOMAIN rules : rules[j].shape.limited => rules[j].left = Budget(rules[j]) - hits[rules[j].name]
  BY DEF Paid, NumberedByIds, HitsAreAccounted
<1>2. RulesAreSpent
  BY ServeSpends
<1>3. NumberedByIds'
  <2>1. ASSUME NEW d \in Clients, At(d, "consume")' PROVE firing'[d].name = firing'[d].id
    BY <1>1, <2>1, FiringIsRead DEF TypeOK
  <2>2. nextId' = nextId
    BY DEF Serve, ReadRules, Consume, Abandon, Arrive
  <2> QED
    BY <1>1, <1>2, <2>1, <2>2 DEF NumberedByIds, RulesAreSpent
<1>4. CASE Consume(c)
  <2>1. firing[c].name = firing[c].id /\ firing[c].name \in Ids
    BY <1>1, <1>4 DEF Consume, TypeOK, Rule, At
  <2>2. /\ DOMAIN rules' = DOMAIN rules
        /\ \A j \in DOMAIN rules' : rules'[j] = IF j = firing[c].id THEN Spent(rules[j], firing[c]) ELSE rules[j]
        /\ hits' = [hits EXCEPT ![firing[c].name] = hits[firing[c].name] + 1]
    BY <1>4 DEF Consume
  <2>3. ASSUME NEW j \in DOMAIN rules, rules'[j].shape.limited
        PROVE  rules'[j].left = Budget(rules'[j]) - hits'[rules'[j].name]
    <3>1. rules[j] \in Rule /\ rules[j].left \in Int /\ hits \in [Ids -> Nat] /\ j \in Ids
          /\ Budget(rules[j]) \in Int /\ rules[j].name = j
      BY <1>1, FaultAssumption DEF TypeOK, Rule, Budget
    <3>2. rules'[j].name = j /\ rules'[j].shape = rules[j].shape
      BY <1>2, <2>2, <3>1 DEF RulesAreSpent
    <3>3. CASE j = firing[c].id
      <4>1. hits'[j] = hits[j] + 1
        BY <2>1, <2>2, <3>1, <3>3
      <4>2. rules'[j].left = rules[j].left - 1
        BY <2>2, <2>3, <3>1, <3>2, <3>3, SpentIsTyped
      <4> QED
        BY <1>1, <2>3, <3>1, <3>2, <4>1, <4>2 DEF Budget
    <3>4. CASE j # firing[c].id
      <4>1. hits'[j] = hits[j] /\ rules'[j] = rules[j]
        BY <2>1, <2>2, <3>1, <3>4
      <4> QED
        BY <1>1, <2>3, <3>1, <4>1
    <3> QED
      BY <3>3, <3>4
  <2> QED
    BY <1>3, <2>2, <2>3 DEF Paid, HitsAreAccounted
<1>5. CASE ~Consume(c)
  <2>1. UNCHANGED <<rules, hits>>
    BY <1>5 DEF Serve, ReadRules, Abandon, Arrive
  <2> QED
    BY <1>1, <1>3, <2>1 DEF Paid, HitsAreAccounted, Budget
<1> QED
  BY <1>4, <1>5

LEMMA PaidNext == TypeOK /\ NamesAreUnique /\ Paid /\ [Next]_vars => Paid'
<1> SUFFICES ASSUME TypeOK, NamesAreUnique, Paid, [Next]_vars, ~wiped' PROVE Paid'
  BY DEF Paid, NumberedByIds, HitsAreAccounted
<1>1. ~wiped /\ ~Reset
  <2>1. ~Reset
    BY DEF Reset
  <2>2. wiped' = wiped
    BY <2>1 DEF Next, Serve, ReadRules, Consume, Abandon, Arrive, CreateRule, DeleteRule, vars
  <2> QED
    BY <2>1, <2>2
<1>2. ASSUME (\E i \in Ids : DeleteRule(i)) \/ UNCHANGED vars PROVE Paid'
  <2>1. DOMAIN rules' \subseteq DOMAIN rules /\ \A i \in DOMAIN rules' : rules'[i] = rules[i]
    BY <1>2 DEF DeleteRule, vars
  <2>2. UNCHANGED <<pc, firing, hits, made, nextId, wiped>>
    BY <1>2 DEF DeleteRule, vars, requestVars
  <2> QED
    BY <2>1, <2>2 DEF Paid, NumberedByIds, HitsAreAccounted, Budget, At
<1> QED
  BY <1>1, <1>2, PaidCreate, PaidServe DEF Next

-----------------------------------------------------------------------------
(* Budgets *)

LEMMA EnabledNext == TypeOK /\ EnabledHasHits /\ [Next]_vars => EnabledHasHits'
<1> SUFFICES ASSUME TypeOK, EnabledHasHits, [Next]_vars PROVE EnabledHasHits'
  OBVIOUS
<1>1. ASSUME NEW shape \in Shapes, NEW i \in Ids, CreateRule(shape, i) PROVE EnabledHasHits'
  BY <1>1 DEF CreateRule, EnabledHasHits, Budget
<1>2. ASSUME DOMAIN rules' \subseteq DOMAIN rules, \A i \in DOMAIN rules' : rules'[i] = rules[i] PROVE EnabledHasHits'
  BY <1>2 DEF EnabledHasHits, Budget
<1>3. CASE (\E i \in Ids : DeleteRule(i)) \/ UNCHANGED vars
  BY <1>2, <1>3 DEF DeleteRule, vars
<1>4. CASE Reset
  <2>1. DOMAIN <<>> = {}
    OBVIOUS
  <2> QED
    BY <1>2, <1>4, <2>1 DEF Reset
<1>5. ASSUME NEW c \in Clients, Consume(c) PROVE EnabledHasHits'
  <2>1. DOMAIN rules' = DOMAIN rules
        /\ \A i \in DOMAIN rules' : rules'[i] = rules[i] \/ rules'[i] = Spent(rules[i], firing[c])
    BY <1>5 DEF Consume
  <2>2. ASSUME NEW i \in DOMAIN rules, rules'[i] = Spent(rules[i], firing[c]),
               rules'[i].enabled, rules'[i].shape.limited
        PROVE  rules'[i].left > 0
    <3>1. rules[i] \in Rule
      BY DEF TypeOK
    <3> QED
      BY <2>2, <3>1, SpentIsTyped
  <2> QED
    BY <2>1, <2>2 DEF EnabledHasHits, Budget
<1>6. ASSUME NEW c \in Clients, Serve(c), ~Consume(c) PROVE EnabledHasHits'
  BY <1>2, <1>6 DEF Serve, ReadRules, Abandon, Arrive
<1> QED
  BY <1>1, <1>3, <1>4, <1>5, <1>6 DEF Next

LEMMA PendingIsFinite ==
  \A n : IsFiniteSet(Pending(n)) /\ Cardinality(Pending(n)) \in 0..Cardinality(Clients)
  /\ Cardinality(Clients) \in Nat
BY FaultAssumption, FS_Subset, FS_CardinalityType DEF Pending

\* A rule that is still enabled has answered fewer requests than it may, or none.
LEMMA EnabledIsUnderspent ==
  ASSUME TypeOK, EnabledHasHits, HitsAreSpent, NEW i \in DOMAIN rules, rules[i].enabled, rules[i].shape.limited
  PROVE  hits[rules[i].name] <= AtLeastOne(Budget(rules[i])) - 1
<1>1. rules[i].left \in Int /\ Budget(rules[i]) \in Int /\ hits[rules[i].name] \in Nat
  BY FaultAssumption DEF TypeOK, Rule, Budget
<1>2. hits[rules[i].name] <= Budget(rules[i]) - rules[i].left
  BY DEF HitsAreSpent
<1>3. rules[i].left > 0 \/ rules[i].left = Budget(rules[i])
  BY DEF EnabledHasHits
<1> QED
  BY <1>1, <1>2, <1>3 DEF AtLeastOne

LEMMA BoundIsInt ==
  ASSUME TypeOK, NEW i \in DOMAIN rules
  PROVE  Budget(rules[i]) \in Int /\ AtLeastOne(Budget(rules[i])) \in Nat \ {0}
         /\ Bound(rules[i]) \in Nat /\ rules[i].left \in Int
         /\ rules[i].name \in Ids /\ hits[rules[i].name] \in Nat
<1>1. rules[i] \in Rule
  BY DEF TypeOK
<1>2. Budget(rules[i]) \in Int /\ rules[i].left \in Int /\ rules[i].name \in Ids
  BY <1>1, FaultAssumption DEF Rule, Budget
<1>3. AtLeastOne(Budget(rules[i])) \in Nat \ {0}
  BY <1>2 DEF AtLeastOne
<1>4. Bound(rules[i]) \in Nat
  BY <1>3, PendingIsFinite DEF Bound
<1> QED
  BY <1>2, <1>3, <1>4 DEF TypeOK

\* A step that answers nobody: requests that come to fire a rule found it enabled.
LEMMA UnansweredKeepsBounds ==
  ASSUME TypeOK, EnabledHasHits, HitsAreSpent, NamesAreUnique, NEW c \in Clients, Serve(c), ~Consume(c)
  PROVE  HitsAreSpent'
<1>1. rules' = rules /\ hits' = hits
  BY DEF Serve, ReadRules, Abandon, Arrive
<1> SUFFICES ASSUME NEW i \in DOMAIN rules, rules[i].shape.limited
             PROVE  hits[rules[i].name] + Cardinality(Pending(rules[i].name)') <= Bound(rules[i])
  BY <1>1 DEF HitsAreSpent, Budget, Bound
<1>2. Cardinality(Pending(rules[i].name)') \in 0..Cardinality(Clients) /\ Cardinality(Clients) \in Nat
  BY FaultAssumption, FS_Subset, FS_CardinalityType DEF Pending
<1>3. CASE rules[i].enabled
  <2>1. hits[rules[i].name] <= AtLeastOne(Budget(rules[i])) - 1
    BY <1>3, EnabledIsUnderspent
  <2> QED
    BY <1>2, <2>1, BoundIsInt DEF Bound
<1>4. CASE ~rules[i].enabled
  <2>1. ASSUME NEW d \in Clients, At(d, "consume")', firing'[d].name = rules[i].name
        PROVE  At(d, "consume") /\ firing[d].name = rules[i].name
    <3>1. CASE At(d, "consume") /\ firing'[d] = firing[d]
      BY <2>1, <3>1
    <3>2. ~\E j \in DOMAIN rules : firing'[d] = rules[j] /\ rules[j].enabled
      BY <1>4, <2>1 DEF NamesAreUnique
    <3> QED
      BY <2>1, <3>1, <3>2, FiringIsRead
  <2>2. Pending(rules[i].name)' \subseteq Pending(rules[i].name)
    BY <1>1, <2>1 DEF Pending
  <2>3. Cardinality(Pending(rules[i].name)') <= Cardinality(Pending(rules[i].name))
    BY <2>2, PendingIsFinite, FS_Subset
  <2> QED
    BY <1>2, <2>3, PendingIsFinite, BoundIsInt DEF HitsAreSpent
<1> QED
  BY <1>3, <1>4

\* A request that is answered is no longer pending, and its rule is spent.
LEMMA AnsweredKeepsBounds ==
  ASSUME TypeOK, HitsAreSpent, NamesAreUnique, NEW c \in Clients, Consume(c)
  PROVE  HitsAreSpent'
<1> DEFINE f == firing[c]
<1>1. /\ DOMAIN rules' = DOMAIN rules
      /\ \A j \in DOMAIN rules' : rules'[j] = IF j = f.id THEN Spent(rules[j], f) ELSE rules[j]
      /\ hits' = [hits EXCEPT ![f.name] = hits[f.name] + 1]
      /\ At(c, "consume") /\ f.name \in Ids
  BY DEF Consume, At, TypeOK, Rule
<1>2. RulesAreSpent
  BY ServeSpends DEF Serve
<1> SUFFICES ASSUME NEW i \in DOMAIN rules, rules[i].shape.limited, NEW n \in Ids, n = rules[i].name
             PROVE  /\ hits'[n] <= Budget(rules[i]) - rules'[i].left
                    /\ hits'[n] + Cardinality(Pending(n)') <= Bound(rules[i])
  BY <1>1, <1>2, BoundIsInt DEF HitsAreSpent, RulesAreSpent, Budget, Bound, Pending
<1>3. /\ hits[n] <= Budget(rules[i]) - rules[i].left
      /\ hits[n] + Cardinality(Pending(n)) <= Bound(rules[i])
  BY DEF HitsAreSpent
<1>4. rules'[i] = (IF i = f.id THEN Spent(rules[i], f) ELSE rules[i]) /\ rules[i] \in Rule
  BY <1>1 DEF TypeOK
<1>5. rules'[i].left \in Int /\ rules'[i].left <= rules[i].left
      /\ (i = f.id => rules'[i].left = rules[i].left - 1)
  <2>1. i = f.id => rules'[i].left = rules[i].left - 1
    BY <1>4, SpentIsTyped
  <2> QED
    BY <1>4, <2>1, BoundIsInt
<1>6. \A d \in Clients : At(d, "consume")' => d # c /\ At(d, "consume") /\ firing'[d] = firing[d]
  BY DEF Consume, GoTo, At, TypeOK
<1>7. Pending(n)' \subseteq Pending(n) \ {c}
  BY <1>6 DEF Pending
<1>8. IsFiniteSet(Pending(n)) /\ Cardinality(Pending(n)) \in Nat
  BY PendingIsFinite
<1>9. CASE f.name = n
  <2>1. c \in Pending(n) /\ i = f.id
    BY <1>1, <1>9 DEF Pending, NamesAreUnique
  <2>2. Cardinality(Pending(n) \ {c}) = Cardinality(Pending(n)) - 1
        /\ IsFiniteSet(Pending(n) \ {c})
    BY <1>8, <2>1, FS_RemoveElement
  <2>3. Cardinality(Pending(n)') <= Cardinality(Pending(n)) - 1
        /\ Cardinality(Pending(n)') \in Nat
    BY <1>7, <2>2, FS_Subset, FS_CardinalityType
  <2>4. hits'[n] = hits[n] + 1
    BY <1>1, <1>9, BoundIsInt DEF TypeOK
  <2> QED
    BY <1>3, <1>5, <1>8, <2>1, <2>3, <2>4, BoundIsInt
<1>10. CASE f.name # n
  <2>1. hits'[n] = hits[n]
    BY <1>1, <1>10, BoundIsInt DEF TypeOK
  <2>2. Cardinality(Pending(n)') <= Cardinality(Pending(n))
        /\ Cardinality(Pending(n)') \in Nat
    BY <1>7, <1>8, FS_Subset, FS_CardinalityType
  <2> QED
    BY <1>3, <1>5, <1>8, <2>1, <2>2, BoundIsInt
<1> QED
  BY <1>9, <1>10

LEMMA CreateKeepsBounds ==
  ASSUME TypeOK, HitsAreSpent, NamesAreUnique, NEW shape \in Shapes, NEW i \in Ids, CreateRule(shape, i)
  PROVE  HitsAreSpent'
<1>1. /\ DOMAIN rules' = DOMAIN rules \cup {i} /\ UNCHANGED <<pc, firing, hits>> /\ made + 1 \in Ids
      /\ \A j \in DOMAIN rules' : j # i => rules'[j] = rules[j]
      /\ rules'[i] = [id |-> i, name |-> made + 1, shape |-> shape, enabled |-> TRUE, left |-> shape.left]
  BY FaultAssumption DEF CreateRule, requestVars, TypeOK, Ids
<1>2. hits[made + 1] = 0
  BY <1>1 DEF NamesAreUnique, TypeOK
<1>3. Cardinality(Pending(made + 1)) = 0
  <2>1. Pending(made + 1) = {}
    BY DEF Pending, NamesAreUnique, TypeOK
  <2> QED
    BY <2>1, FS_EmptySet
<1>4. shape.left \in Int /\ Cardinality(Clients) \in Nat
  BY FaultAssumption, PendingIsFinite
<1> SUFFICES ASSUME NEW j \in DOMAIN rules', rules'[j].shape.limited, NEW n, n = rules'[j].name
             PROVE  /\ hits[n] <= Budget(rules'[j]) - rules'[j].left
                    /\ hits[n] + Cardinality(Pending(n)) <= Bound(rules'[j])
  BY <1>1 DEF HitsAreSpent, Budget, Bound, Pending, At
<1>5. CASE j = i
  BY <1>1, <1>2, <1>3, <1>4, <1>5 DEF Budget, Bound, AtLeastOne
<1>6. CASE j # i
  BY <1>1, <1>6 DEF HitsAreSpent, Budget, Bound
<1> QED
  BY <1>5, <1>6

LEMMA HitsNext == TypeOK /\ EnabledHasHits /\ HitsAreSpent /\ NamesAreUnique /\ [Next]_vars => HitsAreSpent'
<1> SUFFICES ASSUME TypeOK, EnabledHasHits, HitsAreSpent, NamesAreUnique, [Next]_vars PROVE HitsAreSpent'
  OBVIOUS
<1>1. CASE (\E i \in Ids : DeleteRule(i)) \/ Reset \/ UNCHANGED vars
  <2>1. DOMAIN <<>> = {}
    OBVIOUS
  <2>2. DOMAIN rules' \subseteq DOMAIN rules /\ \A i \in DOMAIN rules' : rules'[i] = rules[i]
    BY <1>1, <2>1 DEF DeleteRule, Reset, vars
  <2>3. hits' = hits /\ \A n : Pending(n)' = Pending(n)
    BY <1>1 DEF DeleteRule, Reset, vars, requestVars, Pending, At
  <2> QED
    BY <2>2, <2>3 DEF HitsAreSpent, Budget, Bound
<1> QED
  BY <1>1, CreateKeepsBounds, UnansweredKeepsBounds, AnsweredKeepsBounds DEF Next

LEMMA AccountsAreKept == Spec => [](TypeOK /\ Accounts)
<1>1. Init => NumberedByIds /\ HitsAreAccounted /\ NamesAreUnique /\ EnabledHasHits /\ HitsAreSpent
  <2>1. DOMAIN <<>> = {}
    OBVIOUS
  <2> QED
    BY <2>1 DEF Init, NumberedByIds, HitsAreAccounted, NamesAreUnique, EnabledHasHits, HitsAreSpent, At
<1>2. TypeOK /\ Accounts /\ [Next]_vars => TypeOK' /\ Accounts'
  BY TypeNext, PaidNext, NamesNext, EnabledNext, HitsNext DEF Accounts, Paid
<1> QED
  BY <1>1, <1>2, TypeInit, PTL DEF Spec, Accounts

\* A limited rule stays enabled as long as it has hits left, and answers no more
\* requests than it was created for but for those that were under way.
THEOREM BudgetsAreKept == Spec => []BudgetIsKept
<1>1. TypeOK /\ Accounts => OverspendIsBounded
  <2> SUFFICES ASSUME TypeOK, Accounts, NEW i \in DOMAIN rules, rules[i].shape.limited
               PROVE  hits[rules[i].name] <= Bound(rules[i])
    BY DEF OverspendIsBounded, Bound
  <2>1. hits[rules[i].name] + Cardinality(Pending(rules[i].name)) <= Bound(rules[i])
    BY DEF Accounts, HitsAreSpent
  <2> QED
    BY <2>1, BoundIsInt, PendingIsFinite
<1> QED
  BY <1>1, AccountsAreKept, PTL DEF BudgetIsKept, Accounts

\* A rule pays for the requests it answered and for no others, until a reset.
THEOREM HitsAreAlwaysAccounted == Spec => []HitsAreAccounted
BY AccountsAreKept, PTL DEF Accounts
=============================================================================
