------------------------- MODULE MigrateReset_proofs -------------------------
(***************************************************************************)
(* What Migrate and Reset guarantee for every set of resetters and every   *)
(* number of resets, crashes and contacts.                                 *)
(***************************************************************************)
EXTENDS MigrateReset, FiniteSetTheorems, TLAPS

Touching == {"create", "read", "apply"}

-----------------------------------------------------------------------------
(* Typing *)

LEMMA NamesDiffer ==
  /\ Resetters \subseteq Migrators /\ Boot \in Migrators
  /\ \A r \in Resetters : r # Boot /\ r # Nobody
  /\ \A p \in Migrators : p # Boot => p \in Resetters
BY ResetAssumption DEF Migrators

LEMMA TypeInit == Init => TypeOK
<1> SUFFICES ASSUME Init PROVE TypeOK
  OBVIOUS
<1>1. pc \in [Migrators -> Steps \cup Resting]
  BY DEF Init, Steps, Resting
<1>2. ConnectionOwner
  BY NamesDiffer DEF Init, ConnectionOwner, At
<1>3. known \in [Migrators -> SUBSET Migrations] /\ older \in [Migrators -> SUBSET (1..MaxRows)]
  BY DEF Init
<1>4. 1 \in 1..(MaxRows + 1) /\ 0 \in 0..MaxResets /\ 0 \in 0..MaxCrashes
  BY ResetAssumption
<1> QED
  BY <1>1, <1>2, <1>3, <1>4 DEF Init, TypeOK

\* How a goroutine ends, whatever its result.
LEMMA EndIsTyped ==
  ASSUME TypeOK, NEW p \in Migrators, NEW result \in {"ok", "failed"}, End(p, result)
  PROVE  /\ pc' \in [Migrators -> Steps \cup Resting]
         /\ known' \in [Migrators -> SUBSET Migrations]
         /\ older' \in [Migrators -> SUBSET (1..MaxRows)]
         /\ phase' \in {"starting", "up", "down"}
BY DEF TypeOK, End, GoTo, Forget, PhaseAfter, Resting

LEMMA TypeReset ==
  ASSUME TypeOK, NEW r \in Resetters, AskReset(r) \/ Reset(r)
  PROVE  TypeOK'
<1> USE NamesDiffer, ResetAssumption
<1>1. CASE AskReset(r)
  <2>1. rows \subseteq 1..MaxRows
    BY DEF TypeOK
  <2>2. pc' \in [Migrators -> Steps \cup Resting] /\ older' \in [Migrators -> SUBSET (1..MaxRows)]
    BY <1>1, <2>1 DEF AskReset, GoTo, TypeOK, Steps
  <2>3. ConnectionOwner'
    BY <1>1 DEF AskReset, GoTo, At, TypeOK, ConnectionOwner
  <2>4. crowded' \in BOOLEAN /\ resets' \in 0..MaxResets
    BY <1>1 DEF AskReset, TypeOK
  <2> QED
    BY <1>1, <2>2, <2>3, <2>4 DEF AskReset, TypeOK, schema
<1>2. CASE Take(r)
  <2>1. pc' \in [Migrators -> Steps \cup Resting] /\ ConnectionOwner'
    BY <1>2 DEF Take, GoTo, At, Free, TypeOK, ConnectionOwner, Steps
  <2> QED
    BY <1>2, <2>1 DEF Take, TypeOK, schema
<1>3. CASE Drop(r)
  BY <1>3 DEF Drop, TypeOK, ConnectionOwner, At, procVars
<1>4. CASE DropFails(r)
  <2>1. ConnectionOwner'
    BY <1>4 DEF DropFails, LeaveDrops, End, GoTo, At, TypeOK, ConnectionOwner
  <2> QED
    BY <1>4, <2>1, EndIsTyped DEF DropFails, LeaveDrops, CutHere, TypeOK, schema
<1>5. CASE Dropped(r)
  <2>1. pc' \in [Migrators -> Steps \cup Resting] /\ ConnectionOwner'
    BY <1>5 DEF Dropped, Return, GoTo, At, TypeOK, ConnectionOwner, Steps
  <2> QED
    BY <1>5, <2>1 DEF Dropped, Return, TypeOK, schema
<1> QED
  BY <1>1, <1>2, <1>3, <1>4, <1>5 DEF Reset

LEMMA TypeMigrate ==
  ASSUME TypeOK, NEW p \in Migrators, Migrate(p)
  PROVE  TypeOK'
<1> USE NamesDiffer, ResetAssumption
<1>1. CASE CreateLedger(p)
  <2>1. pc' \in [Migrators -> Steps \cup Resting] /\ ConnectionOwner'
    BY <1>1 DEF CreateLedger, GoTo, At, TypeOK, ConnectionOwner, Steps
  <2> QED
    BY <1>1, <2>1 DEF CreateLedger, TypeOK, Tables
<1>2. CASE ReadLedger(p)
  <2>1. CASE End(p, "failed")
    <3>1. ConnectionOwner'
      BY <1>2, <2>1 DEF ReadLedger, End, GoTo, At, TypeOK, ConnectionOwner
    <3> QED
      BY <1>2, <2>1, <3>1, EndIsTyped DEF ReadLedger, TypeOK, schema
  <2>2. CASE known' = [known EXCEPT ![p] = applied] /\ GoTo(p, "apply") /\ UNCHANGED <<older, phase>>
    <3>1. pc' \in [Migrators -> Steps \cup Resting] /\ ConnectionOwner'
      BY <1>2, <2>2 DEF ReadLedger, GoTo, At, TypeOK, ConnectionOwner, Steps
    <3> QED
      BY <1>2, <2>2, <3>1 DEF ReadLedger, TypeOK, schema
  <2> QED
    BY <1>2, <2>1, <2>2 DEF ReadLedger
<1>3. CASE Apply(p)
  <2>1. InitTables \subseteq Tables
    BY DEF Tables
  <2> QED
    BY <1>3, <2>1 DEF Apply, Record, TypeOK, ConnectionOwner, At
<1>4. CASE ApplyFails(p) \/ Migrated(p)
  <2>1. PICK result \in {"ok", "failed"} : End(p, result)
    BY <1>4 DEF ApplyFails, Migrated
  <2>2. ConnectionOwner'
    BY <1>4, <2>1 DEF ApplyFails, Migrated, End, GoTo, At, TypeOK, ConnectionOwner
  <2> QED
    BY <1>4, <2>1, <2>2, EndIsTyped DEF ApplyFails, Migrated, TypeOK, schema
<1> QED
  BY <1>1, <1>2, <1>3, <1>4 DEF Migrate

LEMMA TypeNext == TypeOK /\ [Next]_vars => TypeOK'
<1> SUFFICES ASSUME TypeOK, [Next]_vars PROVE TypeOK'
  OBVIOUS
<1> USE NamesDiffer, ResetAssumption
<1>1. CASE Write
  BY <1>1 DEF Write, TypeOK, ConnectionOwner, At, schema, procVars
<1>2. CASE Crash
  <2>1. pc' \in [Migrators -> Steps \cup Resting] /\ ConnectionOwner'
    BY <1>2 DEF Crash, At, TypeOK, ConnectionOwner, Resting
  <2>2. CutHere \in BOOLEAN
    BY DEF CutHere, TypeOK
  <2> QED
    BY <1>2, <2>1, <2>2 DEF Crash, TypeOK, schema
<1>3. CASE Start
  <2>1. pc' \in [Migrators -> Steps \cup Resting] /\ ConnectionOwner'
    BY <1>3 DEF Start, GoTo, At, TypeOK, ConnectionOwner, Steps
  <2> QED
    BY <1>3, <2>1 DEF Start, TypeOK, schema
<1>4. CASE UNCHANGED vars
  BY <1>4 DEF vars, schema, procVars, TypeOK, ConnectionOwner, At
<1> QED
  BY <1>1, <1>2, <1>3, <1>4, TypeReset, TypeMigrate DEF Next

\* Every variable keeps its type, and the write connection belongs to the reset
\* that is among its drops, and to nobody else (dropAll, migrate.go:88).
THEOREM TypeCorrect == Spec => []TypeOK
BY TypeInit, TypeNext, PTL DEF Spec

-----------------------------------------------------------------------------
(* The schema and its ledger *)

\* A table takes with it what was in it.
Rooted ==
  /\ Ledger \notin present => applied = {}
  /\ "fields" \notin present => ~seeded
  /\ "fault_rules" \notin present => ~altered
  /\ "contacts" \notin present => rows = {}

\* No reset is among its drops, or it has not dropped the first table yet.
Standing == Free \/ Ledger \in present

\* A schema that stands is truthful and has all tables or none; or a reset that
\* was cut has left some of those of 0001, which therefore cannot run.
Consistent ==
  Standing =>
    IF cut THEN present \cap InitTables # {} /\ 1 \notin applied
    ELSE /\ Truthful
         /\ present \cap InitTables = {} \/ InitTables \subseteq present
         /\ Ledger \notin present => present = {}

SchemaInv == Rooted /\ Consistent

LEMMA SchemaInit == Init => SchemaInv
<1> SUFFICES ASSUME Init PROVE SchemaInv
  OBVIOUS
<1>1. Rooted
  BY DEF Init, Rooted
<1>2. present = {} /\ applied = {} /\ ~seeded /\ ~altered /\ ~cut
  BY DEF Init
<1>3. Truthful
  BY <1>2 DEF Truthful, InitTables
<1> QED
  BY <1>1, <1>2, <1>3 DEF SchemaInv, Consistent

\* Wherever a reset ends among its drops, what it leaves is consistent.
LEMMA CutSchema ==
  ASSUME TypeOK, SchemaInv, UNCHANGED <<schema, rows>>, cut' = CutHere
  PROVE  SchemaInv'
<1> USE DEF SchemaInv, Rooted, Consistent, Standing, Truthful, InitTables
<1>1. CASE Ledger \in present
  BY <1>1 DEF CutHere, schema
<1>2. CASE Ledger \notin present /\ present = {}
  BY <1>2 DEF CutHere, schema
<1>3. CASE Ledger \notin present /\ present # {}
  <2>1. PICK t \in present : t \in InitTables
    BY <1>3 DEF TypeOK, Tables
  <2>2. cut' /\ applied = {}
    BY <1>3 DEF CutHere
  <2> QED
    BY <2>1, <2>2 DEF schema
<1> QED
  BY <1>1, <1>2, <1>3

LEMMA SchemaReset ==
  ASSUME TypeOK, SchemaInv, NEW r \in Resetters, Reset(r)
  PROVE  SchemaInv'
<1> USE DEF SchemaInv, Rooted, Consistent, Standing, Truthful, InitTables, Ledger
<1>1. CASE Take(r)
  BY <1>1 DEF Take, Free, schema
<1>2. CASE Drop(r)
  <2>1. ~Free'
    BY <1>2, NamesDiffer DEF Drop, procVars, TypeOK, ConnectionOwner, At, Free
  <2>2. PICK t \in present :
          /\ present' = present \ {t} /\ (Ledger \in present => t = Ledger)
          /\ applied' = IF t = Ledger THEN {} ELSE applied
          /\ seeded' = (seeded /\ t # "fields") /\ altered' = (altered /\ t # "fault_rules")
          /\ rows' = IF t = "contacts" THEN {} ELSE rows
    BY <1>2 DEF Drop, UserTables, NextTable
  <2> QED
    BY <2>1, <2>2 DEF Drop
<1>3. CASE DropFails(r)
  <2>1. present # {} /\ UNCHANGED <<schema, rows>> /\ cut' = CutHere
    BY <1>3 DEF DropFails, UserTables
  <2> QED
    BY <2>1, CutSchema
<1>4. CASE Dropped(r)
  BY <1>4 DEF Dropped, UserTables, schema
<1> QED
  BY <1>1, <1>2, <1>3, <1>4 DEF Reset

\* What a migration that can run finds: its number is the next, the schema
\* stands, and no reset was cut since its tables are not there for it.
LEMMA AppliesTo ==
  ASSUME TypeOK, SchemaInv, Free, NEW m \in Migrations, Applies(m)
  PROVE  /\ Ledger \in present /\ m \notin applied
         /\ m = 1 => ~cut /\ applied = {}
         /\ m # 1 /\ ~cut => 1 \in applied
<1> USE DEF SchemaInv, Rooted, Consistent, Standing, Truthful, InitTables
<1>1. Ledger \in present /\ m \notin applied
  BY DEF Applies
<1>2. CASE m = 1
  <2>1. present \cap InitTables = {}
    BY <1>2 DEF Applies
  <2>2. ~cut /\ ~seeded /\ ~altered
    BY <2>1
  <2> QED
    BY <1>1, <1>2, <2>1, <2>2 DEF TypeOK, Migrations
<1>3. CASE m # 1
  <2>1. "fault_rules" \in present
    <3>1. m = 2 \/ m = 3
      BY <1>3 DEF Migrations
    <3> QED
      BY <3>1 DEF Applies
  <2> QED
    BY <1>1, <1>3, <2>1
<1> QED
  BY <1>2, <1>3

LEMMA SchemaMigrate ==
  ASSUME TypeOK, SchemaInv, NEW p \in Migrators, Migrate(p)
  PROVE  SchemaInv'
<1> USE DEF SchemaInv, Rooted, Consistent, Standing, Truthful, InitTables
<1>1. CASE CreateLedger(p)
  <2>1. Free /\ Free' /\ present' = present \cup {Ledger} /\ UNCHANGED <<applied, seeded, altered, rows, cut>>
    BY <1>1 DEF CreateLedger, Free
  <2> QED
    BY <2>1 DEF Ledger
<1>2. CASE ReadLedger(p) \/ ApplyFails(p) \/ Migrated(p)
  BY <1>2 DEF ReadLedger, ApplyFails, Migrated, Free, schema
<1>3. CASE Apply(p)
  <2>1. PICK m \in Migrations :
          /\ Applies(m) /\ present' = (IF m = 1 THEN present \cup InitTables ELSE present)
          /\ (seeded' <=> seeded \/ m = 2) /\ (altered' <=> altered \/ m = 3) /\ applied' = applied \cup {m}
    BY <1>3 DEF Apply, Record
  <2>2. Free /\ UNCHANGED <<conn, cut, rows>>
    BY <1>3 DEF Apply
  <2>3. Ledger \in present /\ m \notin applied /\ (m = 1 => ~cut /\ applied = {}) /\ (m # 1 /\ ~cut => 1 \in applied)
    BY <2>1, <2>2, AppliesTo
  <2>4. CASE m = 1
    BY <2>1, <2>2, <2>3, <2>4 DEF Free
  <2>5. CASE m = 2
    <3>1. InitTables \subseteq present /\ present' = present /\ seeded' /\ (altered' <=> altered)
      BY <2>1, <2>5 DEF Applies
    <3> QED
      BY <2>1, <2>2, <2>3, <2>5, <3>1 DEF Free
  <2>6. CASE m = 3
    <3>1. "fault_rules" \in present /\ present' = present /\ (seeded' <=> seeded) /\ altered'
      BY <2>1, <2>6 DEF Applies
    <3> QED
      BY <2>1, <2>2, <2>3, <2>6, <3>1 DEF Free
  <2> QED
    BY <2>4, <2>5, <2>6 DEF Migrations
<1> QED
  BY <1>1, <1>2, <1>3 DEF Migrate

LEMMA SchemaNext == TypeOK /\ SchemaInv /\ [Next]_vars => SchemaInv'
<1> SUFFICES ASSUME TypeOK, SchemaInv, [Next]_vars PROVE SchemaInv'
  OBVIOUS
<1> USE DEF SchemaInv, Rooted, Consistent, Standing, Truthful, InitTables
<1>1. CASE \E r \in Resetters : AskReset(r)
  BY <1>1 DEF AskReset, Free, schema
<1>2. CASE Write
  BY <1>2 DEF Write, Free, schema, procVars
<1>3. CASE Crash
  <2>1. CASE Free
    BY <1>3, <2>1 DEF Crash, Free, schema
  <2>2. CASE ~Free
    BY <1>3, <2>2, CutSchema DEF Crash
  <2> QED
    BY <2>1, <2>2
<1>4. CASE Start
  BY <1>4 DEF Start, Free, schema
<1>5. CASE UNCHANGED vars
  BY <1>5 DEF vars, schema, procVars, Free
<1> QED
  BY <1>1, <1>2, <1>3, <1>4, <1>5, SchemaReset, SchemaMigrate DEF Next

-----------------------------------------------------------------------------
(* Main migrates alone *)

\* A migration that is the next finds what it needs in a schema that stands.
LEMMA NextApplies ==
  ASSUME TypeOK, SchemaInv, ~cut, Ledger \in present, NEW m \in Migrations,
         m \notin applied, m # 1 => 1 \in applied
  PROVE  Applies(m)
<1> USE DEF SchemaInv, Consistent, Standing, Truthful, InitTables, Applies
<1>1. CASE m = 1
  BY <1>1
<1>2. CASE m = 2
  BY <1>2
<1>3. CASE m = 3
  BY <1>3
<1> QED
  BY <1>1, <1>2, <1>3 DEF Migrations

\* No request is served before main has migrated, and main fails only on tables
\* that a cut reset left behind.
MainAlone ==
  /\ phase # "up" => \A r \in Resetters : pc[r] \notin Steps
  /\ phase = "starting" <=> pc[Boot] \in Touching
  /\ phase = "up" => At(Boot, "ok")
  /\ pc[Boot] \notin {"take", "drop"}
  /\ At(Boot, "failed") => cut
  /\ phase = "starting" =>
       /\ ~crowded
       /\ pc[Boot] # "create" => Ledger \in present
       /\ At(Boot, "apply") => known[Boot] = applied

LEMMA MainInit == Init => MainAlone
BY NamesDiffer DEF Init, MainAlone, At, Steps, Touching

\* While main is at work, the connection is in its pool.
LEMMA MainFindsPool ==
  ASSUME TypeOK, MainAlone, phase # "up"
  PROVE  Free
BY NamesDiffer DEF TypeOK, MainAlone, ConnectionOwner, At, Free, Steps

LEMMA MainReset ==
  ASSUME TypeOK, MainAlone, NEW r \in Resetters, AskReset(r) \/ Reset(r)
  PROVE  MainAlone' /\ phase = "up" /\ phase' = "up"
<1> USE NamesDiffer
<1>1. phase = "up"
  BY DEF AskReset, Reset, Take, Drop, DropFails, Dropped, MainAlone, At, Steps
<1>2. phase' = phase /\ pc'[Boot] = pc[Boot]
  <2>1. CASE AskReset(r) \/ Take(r) \/ Dropped(r)
    BY <2>1 DEF AskReset, Take, Dropped, GoTo, TypeOK
  <2>2. CASE Drop(r)
    BY <2>2 DEF Drop, procVars
  <2>3. CASE DropFails(r)
    BY <2>3 DEF DropFails, LeaveDrops, End, GoTo, PhaseAfter, TypeOK
  <2> QED
    BY <2>1, <2>2, <2>3 DEF Reset
<1> QED
  BY <1>1, <1>2 DEF MainAlone, At, Touching

LEMMA MainMigrates ==
  ASSUME TypeOK, SchemaInv, MainAlone, Migrate(Boot)
  PROVE  MainAlone' /\ phase = "starting"
<1> USE NamesDiffer
<1>1. phase = "starting" /\ ~crowded /\ Free
  BY MainFindsPool DEF Migrate, CreateLedger, ReadLedger, Apply, ApplyFails, Migrated, MainAlone, At, Touching
<1>2. \A r \in Resetters : pc[r] \notin Steps /\ pc'[r] = pc[r]
  BY <1>1 DEF Migrate, CreateLedger, ReadLedger, Apply, ApplyFails, Migrated, End, GoTo, MainAlone, TypeOK
<1>3. CASE CreateLedger(Boot)
  BY <1>1, <1>2, <1>3 DEF CreateLedger, GoTo, At, TypeOK, MainAlone, Touching
<1>4. CASE ReadLedger(Boot)
  BY <1>1, <1>2, <1>4 DEF ReadLedger, GoTo, At, TypeOK, MainAlone, Touching, schema
<1>5. CASE Apply(Boot)
  <2>1. known'[Boot] = applied' /\ Ledger \in present' /\ At(Boot, "apply")' /\ UNCHANGED <<phase, crowded>>
    BY <1>1, <1>5 DEF Apply, Record, At, TypeOK, MainAlone
  <2> QED
    BY <1>1, <1>2, <2>1 DEF At, MainAlone, Touching
<1>6. CASE ApplyFails(Boot)
  <2>1. PICK m \in Migrations : Pending(Boot, m) /\ ~Applies(m)
    BY <1>6 DEF ApplyFails
  <2>2. known[Boot] = applied /\ Ledger \in present
    BY <1>1, <1>6 DEF ApplyFails, At, MainAlone
  <2>3. m \notin applied /\ (m # 1 => 1 \in applied)
    BY <2>1, <2>2 DEF Pending, Migrations
  <2>4. cut
    BY <2>1, <2>2, <2>3, NextApplies DEF TypeOK
  <2>5. pc'[Boot] = "failed" /\ phase' = "down" /\ cut' = cut
    BY <1>6 DEF ApplyFails, End, GoTo, PhaseAfter, TypeOK
  <2> QED
    BY <1>1, <1>2, <2>4, <2>5 DEF At, MainAlone, Touching
<1>7. CASE Migrated(Boot)
  <2>1. pc'[Boot] = "ok" /\ phase' = "up"
    BY <1>7 DEF Migrated, End, GoTo, PhaseAfter, TypeOK
  <2> QED
    BY <1>1, <2>1 DEF At, MainAlone, Touching
<1> QED
  BY <1>1, <1>3, <1>4, <1>5, <1>6, <1>7 DEF Migrate

LEMMA OthersMigrate ==
  ASSUME TypeOK, MainAlone, NEW r \in Resetters, Migrate(r)
  PROVE  MainAlone' /\ phase = "up" /\ phase' = "up"
<1> USE NamesDiffer
<1>1. phase = "up"
  BY DEF Migrate, CreateLedger, ReadLedger, Apply, ApplyFails, Migrated, MainAlone, At, Steps
<1>2. phase' = phase /\ pc'[Boot] = pc[Boot]
  BY DEF Migrate, CreateLedger, ReadLedger, Apply, ApplyFails, Migrated, End, GoTo, PhaseAfter, TypeOK
<1> QED
  BY <1>1, <1>2 DEF MainAlone, At, Touching

LEMMA MainNext == TypeOK /\ SchemaInv /\ MainAlone /\ [Next]_vars => MainAlone'
<1> SUFFICES ASSUME TypeOK, SchemaInv, MainAlone, [Next]_vars PROVE MainAlone'
  OBVIOUS
<1> USE NamesDiffer
<1>1. CASE Write
  BY <1>1 DEF Write, schema, procVars, MainAlone, At
<1>2. CASE Crash
  BY <1>2 DEF Crash, MainAlone, At, Steps, Touching
<1>3. CASE Start
  <2>1. pc' = [pc EXCEPT ![Boot] = "create"] /\ phase = "down" /\ phase' = "starting" /\ ~crowded'
    BY <1>3 DEF Start, GoTo
  <2> QED
    BY <2>1 DEF MainAlone, At, Steps, Touching, TypeOK
<1>4. CASE UNCHANGED vars
  BY <1>4 DEF vars, schema, procVars, MainAlone, At
<1>5. ASSUME NEW p \in Migrators, Migrate(p) PROVE MainAlone'
  BY <1>5, MainMigrates, OthersMigrate
<1> QED
  BY <1>1, <1>2, <1>3, <1>4, <1>5, MainReset DEF Next

-----------------------------------------------------------------------------
(* Two at work *)

OfTwo == \A p, q, s \in AtWork : p = q \/ q = s \/ p = s

\* The ledgers that migrating from the start goes through.
Prefixes == {{}, {1}, {1, 2}, {1, 2, 3}}
Reading(p) == pc[p] \in {"create", "read"}

\* While at most two are at work: what one knows, and what one is about to read,
\* is a beginning; whoever has read applies along with the ledger as long as
\* another one has yet to read it; and after a cut nobody can go on.
Orderly ==
  /\ \A p \in Migrators : At(p, "apply") => known[p] \in Prefixes
  /\ \A p \in Migrators : Reading(p) => applied \in Prefixes
  /\ \A p, q \in Migrators : Reading(p) /\ At(q, "apply") => applied = {} \/ known[q] = applied
  /\ cut => /\ applied = {}
            /\ \A p, q \in Migrators : At(q, "apply") /\ known[q] # {} => Ledger \notin present /\ ~At(p, "create")

\* Who will complete the schema, or fail because others have completed it.
Promising(p) ==
  \/ At(p, "create")
  \/ At(p, "read") /\ Ledger \in present
  \/ /\ At(p, "apply") /\ Ledger \in present
     /\ known[p] = applied \/ (known[p] = {1} /\ applied = {1, 3})
Hope == phase # "down" /\ ~cut /\ Standing => Complete \/ \E p \in Migrators : Promising(p)

Calm == ~crowded => OfTwo /\ (phase = "up" => Orderly) /\ Hope

LEMMA CalmInit == Init => Calm
<1> SUFFICES ASSUME Init PROVE Calm
  OBVIOUS
<1>1. AtWork \subseteq {Boot}
  BY DEF Init, AtWork, Steps
<1>2. OfTwo
  BY <1>1 DEF OfTwo
<1>3. phase = "starting" /\ Promising(Boot)
  BY NamesDiffer DEF Init, Promising, At
<1> QED
  BY <1>2, <1>3, NamesDiffer DEF Calm, Hope

\* Fewer than two elements are one.
LEMMA FewerThanTwo ==
  ASSUME NEW S, \A p, q, s \in S : p = q \/ q = s \/ p = s, ~(Cardinality(S) >= 2)
  PROVE  \A p, q \in S : p = q
<1> SUFFICES ASSUME NEW p \in S, NEW q \in S, p # q PROVE FALSE
  OBVIOUS
<1>1. S = {p} \cup {q}
  OBVIOUS
<1>2. IsFiniteSet({p}) /\ Cardinality({p}) = 1
  BY FS_Singleton
<1>3. Cardinality({p} \cup {q}) = 2
  BY <1>2, FS_AddElement
<1> QED
  BY <1>1, <1>3

LEMMA TwoAfterAsk ==
  ASSUME TypeOK, OfTwo, NEW r \in Resetters, AskReset(r), ~crowded'
  PROVE  OfTwo'
<1>1. \A p, q \in AtWork : p = q
  BY FewerThanTwo DEF AskReset, OfTwo
<1>2. AtWork' \subseteq AtWork \cup {r}
  BY DEF AskReset, GoTo, TypeOK, AtWork
<1> QED
  BY <1>1, <1>2 DEF OfTwo

\* No other step but a start brings anybody to work.
LEMMA WorkersStay ==
  ASSUME TypeOK, OfTwo,
         \/ \E r \in Resetters : Reset(r)
         \/ \E p \in Migrators : Migrate(p)
         \/ Write \/ Crash \/ UNCHANGED vars
  PROVE  OfTwo'
<1> SUFFICES AtWork' \subseteq AtWork
  BY DEF OfTwo
<1> USE NamesDiffer DEF AtWork
<1>1. ASSUME NEW r \in Resetters, Reset(r) PROVE AtWork' \subseteq AtWork
  BY <1>1 DEF Reset, Take, Drop, DropFails, LeaveDrops, Dropped, End, GoTo, procVars, At, TypeOK, Steps
<1>2. ASSUME NEW p \in Migrators, Migrate(p) PROVE AtWork' \subseteq AtWork
  BY <1>2 DEF Migrate, CreateLedger, ReadLedger, Apply, ApplyFails, Migrated, End, GoTo, At, TypeOK, Steps
<1>3. CASE Write \/ Crash \/ UNCHANGED vars
  BY <1>3 DEF Write, Crash, vars, procVars, Steps
<1> QED
  BY <1>1, <1>2, <1>3

\* The migration that comes after a beginning.
LEMMA AfterPrefix ==
  ASSUME NEW K \in Prefixes, NEW m \in Migrations, m \notin K, \A n \in 1..(m - 1) : n \in K
  PROVE  /\ (m = 1 /\ K = {}) \/ (m = 2 /\ K = {1}) \/ (m = 3 /\ K = {1, 2})
         /\ K \cup {m} \in Prefixes
<1>1. CASE m = 1
  BY <1>1 DEF Prefixes
<1>2. CASE m = 2
  <2>1. 1 \in K
    BY <1>2
  <2> QED
    BY <1>2, <2>1 DEF Prefixes
<1>3. CASE m = 3
  <2>1. 1 \in K /\ 2 \in K
    BY <1>3
  <2> QED
    BY <1>3, <2>1 DEF Prefixes
<1> QED
  BY <1>1, <1>2, <1>3 DEF Migrations

LEMMA OrderlyReset ==
  ASSUME TypeOK, SchemaInv, OfTwo, Orderly, NEW r \in Resetters, Reset(r)
  PROVE  Orderly'
<1> USE NamesDiffer DEF Orderly, Reading, At
<1>1. CASE Take(r)
  BY <1>1 DEF Take, GoTo, TypeOK, schema
<1>2. CASE Drop(r)
  <2>1. UNCHANGED <<pc, known, cut>> /\ present' \subseteq present /\ (applied' = applied \/ applied' = {})
    BY <1>2 DEF Drop, procVars
  <2>2. {} \in Prefixes
    BY DEF Prefixes
  <2> QED
    BY <2>1, <2>2
<1>3. CASE DropFails(r)
  <2>1. /\ pc' = [pc EXCEPT ![r] = "idle"] /\ known' = [known EXCEPT ![r] = {}]
        /\ UNCHANGED schema /\ cut' = CutHere /\ pc[r] = "drop"
    BY <1>3 DEF DropFails, LeaveDrops, End, GoTo, Forget
  <2>2. cut' /\ ~cut => applied = {} /\ Ledger \notin present
    BY <2>1 DEF CutHere, SchemaInv, Rooted
  <2>3. \A p, q \in Migrators : ~(pc[p] = "create" /\ pc[q] = "apply")
    BY <2>1 DEF OfTwo, AtWork, Steps
  <2> QED
    BY <2>1, <2>2, <2>3 DEF TypeOK, schema
<1>4. CASE Dropped(r)
  <2>1. applied = {} /\ UNCHANGED schema /\ ~cut'
    BY <1>4 DEF Dropped, UserTables, SchemaInv, Rooted
  <2>2. {} \in Prefixes
    BY DEF Prefixes
  <2> QED
    BY <1>4, <2>1, <2>2 DEF Dropped, GoTo, TypeOK, schema
<1> QED
  BY <1>1, <1>2, <1>3, <1>4 DEF Reset

\* A reset that drops everything while nobody else is at work is as good as new.
LEMMA AloneAgain ==
  ASSUME TypeOK, SchemaInv, NEW r \in Resetters, Dropped(r), ~crowded', crowded
  PROVE  OfTwo' /\ Orderly'
<1> USE NamesDiffer
<1>1. AtWork = {r} /\ pc' = [pc EXCEPT ![r] = "create"]
  BY DEF Dropped, GoTo
<1>2. \A p \in Migrators : pc'[p] \in Steps => p = r /\ pc'[p] = "create"
  BY <1>1 DEF AtWork, TypeOK
<1>3. applied' = {} /\ ~cut' /\ {} \in Prefixes
  BY DEF Dropped, UserTables, SchemaInv, Rooted, schema, Prefixes
<1>4. OfTwo'
  BY <1>2 DEF OfTwo, AtWork
<1>5. Orderly'
  BY <1>2, <1>3 DEF Orderly, Reading, At, Steps
<1> QED
  BY <1>4, <1>5

\* What a migration that is applied does, seen from who applies it.
LEMMA ApplyEffect ==
  ASSUME TypeOK, SchemaInv, Orderly, NEW q \in Migrators, Apply(q)
  PROVE  \E m \in Migrations :
           /\ m \notin known[q] /\ \A n \in 1..(m - 1) : n \in known[q]
           /\ Ledger \in present /\ m \notin applied /\ ~cut
           /\ (m = 1 => applied = {}) /\ (m # 1 => 1 \in applied)
           /\ applied' = applied \cup {m}
           /\ known' = [known EXCEPT ![q] = known[q] \cup {m}]
           /\ Ledger \in present' /\ UNCHANGED <<pc, conn, cut, phase, crowded>>
<1>1. PICK m \in Migrations :
        /\ Pending(q, m) /\ Applies(m) /\ applied' = applied \cup {m}
        /\ known' = [known EXCEPT ![q] = known[q] \cup {m}]
        /\ present' = (IF m = 1 THEN present \cup InitTables ELSE present)
  BY DEF Apply, Record
<1>2. /\ Ledger \in present /\ m \notin applied
      /\ (m = 1 => ~cut /\ applied = {}) /\ (m # 1 /\ ~cut => 1 \in applied)
  BY <1>1, AppliesTo DEF Apply
<1>3. m \notin known[q] /\ \A n \in 1..(m - 1) : n \in known[q]
  BY <1>1 DEF Pending
<1>4. ~cut
  <2>1. CASE m = 1
    BY <1>2, <2>1
  <2>2. CASE m # 1
    <3>1. 1 \in 1..(m - 1)
      BY <2>2 DEF Migrations
    <3>2. known[q] # {}
      BY <1>3, <3>1
    <3> QED
      BY <1>2, <3>2 DEF Orderly, Apply, At
  <2> QED
    BY <2>1, <2>2
<1> QED
  BY <1>1, <1>2, <1>3, <1>4 DEF Apply

LEMMA OrderlyMigrate ==
  ASSUME TypeOK, SchemaInv, OfTwo, Orderly, NEW q \in Migrators, Migrate(q)
  PROVE  Orderly'
<1> USE NamesDiffer DEF Orderly, Reading, At
<1>1. CASE CreateLedger(q)
  BY <1>1 DEF CreateLedger, GoTo, TypeOK
<1>2. CASE ReadLedger(q)
  BY <1>2 DEF ReadLedger, End, Forget, GoTo, TypeOK, schema
<1>3. CASE Apply(q)
  <2>1. PICK m \in Migrations :
          /\ m \notin known[q] /\ \A n \in 1..(m - 1) : n \in known[q]
          /\ m \notin applied /\ ~cut
          /\ (m = 1 => applied = {}) /\ (m # 1 => 1 \in applied)
          /\ applied' = applied \cup {m}
          /\ known' = [known EXCEPT ![q] = known[q] \cup {m}]
          /\ UNCHANGED <<pc, cut>>
    BY <1>3, ApplyEffect
  <2>2. pc[q] = "apply"
    BY <1>3 DEF Apply
  <2>3. known[q] \in Prefixes /\ known[q] \cup {m} \in Prefixes /\ known'[q] = known[q] \cup {m}
    BY <2>1, <2>2, AfterPrefix DEF TypeOK
  <2>4. m = 1 => known[q] = {}
    BY <2>1, <2>3, AfterPrefix
  <2>5. ASSUME NEW p \in Migrators, Reading(p) PROVE known[q] = applied
    <3>1. applied = {} \/ known[q] = applied
      BY <2>2, <2>5
    <3>2. applied = {} => m = 1
      BY <2>1
    <3> QED
      BY <2>4, <3>1, <3>2
  <2>6. ASSUME NEW p \in Migrators, Reading(p), NEW t \in Migrators, pc[t] = "apply" PROVE t = q
    BY <2>2, <2>6 DEF OfTwo, AtWork, Steps
  <2> QED
    BY <2>1, <2>3, <2>5, <2>6 DEF TypeOK
<1>4. CASE ApplyFails(q) \/ Migrated(q)
  <2>1. pc' = [pc EXCEPT ![q] = pc'[q]] /\ pc'[q] \in Resting
    BY <1>4 DEF ApplyFails, Migrated, End, GoTo, TypeOK, Resting
  <2>2. known' = [known EXCEPT ![q] = {}] /\ UNCHANGED <<schema, cut>>
    BY <1>4 DEF ApplyFails, Migrated, End, Forget
  <2> QED
    BY <2>1, <2>2 DEF TypeOK, schema, Resting
<1> QED
  BY <1>1, <1>2, <1>3, <1>4 DEF Migrate

-----------------------------------------------------------------------------
(* Somebody will complete the schema *)

LEMMA FullIsComplete == TypeOK /\ SchemaInv /\ ~cut /\ applied = Migrations => Complete
<1> SUFFICES ASSUME TypeOK, SchemaInv, ~cut, applied = Migrations PROVE Complete
  OBVIOUS
<1>1. 1 \in applied /\ 2 \in applied /\ 3 \in applied
  BY DEF Migrations
<1>2. Ledger \in present
  BY <1>1 DEF SchemaInv, Rooted
<1>3. InitTables \subseteq present /\ seeded /\ altered
  BY <1>1, <1>2 DEF SchemaInv, Consistent, Standing, Truthful
<1> QED
  BY <1>2, <1>3 DEF Complete, TypeOK, Tables

LEMMA HopeReset ==
  ASSUME TypeOK, Hope, NEW r \in Resetters, AskReset(r) \/ Reset(r)
  PROVE  Hope'
<1> USE NamesDiffer DEF Hope, Promising, At, Standing
<1>1. CASE AskReset(r)
  <2>1. pc[r] = "idle" /\ pc' = [pc EXCEPT ![r] = "take"]
        /\ UNCHANGED <<schema, conn, known, cut, phase>>
    BY <1>1 DEF AskReset, GoTo
  <2> QED
    BY <2>1 DEF TypeOK, Complete, schema, Free
<1>2. CASE Take(r)
  <2>1. pc[r] = "take" /\ pc' = [pc EXCEPT ![r] = "drop"] /\ Free
        /\ UNCHANGED <<schema, known, cut, phase>>
    BY <1>2 DEF Take, GoTo
  <2> QED
    BY <2>1 DEF TypeOK, Complete, schema
<1>3. CASE Drop(r)
  <2>1. Ledger \notin present'
    BY <1>3 DEF Drop, NextTable, UserTables
  <2>2. ~Free'
    BY <1>3 DEF Drop, procVars, TypeOK, ConnectionOwner, Free
  <2> QED
    BY <2>1, <2>2
<1>4. CASE DropFails(r)
  <2>1. pc[r] = "drop" /\ pc' = [pc EXCEPT ![r] = "idle"] /\ known' = [known EXCEPT ![r] = {}]
        /\ UNCHANGED <<schema, phase>>
    BY <1>4 DEF DropFails, LeaveDrops, End, GoTo, Forget, PhaseAfter
  <2>2. ~cut' => ~cut /\ Ledger \in present
    BY <1>4 DEF DropFails, UserTables, CutHere
  <2> QED
    BY <2>1, <2>2 DEF TypeOK, Complete, schema
<1>5. CASE Dropped(r)
  BY <1>5 DEF Dropped, GoTo, TypeOK
<1> QED
  BY <1>1, <1>2, <1>3, <1>4, <1>5 DEF Reset

\* Nobody takes a promise away: who applies a migration that another one was
\* about to apply has the other's promise.
LEMMA PromiseIsTaken ==
  ASSUME TypeOK, SchemaInv, SchemaInv', TypeOK', Orderly, NEW p \in Migrators, Promising(p),
         NEW q \in Migrators, q # p, Apply(q)
  PROVE  Complete' \/ Promising(p)' \/ Promising(q)'
<1>1. PICK m \in Migrations :
        /\ m \notin known[q] /\ \A n \in 1..(m - 1) : n \in known[q]
        /\ Ledger \in present /\ m \notin applied /\ ~cut
        /\ (m = 1 => applied = {}) /\ (m # 1 => 1 \in applied)
        /\ applied' = applied \cup {m}
        /\ known' = [known EXCEPT ![q] = known[q] \cup {m}]
        /\ Ledger \in present' /\ UNCHANGED <<pc, conn, cut, phase, crowded>>
  BY ApplyEffect
<1>2. pc[q] = "apply" /\ pc'[q] = "apply" /\ known'[q] = known[q] \cup {m} /\ known'[p] = known[p] /\ pc'[p] = pc[p]
  BY <1>1 DEF Apply, At, TypeOK
<1>3. known[q] \in Prefixes
  BY <1>2 DEF Orderly, At
<1>4. (m = 1 /\ known[q] = {}) \/ (m = 2 /\ known[q] = {1}) \/ (m = 3 /\ known[q] = {1, 2})
  BY <1>1, <1>3, AfterPrefix
<1>5. CASE pc[p] # "apply"
  BY <1>1, <1>2, <1>5 DEF Promising, At
<1>6. CASE pc[p] = "apply" /\ known[p] = applied
  <2>1. applied \in Prefixes
    BY <1>6 DEF Orderly, At
  <2>2. CASE m = 1
    BY <1>1, <1>2, <1>4, <2>2 DEF Promising, At
  <2>3. CASE m = 2
    <3>1. applied = {1}
      BY <1>1, <2>1, <2>3 DEF Prefixes
    <3> QED
      BY <1>1, <1>2, <1>4, <2>3, <3>1 DEF Promising, At
  <2>4. CASE m = 3
    <3>1. applied = {1} \/ applied = {1, 2}
      BY <1>1, <2>1, <2>4 DEF Prefixes
    <3>2. applied = {1} => applied' = {1, 3} /\ known'[p] = {1}
      BY <1>1, <1>2, <1>6, <2>4
    <3>3. applied = {1, 2} => known'[q] = applied'
      BY <1>1, <1>2, <1>4, <2>4
    <3> QED
      BY <1>1, <1>2, <1>6, <3>1, <3>2, <3>3 DEF Promising, At
  <2> QED
    BY <1>4, <2>2, <2>3, <2>4
<1>7. CASE pc[p] = "apply" /\ known[p] = {1} /\ applied = {1, 3}
  <2>1. applied' = Migrations
    BY <1>1, <1>4, <1>7 DEF Migrations
  <2>2. (TypeOK /\ SchemaInv /\ ~cut /\ applied = Migrations => Complete)'
    BY FullIsComplete, PTL
  <2> QED
    BY <1>1, <2>1, <2>2 DEF Migrations
<1> QED
  BY <1>5, <1>6, <1>7 DEF Promising, At

\* Who has promised keeps it: a promise is not broken by a failure.
LEMMA PromiseIsKept ==
  ASSUME TypeOK, SchemaInv, SchemaInv', TypeOK', NEW p \in Migrators, Promising(p), ~cut, Migrate(p)
  PROVE  Complete' \/ Promising(p)'
<1> USE DEF Promising, At
<1>1. CASE CreateLedger(p)
  BY <1>1 DEF CreateLedger, GoTo, TypeOK
<1>2. CASE ReadLedger(p)
  BY <1>2 DEF ReadLedger, GoTo, TypeOK, schema
<1>3. CASE Apply(p)
  <2>1. PICK m \in Migrations :
          /\ Pending(p, m) /\ applied' = applied \cup {m}
          /\ known' = [known EXCEPT ![p] = known[p] \cup {m}]
    BY <1>3 DEF Apply, Record
  <2>2. Ledger \in present' /\ pc'[p] = "apply" /\ ~cut' /\ known'[p] = known[p] \cup {m}
    BY <1>3, <2>1 DEF Apply, TypeOK
  <2>3. CASE known[p] = applied
    BY <2>1, <2>2, <2>3
  <2>4. CASE known[p] = {1} /\ applied = {1, 3}
    <3>1. m = 2
      BY <2>1, <2>4 DEF Pending, Migrations
    <3>2. applied' = Migrations
      BY <2>1, <2>4, <3>1 DEF Migrations
    <3>3. (TypeOK /\ SchemaInv /\ ~cut /\ applied = Migrations => Complete)'
      BY FullIsComplete, PTL
    <3> QED
      BY <2>2, <3>2, <3>3 DEF Migrations
  <2> QED
    BY <1>3, <2>3, <2>4 DEF Apply
<1>4. CASE ApplyFails(p)
  <2>1. PICK m \in Migrations : Pending(p, m) /\ ~Applies(m)
    BY <1>4 DEF ApplyFails
  <2>2. m \notin known[p] /\ \A n \in 1..(m - 1) : n \in known[p]
    BY <2>1 DEF Pending
  <2>3. Ledger \in present /\ (known[p] = applied \/ (known[p] = {1} /\ applied = {1, 3}))
    BY <1>4 DEF ApplyFails
  <2>4. m \notin applied \/ (known[p] = {1} /\ m = 3)
    BY <2>2, <2>3
  <2>5. ~(known[p] = {1} /\ m = 3)
    BY <2>2
  <2>6. m # 1 => 1 \in applied
    BY <2>2, <2>3 DEF Migrations
  <2> QED
    BY <2>1, <2>3, <2>4, <2>5, <2>6, NextApplies
<1>5. CASE Migrated(p)
  <2>1. Migrations \subseteq known[p]
    BY <1>5 DEF Migrated
  <2>2. applied = Migrations
    BY <1>5, <2>1 DEF Migrated, TypeOK, Migrations
  <2>3. Complete
    BY <2>2, FullIsComplete
  <2> QED
    BY <1>5, <2>3 DEF Migrated, Complete, schema
<1> QED
  BY <1>1, <1>2, <1>3, <1>4, <1>5 DEF Migrate

LEMMA HopeMigrate ==
  ASSUME TypeOK, TypeOK', SchemaInv, SchemaInv', MainAlone, Hope, phase = "up" => Orderly,
         NEW q \in Migrators, Migrate(q)
  PROVE  Hope'
<1> USE NamesDiffer
<1>1. SUFFICES ASSUME ~cut, Standing, phase # "down"
               PROVE  Complete' \/ \E p \in Migrators : Promising(p)'
  <2>1. cut' = cut /\ (phase = "down" => phase' = "down")
    BY DEF Migrate, CreateLedger, ReadLedger, Apply, ApplyFails, Migrated, End, PhaseAfter, MainAlone, At, Touching, Steps
  <2>2. Standing' => Standing
    BY DEF Migrate, CreateLedger, ReadLedger, Apply, ApplyFails, Migrated, Standing, Free, schema
  <2> QED
    BY <1>1, <2>1, <2>2 DEF Hope
<1>2. CASE Complete
  <2>1. CASE Apply(q)
    <3>1. \A m \in Migrations : ~Applies(m)
      BY <1>2 DEF Complete, Applies
    <3> QED
      BY <2>1, <3>1 DEF Apply
  <2>2. CASE ~Apply(q)
    <3>1. present' = present \/ present' = present \cup {Ledger}
      BY <2>2 DEF Migrate, CreateLedger, ReadLedger, ApplyFails, Migrated, schema
    <3>2. UNCHANGED <<applied, seeded, altered>>
      BY <2>2 DEF Migrate, CreateLedger, ReadLedger, ApplyFails, Migrated, schema
    <3> QED
      BY <1>2, <3>1, <3>2 DEF Complete, Tables
  <2> QED
    BY <2>1, <2>2
<1>3. ASSUME NEW p \in Migrators, Promising(p)
      PROVE  Complete' \/ \E t \in Migrators : Promising(t)'
  <2>1. CASE p = q
    BY <1>1, <1>3, <2>1, PromiseIsKept
  <2>2. CASE p # q /\ Apply(q)
    <3>1. phase = "up"
      BY <1>3, <2>2 DEF MainAlone, Promising, Apply, At, Touching, Steps
    <3> QED
      BY <1>3, <2>2, <3>1, PromiseIsTaken
  <2>3. CASE p # q /\ ~Apply(q)
    <3>1. pc'[p] = pc[p] /\ known'[p] = known[p] /\ applied' = applied
      BY <2>3 DEF Migrate, CreateLedger, ReadLedger, ApplyFails, Migrated, End, Forget, GoTo, TypeOK, schema
    <3>2. present \subseteq present'
      BY <2>3 DEF Migrate, CreateLedger, ReadLedger, ApplyFails, Migrated, schema
    <3> QED
      BY <1>3, <3>1, <3>2 DEF Promising, At
  <2> QED
    BY <2>1, <2>2, <2>3
<1> QED
  BY <1>1, <1>2, <1>3 DEF Hope

-----------------------------------------------------------------------------
(* What every step keeps while two are at work *)

LEMMA CalmReset ==
  ASSUME TypeOK, SchemaInv, MainAlone, Calm, NEW r \in Resetters, AskReset(r) \/ Reset(r)
  PROVE  Calm'
<1> USE NamesDiffer
<1>1. SUFFICES ASSUME ~crowded' PROVE OfTwo' /\ Orderly' /\ Hope'
  BY DEF Calm
<1>2. phase = "up"
  BY MainReset
<1>3. CASE AskReset(r)
  <2>1. ~crowded
    BY <1>1, <1>3 DEF AskReset
  <2>2. OfTwo /\ Orderly /\ Hope
    BY <1>2, <2>1 DEF Calm
  <2>3. OfTwo'
    BY <1>1, <1>3, <2>2, TwoAfterAsk
  <2>4. Orderly'
    <3>1. pc' = [pc EXCEPT ![r] = "take"] /\ UNCHANGED <<schema, known, cut>>
      BY <1>3 DEF AskReset, GoTo
    <3> QED
      BY <2>2, <3>1 DEF Orderly, Reading, At, TypeOK, schema
  <2>5. Hope'
    BY <1>3, <2>2, HopeReset
  <2> QED
    BY <2>3, <2>4, <2>5
<1>4. CASE Reset(r) /\ ~crowded
  <2>1. OfTwo /\ Orderly /\ Hope
    BY <1>2, <1>4 DEF Calm
  <2> QED
    BY <1>4, <2>1, WorkersStay, OrderlyReset, HopeReset
<1>5. CASE Reset(r) /\ crowded
  <2>1. Dropped(r)
    BY <1>1, <1>5 DEF Reset, Take, Drop, DropFails
  <2>2. Promising(r)'
    BY <2>1 DEF Dropped, GoTo, TypeOK, Promising, At
  <2> QED
    BY <1>1, <1>5, <2>1, <2>2, AloneAgain DEF Hope
<1> QED
  BY <1>3, <1>4, <1>5

\* Main has migrated: nobody else is at work, and no reset was cut.
LEMMA MainEndsOrderly ==
  ASSUME TypeOK, SchemaInv, MainAlone, Migrated(Boot)
  PROVE  Orderly'
<1> USE NamesDiffer
<1>1. phase = "starting" /\ At(Boot, "apply")
  BY DEF Migrated, MainAlone, At, Touching
<1>2. applied = Migrations /\ Ledger \in present
  BY <1>1 DEF MainAlone, Migrated, TypeOK, At
<1>3. ~cut
  BY <1>2 DEF SchemaInv, Consistent, Standing, Migrations
<1>4. pc' = [pc EXCEPT ![Boot] = "ok"] /\ ~cut'
  BY <1>3 DEF Migrated, End, GoTo
<1>5. \A p \in Migrators : pc'[p] \notin Steps
  BY <1>1, <1>4 DEF MainAlone, TypeOK, Steps
<1> QED
  BY <1>4, <1>5 DEF Orderly, Reading, At, Steps

LEMMA CalmMigrate ==
  ASSUME TypeOK, TypeOK', SchemaInv, SchemaInv', MainAlone, Calm, NEW p \in Migrators, Migrate(p)
  PROVE  Calm'
<1> USE NamesDiffer
<1>1. SUFFICES ASSUME ~crowded' PROVE OfTwo' /\ (phase' = "up" => Orderly') /\ Hope'
  BY DEF Calm
<1>2. ~crowded
  BY <1>1 DEF Migrate, CreateLedger, ReadLedger, Apply, ApplyFails, Migrated
<1>3. OfTwo /\ (phase = "up" => Orderly) /\ Hope
  BY <1>2 DEF Calm
<1>4. OfTwo' /\ Hope'
  BY <1>3, WorkersStay, HopeMigrate
<1>5. ASSUME phase' = "up" PROVE Orderly'
  <2>1. CASE p = Boot
    <3>1. phase = "starting"
      BY <2>1, MainMigrates
    <3>2. Migrated(Boot)
      BY <1>5, <2>1, <3>1 DEF Migrate, CreateLedger, ReadLedger, Apply, ApplyFails, End, PhaseAfter
    <3> QED
      BY <3>2, MainEndsOrderly
  <2>2. CASE p # Boot
    BY <1>3, <2>2, OthersMigrate, OrderlyMigrate
  <2> QED
    BY <2>1, <2>2
<1> QED
  BY <1>4, <1>5

LEMMA CalmNext ==
  TypeOK /\ TypeOK' /\ SchemaInv /\ SchemaInv' /\ MainAlone /\ Calm /\ [Next]_vars => Calm'
<1> SUFFICES ASSUME TypeOK, TypeOK', SchemaInv, SchemaInv', MainAlone, Calm, [Next]_vars
             PROVE  Calm'
  OBVIOUS
<1> USE NamesDiffer
<1>1. CASE Write \/ UNCHANGED vars
  <2>1. UNCHANGED <<schema, procVars, cut, crowded, phase>>
    BY <1>1 DEF Write, vars
  <2> QED
    BY <2>1 DEF Calm, OfTwo, AtWork, Orderly, Reading, Hope, Promising, Standing, Free, Complete, At,
                schema, procVars
<1>2. CASE Crash
  <2>1. phase' = "down" /\ \A p \in Migrators : pc'[p] \notin Steps
    BY <1>2 DEF Crash, Steps
  <2> QED
    BY <2>1 DEF Calm, OfTwo, AtWork, Hope
<1>3. CASE Start
  <2>1. phase = "down" /\ phase' = "starting" /\ pc' = [pc EXCEPT ![Boot] = "create"]
    BY <1>3 DEF Start, GoTo
  <2>2. \A p \in AtWork' : p = Boot
    BY <2>1 DEF AtWork, MainAlone, TypeOK
  <2>3. Promising(Boot)'
    BY <2>1 DEF Promising, At, TypeOK
  <2> QED
    BY <2>1, <2>2, <2>3 DEF Calm, OfTwo, Hope
<1> QED
  BY <1>1, <1>2, <1>3, CalmReset, CalmMigrate DEF Next

-----------------------------------------------------------------------------
(* What a reset removes *)

\* The contacts that a reset was asked to remove are gone once it has dropped
\* the tables, and their identifiers are not given out again.
Removed ==
  \A r \in Resetters :
    /\ older[r] \subseteq 1..(nextRow - 1)
    /\ pc[r] \in Touching => rows \cap older[r] = {}

LEMMA RemovedInit == Init => Removed
BY NamesDiffer DEF Init, Removed, Touching

LEMMA RemovedNext == TypeOK /\ SchemaInv /\ Removed /\ [Next]_vars => Removed'
<1> SUFFICES ASSUME TypeOK, SchemaInv, Removed, [Next]_vars, NEW r \in Resetters
             PROVE  /\ older'[r] \subseteq 1..(nextRow' - 1)
                    /\ pc'[r] \in Touching => rows' \cap older'[r] = {}
  BY DEF Removed
<1> USE NamesDiffer DEF Removed, Touching
<1>1. ASSUME NEW s \in Resetters, AskReset(s) PROVE older'[r] \subseteq 1..(nextRow' - 1) /\ (pc'[r] \in Touching => rows' \cap older'[r] = {})
  BY <1>1 DEF AskReset, GoTo, TypeOK
<1>2. ASSUME NEW s \in Resetters, Take(s) \/ Drop(s) \/ DropFails(s)
      PROVE  older'[r] \subseteq 1..(nextRow' - 1) /\ (pc'[r] \in Touching => rows' \cap older'[r] = {})
  <2>1. rows' \subseteq rows /\ nextRow' = nextRow
    BY <1>2 DEF Take, Drop, DropFails
  <2>2. (older'[r] = older[r] \/ older'[r] = {}) /\ (pc'[r] \in Touching => pc[r] \in Touching)
    BY <1>2 DEF Take, Drop, DropFails, LeaveDrops, End, Forget, GoTo, procVars, TypeOK
  <2> QED
    BY <2>1, <2>2
<1>3. ASSUME NEW s \in Resetters, Dropped(s)
      PROVE  older'[r] \subseteq 1..(nextRow' - 1) /\ (pc'[r] \in Touching => rows' \cap older'[r] = {})
  <2>1. rows = {}
    BY <1>3 DEF Dropped, UserTables, SchemaInv, Rooted
  <2> QED
    BY <1>3, <2>1 DEF Dropped
<1>4. ASSUME NEW p \in Migrators, Migrate(p)
      PROVE  older'[r] \subseteq 1..(nextRow' - 1) /\ (pc'[r] \in Touching => rows' \cap older'[r] = {})
  <2>1. rows' = rows /\ nextRow' = nextRow
    BY <1>4 DEF Migrate, CreateLedger, ReadLedger, Apply, ApplyFails, Migrated
  <2>2. older'[r] = older[r] \/ older'[r] = {}
    BY <1>4 DEF Migrate, CreateLedger, ReadLedger, Apply, ApplyFails, Migrated, End, Forget, TypeOK
  <2>3. pc'[r] \in Touching => pc[r] \in Touching
    BY <1>4 DEF Migrate, CreateLedger, ReadLedger, Apply, ApplyFails, Migrated, End, GoTo, At, TypeOK
  <2> QED
    BY <2>1, <2>2, <2>3
<1>5. CASE Write
  <2>1. UNCHANGED <<older, pc>> /\ rows' = rows \cup {nextRow} /\ nextRow' = nextRow + 1
    BY <1>5 DEF Write, procVars
  <2>2. nextRow \in Nat /\ older[r] \subseteq 1..(nextRow - 1) /\ nextRow \notin older[r]
    BY ResetAssumption DEF TypeOK
  <2>3. older[r] \subseteq 1..nextRow
    BY <2>2
  <2> QED
    BY <2>1, <2>2, <2>3
<1>6. CASE Crash \/ Start \/ UNCHANGED vars
  BY <1>6 DEF Crash, Start, GoTo, vars, procVars, TypeOK
<1> QED
  BY <1>1, <1>2, <1>3, <1>4, <1>5, <1>6 DEF Next, Reset

-----------------------------------------------------------------------------
(* The invariant *)

IInv == TypeOK /\ SchemaInv /\ MainAlone /\ Calm /\ Removed

LEMMA IInvHolds == Spec => []IInv
<1>1. Init => IInv
  BY TypeInit, SchemaInit, MainInit, CalmInit, RemovedInit DEF IInv
<1>2. IInv /\ [Next]_vars => IInv'
  BY TypeNext, SchemaNext, MainNext, CalmNext, RemovedNext DEF IInv
<1> QED
  BY <1>1, <1>2, PTL DEF Spec

LEMMA IInvConverges == IInv => ResetsConverge
<1> SUFFICES ASSUME IInv PROVE ResetsConverge
  OBVIOUS
<1> USE DEF IInv
<1>1. ASSUME ~cut, Free PROVE Truthful
  BY <1>1 DEF SchemaInv, Consistent, Standing
<1>2. ASSUME Quiet, ~cut, ~crowded PROVE Complete
  <2>1. \A p \in Migrators : pc[p] \notin Steps
    BY <1>2 DEF Quiet, AtWork
  <2>2. Free
    BY <2>1, NamesDiffer DEF TypeOK, ConnectionOwner, At, Free, Steps
  <2>3. Hope /\ phase = "up"
    BY <1>2 DEF Calm, Quiet
  <2>4. \A p \in Migrators : ~Promising(p)
    BY <2>1 DEF Promising, At, Steps
  <2> QED
    BY <1>2, <2>2, <2>3, <2>4 DEF Hope, Standing
<1> QED
  BY <1>1, <1>2 DEF ResetsConverge

\* Between the drops of one reset the ledger tells what the tables have seen,
\* unless a reset ended among its drops; and when all have been answered, with an
\* error or not, the schema is the one POST /_ctl/reset promises, unless three
\* were at work at once (migrate.go:19, 79): any number of resets may have been
\* asked for, two at a time.
THEOREM ResetsAlwaysConverge == Spec => []ResetsConverge
BY IInvHolds, IInvConverges, PTL

\* A process that does not start has a database on which a reset was cut among
\* its drops; wherever else one died, the next start makes it good (migrate.go:19).
THEOREM StartsAlwaysAgain == Spec => []StartsAgain
<1>1. IInv => StartsAgain
  BY DEF IInv, MainAlone, StartsAgain
<1> QED
  BY <1>1, IInvHolds, PTL

LEMMA AnswerRestores ==
  ASSUME IInv, NEW r \in Resetters, Migrated(r)
  PROVE  /\ rows' \cap older[r] = {}
         /\ Complete' \/ cut' \/ crowded \/ \E s \in Resetters \ {r} : pc[s] \in Steps
<1> USE NamesDiffer DEF IInv
<1>1. At(r, "apply") /\ Migrations \subseteq known[r] /\ UNCHANGED <<schema, rows, cut>>
  BY DEF Migrated
<1>2. rows' \cap older[r] = {}
  BY <1>1 DEF Removed, Touching, At
<1>3. ASSUME ~cut, ~crowded, \A s \in Resetters \ {r} : pc[s] \notin Steps
      PROVE  Complete'
  <2>1. phase = "up"
    BY OthersMigrate DEF Migrate
  <2>2. pc[Boot] \notin Steps
    BY <2>1 DEF MainAlone, At, Steps
  <2>3. Free
    BY <1>1, <1>3 DEF TypeOK, ConnectionOwner, At, Free, Steps
  <2>4. Complete \/ \E p \in Migrators : Promising(p)
    BY <1>3, <2>1, <2>3 DEF Calm, Hope, Standing
  <2>5. ASSUME Promising(r) PROVE Complete
    <3>1. known[r] = applied
      BY <1>1, <2>5 DEF Promising, At, Migrations
    <3>2. applied = Migrations
      BY <1>1, <3>1 DEF TypeOK
    <3> QED
      BY <1>3, <3>2, FullIsComplete
  <2>6. \A p \in Migrators : Promising(p) => p = r
    BY <1>3, <2>2 DEF Promising, At, Steps
  <2> QED
    BY <1>1, <2>4, <2>5, <2>6 DEF Complete, schema
<1> QED
  BY <1>1, <1>2, <1>3

\* A reset that is answered ok has removed every contact that was there when it
\* was asked for; and alone with its tables, after any past of two at a time, it
\* leaves the schema complete (migrate.go:79).
THEOREM ResetsRestore == Spec => ResetRestores
<1>1. IInv => \A r \in Resetters : Migrated(r) =>
                /\ rows' \cap older[r] = {}
                /\ Complete' \/ cut' \/ crowded \/ \E s \in Resetters \ {r} : pc[s] \in Steps
  BY AnswerRestores
<1> QED
  BY <1>1, IInvHolds, PTL DEF ResetRestores
=============================================================================
