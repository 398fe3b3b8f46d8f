----------------------------- MODULE MigrateReset -----------------------------
(***************************************************************************)
(* Migrating the database and resetting it (store/migrate.go).  A reset    *)
(* drops every table statement by statement on the only write connection,  *)
(* gives the connection back, and migrates as the process does when it     *)
(* starts: a ledger of the migrations that ran, and one transaction for    *)
(* each that did not.  Resets run concurrently with each other and with    *)
(* requests that write, and the process may die at any statement.          *)
(***************************************************************************)
EXTENDS Naturals, FiniteSets

CONSTANTS
  Resetters,   \* concurrent requests for a reset
  Boot,        \* main, which migrates before it listens
  Nobody,      \* the write connection is in its pool
  MaxResets,   \* bound on the resets of a behaviour
  MaxCrashes,  \* bound on its crashes
  MaxRows      \* bound on the contacts that requests create

ASSUME ResetAssumption ==
  /\ Boot \notin Resetters /\ Nobody \notin Resetters \cup {Boot}
  /\ MaxResets \in Nat /\ MaxCrashes \in Nat /\ MaxRows \in Nat

VARIABLES
  present,  \* the tables there are
  applied,  \* the rows of schema_migrations
  seeded,   \* whether 0002 has filled the tables of 0001
  altered,  \* whether fault_rules has the column of 0003
  rows,     \* the contacts
  nextRow,  \* names each contact for good
  conn,     \* who keeps the write connection from one statement to the next
  pc,       \* the next statement of main and of each reset
  known,    \* the migrations each found in the ledger, or has applied since
  older,    \* the contacts there were when a reset was asked for
  cut,      \* whether the last reset to drop tables ended among them
  crowded,  \* whether three resets were at work at once, and none alone since
  phase,    \* the process is starting, up or down
  resets, crashes

schema == <<present, applied, seeded, altered>>
procVars == <<conn, pc, known, older>>
vars == <<schema, rows, nextRow, procVars, cut, crowded, phase, resets, crashes>>

Ledger == "schema_migrations"
\* fields stands for the tables that 0002 fills.
InitTables == {"fields", "contacts", "fault_rules"}
Tables == InitTables \cup {Ledger}
Migrations == 1..3
Migrators == Resetters \cup {Boot}
Steps == {"take", "drop", "create", "read", "apply"}
Resting == {"idle", "ok", "failed"}

\* A file that has never been opened.
Init ==
  /\ present = {} /\ applied = {} /\ seeded = FALSE /\ altered = FALSE
  /\ rows = {} /\ nextRow = 1
  /\ conn = Nobody
  /\ pc = [p \in Migrators |-> IF p = Boot THEN "create" ELSE "idle"]
  /\ known = [p \in Migrators |-> {}]
  /\ older = [p \in Migrators |-> {}]
  /\ cut = FALSE /\ crowded = FALSE /\ phase = "starting" /\ resets = 0 /\ crashes = 0

-----------------------------------------------------------------------------
At(p, step) == pc[p] = step
GoTo(p, step) == pc' = [pc EXCEPT ![p] = step]
Free == conn = Nobody

\* main listens once Migrate has succeeded, and exits when it has not.
PhaseAfter(p, result) ==
  phase' = IF p # Boot THEN phase ELSE IF result = "ok" THEN "up" ELSE "down"
\* What a goroutine remembers ends with it; main goes by the result.
Forget(p) == known' = [known EXCEPT ![p] = {}] /\ older' = [older EXCEPT ![p] = {}]
End(p, result) ==
  /\ GoTo(p, IF p = Boot THEN result ELSE "idle")
  /\ Forget(p) /\ PhaseAfter(p, result)

-----------------------------------------------------------------------------
(* dropAll *)

\* Who is migrating, or resetting before that.
AtWork == {p \in Migrators : pc[p] \in Steps}

AskReset(r) ==
  /\ phase = "up" /\ At(r, "idle") /\ resets < MaxResets
  /\ resets' = resets + 1
  /\ older' = [older EXCEPT ![r] = rows]
  /\ GoTo(r, "take")
  /\ crowded' = (crowded \/ Cardinality(AtWork) >= 2)
  /\ UNCHANGED <<schema, rows, nextRow, conn, known, cut, phase, crashes>>

Take(r) ==
  /\ At(r, "take") /\ Free
  /\ conn' = r /\ GoTo(r, "drop")
  /\ UNCHANGED <<schema, rows, nextRow, known, older, cut, crowded, phase, resets, crashes>>

\* deviation: the ledger is not taken for a table of the application
UserTablesOnly == present \ {Ledger}
UserTables == present

\* sqlite_master lists the tables as they were created: the ledger first.
NextTable(t) == t \in UserTables /\ (Ledger \in UserTables => t = Ledger)

Drop(r) ==
  /\ At(r, "drop")
  /\ \E t \in UserTables :
       /\ NextTable(t)
       /\ present' = present \ {t}
       /\ applied' = IF t = Ledger THEN {} ELSE applied
       /\ seeded' = (seeded /\ t # "fields")
       /\ altered' = (altered /\ t # "fault_rules")
       /\ rows' = IF t = "contacts" THEN {} ELSE rows
  /\ UNCHANGED <<nextRow, procVars, cut, crowded, phase, resets, crashes>>

\* A reset that ends here has dropped nothing, some tables or all.
CutHere == IF Ledger \in present THEN cut ELSE present # {}

\* deviations: the connection leaks with the error, or the error is not looked at
LeaveDropsHolding(r) == End(r, "failed") /\ conn' = conn
LeaveDropsUnseen(r) == GoTo(r, "create") /\ conn' = Nobody /\ UNCHANGED <<known, older, phase>>
LeaveDrops(r) == End(r, "failed") /\ conn' = Nobody

\* A DROP fails: the reset answers an error.
DropFails(r) ==
  /\ At(r, "drop") /\ UserTables # {}
  /\ LeaveDrops(r)
  /\ cut' = CutHere
  /\ UNCHANGED <<schema, rows, nextRow, crowded, resets, crashes>>

\* deviation: migrates before it gives the connection back
KeepConnection == conn' = conn
Return == conn' = Nobody

Dropped(r) ==
  /\ At(r, "drop") /\ UserTables = {}
  /\ Return /\ GoTo(r, "create")
  /\ cut' = FALSE /\ crowded' = (crowded /\ AtWork # {r})
  /\ UNCHANGED <<schema, rows, nextRow, known, older, phase, resets, crashes>>

-----------------------------------------------------------------------------
(* Migrate *)

CreateLedger(p) ==
  /\ At(p, "create") /\ Free
  /\ present' = present \cup {Ledger}
  /\ GoTo(p, "read")
  /\ UNCHANGED <<applied, seeded, altered, rows, nextRow, conn, known, older, cut, crowded, phase, resets, crashes>>

\* Another reset may have dropped the ledger again.
ReadLedger(p) ==
  /\ At(p, "read") /\ Free
  /\ \/ Ledger \in present /\ known' = [known EXCEPT ![p] = applied] /\ GoTo(p, "apply") /\ UNCHANGED <<older, phase>>
     \/ Ledger \notin present /\ End(p, "failed")
  /\ UNCHANGED <<schema, rows, nextRow, conn, cut, crowded, resets, crashes>>

\* The first migration in filename order that was not in the ledger.
Pending(p, m) == m \in Migrations \ known[p] /\ \A n \in 1..(m - 1) : n \in known[p]

\* Whether its statements succeed, and the row for the ledger.
Applies(m) ==
  /\ Ledger \in present /\ m \notin applied
  /\ m = 1 => present \cap InitTables = {}
  /\ m = 2 => InitTables \subseteq present /\ ~seeded
  /\ m = 3 => "fault_rules" \in present /\ ~altered

\* deviation: outside a transaction, where the row may be lost
RecordMaybe(m) == applied' \in {applied, applied \cup {m}}
Record(m) == applied' = applied \cup {m}

Apply(p) ==
  /\ At(p, "apply") /\ Free
  /\ \E m \in Migrations :
       /\ Pending(p, m) /\ Applies(m)
       /\ present' = IF m = 1 THEN present \cup InitTables ELSE present
       /\ seeded' = (seeded \/ m = 2)
       /\ altered' = (altered \/ m = 3)
       /\ Record(m)
       /\ known' = [known EXCEPT ![p] = known[p] \cup {m}]
  /\ UNCHANGED <<rows, nextRow, conn, pc, older, cut, crowded, phase, resets, crashes>>

\* The transaction of a migration fails and leaves nothing behind.
ApplyFails(p) ==
  /\ At(p, "apply") /\ Free
  /\ \E m \in Migrations : Pending(p, m) /\ ~Applies(m)
  /\ End(p, "failed")
  /\ UNCHANGED <<schema, rows, nextRow, conn, cut, crowded, resets, crashes>>

Migrated(p) ==
  /\ At(p, "apply") /\ Migrations \subseteq known[p]
  /\ End(p, "ok")
  /\ UNCHANGED <<schema, rows, nextRow, conn, cut, crowded, resets, crashes>>

-----------------------------------------------------------------------------
(* Everything else *)

\* A request creates a contact; without the table it is answered an error.
Write ==
  /\ phase = "up" /\ Free /\ "contacts" \in present /\ nextRow <= MaxRows
  /\ rows' = rows \cup {nextRow}
  /\ nextRow' = nextRow + 1
  /\ UNCHANGED <<schema, procVars, cut, crowded, phase, resets, crashes>>

Crash ==
  /\ phase # "down" /\ crashes < MaxCrashes
  /\ crashes' = crashes + 1 /\ phase' = "down"
  /\ conn' = Nobody
  /\ pc' = [p \in Migrators |-> "idle"]
  /\ cut' = IF Free THEN cut ELSE CutHere
  /\ known' = [p \in Migrators |-> {}] /\ older' = [p \in Migrators |-> {}]
  /\ UNCHANGED <<schema, rows, nextRow, crowded, resets>>

\* A new process on the same file.
Start ==
  /\ phase = "down" /\ phase' = "starting"
  /\ GoTo(Boot, "create") /\ crowded' = FALSE
  /\ UNCHANGED <<schema, rows, nextRow, conn, known, older, cut, resets, crashes>>

-----------------------------------------------------------------------------
Reset(r) == Take(r) \/ Drop(r) \/ DropFails(r) \/ Dropped(r)
Migrate(p) == CreateLedger(p) \/ ReadLedger(p) \/ Apply(p) \/ ApplyFails(p) \/ Migrated(p)

Next ==
  \/ \E r \in Resetters : AskReset(r) \/ Reset(r)
  \/ \E p \in Migrators : Migrate(p)
  \/ Write \/ Crash \/ Start

Spec == Init /\ [][Next]_vars

\* main and each handler run on goroutines of their own.
FairSpec == Spec /\ \A p \in Migrators : WF_vars(Reset(p) \/ Migrate(p))

-----------------------------------------------------------------------------
(* What must hold *)

\* Only a reset among its drops keeps the connection.
ConnectionOwner == \A r \in Resetters : conn = r <=> At(r, "drop")

TypeOK ==
  /\ present \subseteq Tables /\ applied \subseteq Migrations
  /\ seeded \in BOOLEAN /\ altered \in BOOLEAN /\ cut \in BOOLEAN /\ crowded \in BOOLEAN
  /\ nextRow \in 1..(MaxRows + 1) /\ rows \subseteq 1..(nextRow - 1)
  /\ conn \in Resetters \cup {Nobody} /\ ConnectionOwner
  /\ pc \in [Migrators -> Steps \cup Resting]
  /\ known \in [Migrators -> SUBSET Migrations]
  /\ older \in [Migrators -> SUBSET (1..MaxRows)]
  /\ phase \in {"starting", "up", "down"}
  /\ resets \in 0..MaxResets /\ crashes \in 0..MaxCrashes

\* The seeded state that POST /_ctl/reset promises, whatever was added since.
Complete == present = Tables /\ applied = Migrations /\ seeded /\ altered

\* The ledger tells which migrations the tables have seen.
Truthful ==
  /\ 1 \in applied <=> InitTables \subseteq present
  /\ 2 \in applied <=> seeded
  /\ 3 \in applied <=> altered

\* However resets drop each other's tables and fail on each other's migrations,
\* between their drops the ledger tells what is there, unless a reset ended among
\* its drops; and once all have been answered, even all with an error, the schema
\* is complete again, unless three were at work at the same time.  Three can
\* leave a migration out: of two that run the first one's, the one which read the
\* ledger before a third dropped it goes on after a migration it takes as applied.
Quiet == phase = "up" /\ AtWork = {}
ResetsConverge ==
  /\ ~cut /\ Free => Truthful
  /\ Quiet /\ ~cut /\ ~crowded => Complete

\* A process does not start only if a reset was cut: crashes during a migration,
\* or after the drops of a reset, are made good by the next start.
StartsAgain == At(Boot, "failed") => cut

\* A reset that is answered ok has removed every contact there was when it was
\* asked for, and has left a complete schema, unless another reset is under way
\* or was cut, or three were at work at the same time.
ResetRestores ==
  [][\A r \in Resetters : Migrated(r) =>
       /\ rows' \cap older[r] = {}
       /\ Complete' \/ cut' \/ crowded \/ \E s \in Resetters \ {r} : pc[s] \in Steps]_vars

\* Every reset is answered, and every start decided, unless the process dies:
\* nobody waits for a connection that is not given back (migrate.go:83, 102).
ResetsAnswer == \A p \in Migrators : pc[p] \in Steps ~> pc[p] \in Resting
=============================================================================
