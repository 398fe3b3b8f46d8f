------------------------------ MODULE ContactApi ------------------------------
(***************************************************************************)
(* The requests that read and write contacts, fields and field values:     *)
(* contact create/update/upsert/delete, the dashboard's inline edit, the   *)
(* control plane's seed, and field create/delete, all served concurrently. *)
(*                                                                         *)
(* Every statement of the store is atomic, and there is one write          *)
(* connection (store.Open), so statements that write are serialised and a  *)
(* transaction excludes other writers.  A handler is several statements:   *)
(* what it read earlier (the field catalogue, the contact list, MAX(id))   *)
(* may have changed by the time it writes.                                 *)
(***************************************************************************)
EXTENDS ContactTables, Sequences

CONSTANTS
  Callers,       \* concurrent HTTP requests
  Requests,      \* what a caller may ask for
  MaxCalls,      \* bound on the requests of a behaviour
  BatchLimit,    \* cfg.MaxBatchContacts
  SeededFields,  \* the catalogue of 0002_seed.sql
  SystemFields,  \* those of its fields that have is_system = 1
  SeededDef,     \* their definitions
  SeededChoices, \* and their choices
  Names,         \* string_ids
  WellFormed,    \* the values that parse as a date or as a number
  NoField, NoList, NoKey, NoCaller, NoRequest

Types == {"text", "format", "choice"}
FieldDef == [sid: Names, type: Types]
Catalog == [fields: [FieldIds -> FieldDef \cup {NoField}], choices: [FieldIds -> SUBSET Values]]

\* One entry of contacts[]: the "id" it addresses, if any, and its field values.
Row == [addr: ContactIds \cup {NoKey}, vals: FieldValues]
Keys == FieldIds \cup {ById}
KeyValues == Values \cup ContactIds \cup {NoKey}

BatchRequest == [op: {"batch"}, update: BOOLEAN, create: BOOLEAN, key: Keys,
                 rows: Seq(Row), list: Lists \cup {NoList}]
SeedRequest == [op: {"seed"}, key: Keys, rows: Seq(Row)]
DeleteRequest == [op: {"delete"}, key: Keys, keyValues: SUBSET (KeyValues \ {NoKey})]
SetFieldRequest == [op: {"setfield"}, contact: ContactIds, field: FieldIds, value: Texts]
NewFieldRequest == [op: {"newfield"}, def: FieldDef]
DropFieldRequest == [op: {"dropfield"}, field: FieldIds]
SeedFieldRequest == [op: {"seedfield"}, field: FieldIds, def: FieldDef, choice: Stored]
DropListRequest == [op: {"droplist"}, list: Lists]

Request == BatchRequest \cup SeedRequest \cup DeleteRequest \cup SetFieldRequest
           \cup NewFieldRequest \cup DropFieldRequest \cup SeedFieldRequest \cup DropListRequest

ASSUME CallsAssumption == MaxCalls \in Nat /\ BatchLimit \in Nat
ASSUME RequestsAssumption == \A r \in Requests : r \in Request
ASSUME SeedAssumption ==
  /\ SystemFields \subseteq SeededFields /\ SeededFields \subseteq FieldIds
  /\ SeededDef \in [SeededFields -> FieldDef]
  /\ SeededChoices \in [SeededFields -> SUBSET Values]
ASSUME AbsentAssumption ==
  /\ NoField \notin FieldDef
  /\ NoList \notin Lists
  /\ NoKey \notin Values \cup ContactIds
  /\ NoCaller \notin Callers
  /\ NoRequest \notin Request

VARIABLES
  fields,   \* table fields
  choices,  \* table field_choices
  lists,    \* table contact_lists
  db,       \* the committed contact tables
  conn,     \* the request whose transaction holds the write connection
  work,     \* that transaction's view of the contact tables
  tx,       \* its local variables: next row, seen, errors, touched
  pc,       \* what each request does next
  req,      \* what it was asked
  cat,      \* the catalogue it loaded
  nextField,\* the id CreateField read as MAX(id) + 1
  calls     \* requests sent so far

catalogVars == <<fields, choices, lists>>
txVars == <<conn, work, tx>>
callVars == <<req, calls>>
vars == <<fields, choices, lists, db, conn, work, tx, pc, req, cat, nextField, calls>>

Codes == {"2005", "2006", "2008", "2009", "2010"}
Resting == {"idle", "ok", "failed"}
Steps == {"fields", "choices", "list", "begin", "rows", "read", "write", "choice"}

NoTx == [at |-> 1, seen |-> {}, errors |-> [k \in KeyValues |-> "none"], touched |-> {}]
NoCatalog == [fields |-> [f \in FieldIds |-> NoField], choices |-> [f \in FieldIds |-> {}]]
Known(fs) == {f \in FieldIds : fs[f] # NoField}

Init ==
  /\ fields = [f \in FieldIds |-> IF f \in SeededFields THEN SeededDef[f] ELSE NoField]
  /\ choices = [f \in FieldIds |-> IF f \in SeededFields THEN SeededChoices[f] ELSE {}]
  /\ lists = Lists
  /\ db = NoContacts
  /\ conn = NoCaller /\ work = NoContacts /\ tx = NoTx
  /\ pc = [c \in Callers |-> "idle"]
  /\ req = [c \in Callers |-> NoRequest]
  /\ cat = [c \in Callers |-> NoCatalog]
  /\ nextField = [c \in Callers |-> 1]
  /\ calls = 0

-----------------------------------------------------------------------------
(* validateValue and keyValueOf *)

\* An empty value is legal for every type: it clears the field.
Fits(snapshot, f, v) ==
  /\ snapshot.fields[f] # NoField
  /\ \/ v = Empty
     \/ snapshot.fields[f].type = "text"
     \/ snapshot.fields[f].type = "format" /\ v \in WellFormed
     \/ snapshot.fields[f].type = "choice" /\ v \in snapshot.choices[f]

RowFits(snapshot, row) == \A f \in DOMAIN row.vals : Fits(snapshot, f, row.vals[f])

\* deviation: an empty key value counts as one
KeyValueMaybeEmpty(row, key) ==
  IF key = ById THEN row.addr ELSE IF key \in DOMAIN row.vals THEN row.vals[key] ELSE NoKey

KeyValue(row, key) ==
  IF key = ById THEN row.addr
  ELSE IF key \in DOMAIN row.vals /\ row.vals[key] # Empty THEN row.vals[key] ELSE NoKey

KeyKnown(snapshot, key) == key = ById \/ key \in Known(snapshot.fields)
RowKnown(snapshot, row) == DOMAIN row.vals \subseteq Known(snapshot.fields)

\* The checks a handler makes after loading the catalogue, before it writes.
Acceptable(snapshot, r) ==
  CASE r.op = "batch" -> /\ KeyKnown(snapshot, r.key)
                         /\ Len(r.rows) \in 1..BatchLimit
                         /\ \A i \in 1..Len(r.rows) : RowKnown(snapshot, r.rows[i])
    [] r.op = "delete" -> KeyKnown(snapshot, r.key) /\ r.keyValues # {}
    [] r.op = "setfield" -> Fits(snapshot, r.field, r.value)
    [] OTHER -> TRUE

-----------------------------------------------------------------------------
(* Requests come and go *)

At(c, step) == pc[c] = step
GoTo(c, step) == pc' = [pc EXCEPT ![c] = step]

FirstStep(r) ==
  IF r.op \in {"batch", "seed", "delete", "setfield"} THEN "fields"
  ELSE IF r.op \in {"newfield", "dropfield"} THEN "read" ELSE "write"

Call(c, r) ==
  /\ pc[c] \in Resting /\ calls < MaxCalls
  /\ calls' = calls + 1
  /\ req' = [req EXCEPT ![c] = r]
  /\ pc' = [pc EXCEPT ![c] = FirstStep(r)]
  /\ UNCHANGED <<catalogVars, db, txVars, cat, nextField>>

\* A transaction that ends gives the write connection back, committed or not.
ReleaseNever == conn' = conn /\ work' = NoContacts /\ tx' = NoTx  \* deviation: the pool never gets it back
Release == conn' = NoCaller /\ work' = NoContacts /\ tx' = NoTx

GiveUpLeaks(c) == UNCHANGED txVars  \* deviation: a cancelled transaction stays open
GiveUp(c) == IF conn = c THEN Release ELSE UNCHANGED txVars

\* The client goes away: its context is cancelled, the statement it is at
\* fails, and database/sql rolls an open transaction back.
Abandon(c) ==
  /\ pc[c] \in Steps
  /\ pc' = [pc EXCEPT ![c] = "failed"]
  /\ GiveUp(c)
  /\ UNCHANGED <<catalogVars, db, callVars, cat, nextField>>

-----------------------------------------------------------------------------
(* Reading, before the write connection is needed *)

\* LoadFieldCatalog is two reads: the fields, then the choices.
LoadFields(c) ==
  /\ At(c, "fields") /\ GoTo(c, "choices")
  /\ cat' = [cat EXCEPT ![c] = [NoCatalog EXCEPT !.fields = fields]]
  /\ UNCHANGED <<catalogVars, db, txVars, callVars, nextField>>

LoadChoices(c) ==
  LET snapshot == [cat[c] EXCEPT !.choices = choices]
      r == req[c]
  IN  /\ At(c, "choices")
      /\ cat' = [cat EXCEPT ![c] = snapshot]
      /\ \/ ~Acceptable(snapshot, r) /\ GoTo(c, "failed")
         \/ /\ Acceptable(snapshot, r)
            /\ GoTo(c, IF r.op = "batch" /\ r.list # NoList THEN "list" ELSE "begin")
      /\ UNCHANGED <<catalogVars, db, txVars, callVars, nextField>>

\* ContactListExists, asked outside the transaction.
CheckList(c) ==
  /\ At(c, "list")
  /\ GoTo(c, IF req[c].list \in lists THEN "begin" ELSE "failed")
  /\ UNCHANGED <<catalogVars, db, txVars, callVars, cat, nextField>>

-----------------------------------------------------------------------------
(* The transaction of a batch or of a seed, one row per step *)

Begin(c) ==
  /\ At(c, "begin") /\ req[c].op \in {"batch", "seed"}
  /\ conn = NoCaller
  /\ db.next + Len(req[c].rows) <= MaxContact + 1
  /\ conn' = c /\ work' = db /\ tx' = NoTx
  /\ GoTo(c, "rows")
  /\ UNCHANGED <<catalogVars, db, callVars, cat, nextField>>

RowsLeft(c) == At(c, "rows") /\ tx.at <= Len(req[c].rows)
RowOf(c) == req[c].rows[tx.at]
KeyOf(c) == KeyValue(RowOf(c), req[c].key)
FoundOutside(c) == FindContactIDs(db, req[c].key, KeyOf(c))  \* deviation: asks the read pool
Found(c) == FindContactIDs(work, req[c].key, KeyOf(c))

\* Why runContactBatch puts a row into data.errors, if it does.
Refused(c, code) ==
  LET valid == RowFits(cat[c], RowOf(c))
      fresh == KeyOf(c) # NoKey /\ KeyOf(c) \notin tx.seen
  IN  \/ code = "2005" /\ KeyOf(c) = NoKey
      \/ code = "2010" /\ KeyOf(c) \in tx.seen
      \/ code = "2006" /\ fresh /\ ~valid
      \/ code = "2010" /\ fresh /\ valid /\ Cardinality(Found(c)) > 1
      \/ code = "2009" /\ fresh /\ valid /\ Cardinality(Found(c)) = 1 /\ ~req[c].update
      \/ code = "2008" /\ fresh /\ valid /\ Found(c) = {} /\ req[c].update /\ ~req[c].create

Accepted(c) == \A code \in Codes : ~Refused(c, code)

\* A refused row is reported under its key value; the batch goes on.
RefuseRow(c) ==
  /\ RowsLeft(c) /\ req[c].op = "batch"
  /\ \E code \in Codes :
       /\ Refused(c, code)
       /\ tx' = [tx EXCEPT !.at = tx.at + 1,
                           !.seen = tx.seen \cup ({KeyOf(c)} \ {NoKey}),
                           !.errors[KeyOf(c)] = code]
  /\ UNCHANGED <<catalogVars, db, conn, work, pc, callVars, cat, nextField>>

\* contact_values has a foreign key on fields.
RowIsStorable(row) == DOMAIN row.vals \subseteq Known(fields)

NextRow(touched, seen) ==
  tx' = [tx EXCEPT !.at = tx.at + 1, !.seen = seen, !.touched = tx.touched \cup {touched}]

\* One match is updated; no match is created unless Refused ruled it out.
WriteRow(c) ==
  LET row == RowOf(c)
  IN  /\ RowsLeft(c) /\ req[c].op = "batch" /\ Accepted(c)
      /\ RowIsStorable(row)
      /\ \/ \E x \in Found(c) :
              /\ work' = ApplyContactValues(work, x, row.vals)
              /\ NextRow(x, tx.seen \cup {KeyOf(c)})
         \/ /\ Found(c) = {}
            /\ work' = CreateContact(work, row.vals)
            /\ NextRow(work.next, tx.seen \cup {KeyOf(c)})
      /\ UNCHANGED <<catalogVars, db, conn, pc, callVars, cat, nextField>>

\* seedContacts neither validates nor refuses: it takes the first match.
SeedRow(c) ==
  LET row == RowOf(c)
  IN  /\ RowsLeft(c) /\ req[c].op = "seed"
      /\ RowKnown(cat[c], row) /\ KeyOf(c) # NoKey /\ RowIsStorable(row)
      /\ \/ \E x \in Found(c) :
              /\ \A y \in Found(c) : x <= y
              /\ work' = ApplyContactValues(work, x, row.vals)
              /\ NextRow(x, tx.seen)
         \/ /\ Found(c) = {}
            /\ work' = CreateContact(work, row.vals)
            /\ NextRow(work.next, tx.seen)
      /\ UNCHANGED <<catalogVars, db, conn, pc, callVars, cat, nextField>>

\* A batch that named a list and touched contacts ends by adding them to it.
Joins(c) == req[c].op = "batch" /\ req[c].list # NoList /\ tx.touched # {}

\* An error inside the transaction rolls the whole of it back: a value for a
\* field deleted since the catalogue was loaded, a seed row that does not parse,
\* a list deleted since it was checked.
RollBack(c) ==
  /\ At(c, "rows")
  /\ \/ RowsLeft(c) /\ req[c].op = "batch" /\ Accepted(c) /\ ~RowIsStorable(RowOf(c))
     \/ /\ RowsLeft(c) /\ req[c].op = "seed"
        /\ ~(RowKnown(cat[c], RowOf(c)) /\ KeyOf(c) # NoKey /\ RowIsStorable(RowOf(c)))
     \/ ~RowsLeft(c) /\ Joins(c) /\ req[c].list \notin lists
  /\ Release /\ GoTo(c, "failed")
  /\ UNCHANGED <<catalogVars, db, callVars, cat, nextField>>

Commit(c) ==
  /\ At(c, "rows") /\ ~RowsLeft(c)
  /\ Joins(c) => req[c].list \in lists
  /\ db' = IF Joins(c) THEN AddContactsToList(work, req[c].list, tx.touched) ELSE work
  /\ Release /\ GoTo(c, "ok")
  /\ UNCHANGED <<catalogVars, callVars, cat, nextField>>

-----------------------------------------------------------------------------
(* Transactions of a fixed shape, in one step: the connection is exclusive *)

\* handleContactDelete deletes every match of every key value.
DeleteMatching(c) ==
  /\ At(c, "begin") /\ req[c].op = "delete" /\ conn = NoCaller
  /\ db' = DeleteContacts(db, UNION {FindContactIDs(db, req[c].key, k) : k \in req[c].keyValues})
  /\ GoTo(c, "ok")
  /\ UNCHANGED <<catalogVars, txVars, callVars, cat, nextField>>

\* adminContactSetField; the contact and the field may be gone by now.
SetField(c) ==
  LET r == req[c]
      there == r.contact \in db.live /\ fields[r.field] # NoField
  IN  /\ At(c, "begin") /\ r.op = "setfield" /\ conn = NoCaller
      /\ db' = IF there THEN ApplyContactValues(db, r.contact, [f \in {r.field} |-> r.value]) ELSE db
      /\ GoTo(c, IF there THEN "ok" ELSE "failed")
      /\ UNCHANGED <<catalogVars, txVars, callVars, cat, nextField>>

-----------------------------------------------------------------------------
(* The field catalogue and the lists: statements on their own *)

WritingAnytime(c, step, op) == At(c, step) /\ req[c].op = op  \* deviation: a second write connection
Writing(c, step, op) == At(c, step) /\ req[c].op = op /\ conn = NoCaller
NameTaken(f, sid) == \E g \in Known(fields) \ {f} : fields[g].sid = sid

\* CreateField reads MAX(id) + 1 in one statement ...
AllocateField(c) ==
  /\ Writing(c, "read", "newfield")
  /\ \E next \in FieldIds :
       /\ \A f \in Known(fields) : f < next
       /\ next = 1 \/ next - 1 \in Known(fields)
       /\ nextField' = [nextField EXCEPT ![c] = next]
  /\ GoTo(c, "write")
  /\ UNCHANGED <<catalogVars, db, txVars, callVars, cat>>

\* ... and inserts in another, which fails on a taken id or string_id.
InsertField(c) ==
  LET f == nextField[c]
      free == fields[f] = NoField /\ ~NameTaken(f, req[c].def.sid)
  IN  /\ Writing(c, "write", "newfield")
      /\ fields' = IF free THEN [fields EXCEPT ![f] = req[c].def] ELSE fields
      /\ GoTo(c, IF free THEN "ok" ELSE "failed")
      /\ UNCHANGED <<choices, lists, db, txVars, callVars, cat, nextField>>

\* DeleteField looks the field up, then deletes it.
CheckField(c) ==
  LET f == req[c].field
  IN  /\ Writing(c, "read", "dropfield")
      /\ GoTo(c, IF fields[f] = NoField \/ f \in SystemFields THEN "failed" ELSE "write")
      /\ UNCHANGED <<catalogVars, db, txVars, callVars, cat, nextField>>

DropField(c) ==
  LET f == req[c].field
  IN  /\ Writing(c, "write", "dropfield")
      /\ fields' = [fields EXCEPT ![f] = NoField]
      /\ choices' = [choices EXCEPT ![f] = {}]
      /\ db' = DropFieldValues(db, f)
      /\ GoTo(c, "ok")
      /\ UNCHANGED <<lists, txVars, callVars, cat, nextField>>

\* applySeed: UpsertField, then AddChoice, each on its own.
UpsertField(c) ==
  LET r == req[c]
  IN  /\ Writing(c, "write", "seedfield")
      /\ \/ NameTaken(r.field, r.def.sid) /\ fields' = fields /\ GoTo(c, "failed")
         \/ /\ ~NameTaken(r.field, r.def.sid)
            /\ fields' = [fields EXCEPT ![r.field] = r.def]
            /\ GoTo(c, IF r.choice \in Values THEN "choice" ELSE "ok")
      /\ UNCHANGED <<choices, lists, db, txVars, callVars, cat, nextField>>

AddChoice(c) ==
  LET r == req[c]
      there == fields[r.field] # NoField
  IN  /\ Writing(c, "choice", "seedfield")
      /\ choices' = IF there THEN [choices EXCEPT ![r.field] = @ \cup {r.choice}] ELSE choices
      /\ GoTo(c, IF there THEN "ok" ELSE "failed")
      /\ UNCHANGED <<fields, lists, db, txVars, callVars, cat, nextField>>

DropList(c) ==
  LET l == req[c].list
  IN  /\ Writing(c, "write", "droplist")
      /\ lists' = lists \ {l}
      /\ db' = DropListMembers(db, l)
      /\ GoTo(c, IF l \in lists THEN "ok" ELSE "failed")
      /\ UNCHANGED <<fields, choices, txVars, callVars, cat, nextField>>

-----------------------------------------------------------------------------
\* What the server does for a request, as opposed to what its client does.
Serve(c) ==
  \/ LoadFields(c) \/ LoadChoices(c) \/ CheckList(c)
  \/ Begin(c) \/ RefuseRow(c) \/ WriteRow(c) \/ SeedRow(c) \/ RollBack(c) \/ Commit(c)
  \/ DeleteMatching(c) \/ SetField(c)
  \/ AllocateField(c) \/ InsertField(c) \/ CheckField(c) \/ DropField(c)
  \/ UpsertField(c) \/ AddChoice(c) \/ DropList(c)

\* The bound on calls is reached and every request is answered.
Finished ==
  /\ calls = MaxCalls /\ \A c \in Callers : pc[c] \in Resting
  /\ UNCHANGED vars

Next ==
  \/ \E c \in Callers : Serve(c) \/ Abandon(c) \/ \E r \in Requests : Call(c, r)
  \/ Finished

Spec == Init /\ [][Next]_vars

\* Every handler runs on a goroutine of its own, so it is never held up for ever.
FairSpec == Spec /\ \A c \in Callers : WF_vars(Serve(c))
-----------------------------------------------------------------------------
(* What must hold *)

\* A request is only ever at a step that requests of its kind have.
StepsOf(r) ==
  CASE r.op = "batch" -> {"fields", "choices", "list", "begin", "rows"}
    [] r.op = "seed" -> {"fields", "choices", "begin", "rows"}
    [] r.op \in {"delete", "setfield"} -> {"fields", "choices", "begin"}
    [] r.op \in {"newfield", "dropfield"} -> {"read", "write"}
    [] r.op = "seedfield" -> IF r.choice \in Values THEN {"write", "choice"} ELSE {"write"}
    [] OTHER -> {"write"}

Transaction == [at: Nat \ {0}, seen: SUBSET KeyValues,
                errors: [KeyValues -> Codes \cup {"none"}], touched: SUBSET ContactIds]

CatalogOK ==
  /\ fields \in [FieldIds -> FieldDef \cup {NoField}]
  /\ choices \in [FieldIds -> SUBSET Values]
  /\ lists \subseteq Lists
  /\ cat \in [Callers -> Catalog]
  /\ nextField \in [Callers -> FieldIds]
StoreOK ==
  /\ db \in Tables /\ work \in Tables
  /\ conn \in Callers \cup {NoCaller}
  /\ tx \in Transaction
CallsOK ==
  /\ pc \in [Callers -> Resting \cup Steps]
  /\ req \in [Callers -> Requests \cup {NoRequest}]
  /\ \A c \in Callers : pc[c] \in Steps => req[c] \in Requests /\ pc[c] \in StepsOf(req[c])
  /\ calls \in 0..MaxCalls
TypeOK == CatalogOK /\ StoreOK /\ CallsOK

\* Exactly the request that is in its transaction holds the write connection.
ConnectionOwner == \A c \in Callers : (conn = c) <=> At(c, "rows")

\* No row outlives what it refers to, also not a choice its field.
ReferentialIntegrity ==
  /\ RowsAreAnchored(db, Known(fields), lists)
  /\ conn # NoCaller => RowsAreAnchored(work, Known(fields), lists)
  /\ \A f \in FieldIds : fields[f] = NoField => choices[f] = {}

\* The change log explains the data, in the database and in the transaction.
AuditTrail == TrailExplains(db) /\ (conn # NoCaller => TrailExplains(work))

\* Every stored value fits the type its field has.
ValuesFit ==
  \A x \in db.live, f \in FieldIds : db.vals[x][f] # NoValue =>
    Fits([fields |-> fields, choices |-> choices], f, db.vals[x][f])

\* A batch that is answered without an error for a row has stored all of that
\* row, in one contact that its key value alone names, on the list it asked for.
Commits(c) == At(c, "rows") /\ pc'[c] = "ok"
RowStored(c, row) ==
  LET kv == KeyValue(row, req[c].key)
  IN  \E x \in tx.touched :
        /\ FindContactIDs(db', req[c].key, kv) = {x}
        /\ \A f \in DOMAIN row.vals : db'.vals[x][f] = row.vals[f]
        /\ req[c].list # NoList => <<req[c].list, x>> \in db'.members
CleanRowsAreStored ==
  [][\A c \in Callers :
       Commits(c) /\ req[c].op = "batch" /\ req[c].key # ById =>
         \A i \in DOMAIN req[c].rows :
           tx.errors[KeyValue(req[c].rows[i], req[c].key)] = "none" => RowStored(c, req[c].rows[i])]_vars

\* A transaction changes no contact but those it touched, and deletes none:
\* what other requests wrote while it was queued or open is not lost.
OnlyTouchedContactsChange ==
  [][\A c \in Callers : Commits(c) =>
       /\ db.live \subseteq db'.live
       /\ \A x \in ContactIds \ tx.touched : db'.vals[x] = db.vals[x]
       /\ \A m \in db'.members \ db.members : m[2] \in tx.touched
       /\ db.hist \subseteq db'.hist /\ db.members \subseteq db'.members]_vars

\* Requests keyed by a field never make its values more ambiguous than one
\* contact each.
Holders(t, f, v) == Cardinality({x \in t.live : t.vals[x][f] = v})
KeysStayUnique ==
  [][\A c \in Callers : Commits(c) /\ req[c].key # ById =>
       \A v \in Values : Holders(db', req[c].key, v) <= Holders(db, req[c].key, v)
                         \/ Holders(db', req[c].key, v) = 1]_vars

\* No request waits for the connection, or for itself, for ever.
EveryCallIsAnswered == \A c \in Callers : At(c, "begin") ~> pc[c] \in Resting
=============================================================================
