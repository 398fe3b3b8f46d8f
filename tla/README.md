# Verification of emarsys-mock

TLA+ modules, TLC configurations and TLAPS proofs for the mock server in `src/`:
an HTTP service over SQLite that imitates the Emarsys API closely enough for
integration tests. What it must get right is what a test suite running in
parallel against it does to it: many requests, each of them several database
statements, on one database.

    tlc -workers 2 -config MCContactApi_contacts.cfg MCContactApi   # a run
    tlapm ContactApi_proofs.tla                                    # a proof

PROJECT.json lists the runs, the line each definition models, the deviation that
breaks each property, the hazards and the findings.

## The system

One process; every HTTP request runs on a goroutine of its own. State lives in
SQLite except for the rate limiter's map and the webhook's wait group. A file
database has **one write connection** and at least four read connections
(`store/db.go:35-85`); an in-memory database has one connection for both, so its
interleavings are a subset of the file database's. Every statement is atomic, a
transaction (`WithTx`) holds the write connection, and everything a handler reads
outside a transaction may be stale when it writes.

| Component | State | Operations | Interacts with | What makes it correct |
|---|---|---|---|---|
| contacts (`store/contact.go`, `history.go`, `handler_contact*.go`) | contacts, values, change log | batch create / update / upsert, delete, inline edit, seed, look-ups, last_change | catalogue (validation), lists, write connection | a batch is all-or-nothing, nothing dangles, the log explains the data, no write is lost |
| field catalogue (`store/field.go`, `handler_field.go`) | fields, choices | create (`MAX(id)+1`), delete, upsert, add choice | cascades to values | values fit the field's type, a field's history is its own |
| contact reads (`handler_contact_read.go`, `buildExportCSV`, dashboard) | none: what a request has read so far | getdata, checkids, last_change, query, search, contact page, files | contacts, lists, catalogue | an answer was true while it was asked; nobody who qualifies is missed |
| contact lists, segments (`list.go`, `segment.go`) | lists, members | create, rename, delete, add, remove, replace, paged reads | contacts | members exist and were asked for; a failing change changes nothing |
| events (`event.go`, `handler_event.go`) | events, triggers | trigger with `trigger_id`, create, rename, delete | contacts, webhook | a repeated trigger is stored and announced once |
| webhook (`webhook/webhook.go`) | running deliveries | Send, Wait | events, process exit | an accepted trigger is delivered before an orderly exit |
| exports (`export.go`, `handler_export.go`) | jobs | create, poll, force a status, fetch | contacts (CSV) | a job goes from scheduled to done and stays there |
| fault rules (`store/fault.go`, `server/fault.go`) | rules with hits | create, delete, match and spend | every API request | a rule fires as often as it was created for |
| request log (`requestlog.go`, `httpx/log.go`) | log rows | append and trim, follow, show | every request | bounded, keeps the newest, an answered request is in it |
| rate limiter (`httpx/ratelimit.go`) | windows | Allow | every API request | at most the limit per window and caller; Retry-After can be obeyed |
| authentication (`auth`, `apiuser.go`) | nonces | verify, remember | every API request | a nonce is accepted once |
| control plane, dashboard (`ctl.go`, `dashboard*.go`) | none of their own | reset, seed, force, edit | all of the above through the store | |
| migrations (`migrate.go`) | the schema | Migrate, Reset | everything | a reset ends in the seeded state |
| recorder (`record`, `cmd/emarsys-record`) | recorded exchanges | proxy, redact | a real upstream | the same secret is replaced the same way |

What is hard here: decisions on what was read before (`LoadFieldCatalog`, the
list check, a poll's row, the look-up of a `trigger_id`, the enabled rules)
taken in another statement; transactions that fail on a late row or whose client
leaves; retries after a timeout or a restart; the exit of the process; ids that
are used again; a reset that drops and re-creates every table under running
requests.

## Modules

| Module | Models | State and actions |
|---|---|---|
| `ContactTables` | what the statements of `contact.go` and the cascades do to the contact tables | no state: operators from tables to tables (`ApplyContactValues`, `CreateContact`, `DeleteContacts`, ...), and what makes tables sound (`RowsAreAnchored`, `TrailExplains`) |
| `ContactApi` | the handlers of contacts and fields, concurrently | `db` the committed tables, `work` the open transaction's view, `conn` its owner, `tx` the locals of `runContactBatch`; per request `pc`, `req` and the catalogue `cat` it loaded. One action per statement outside a transaction and per row inside one; a transaction of fixed shape (delete, inline edit) is one step, since it excludes other writers and readers only see what is committed |
| `ContactReads` | the requests that only read contacts | `past` every committed database so far, built with `ContactTables`; one request with what its statements `found`, its `rows`, what it has `shown` and how much of the `file` a client has fetched: a row is on the line that is its rank. One action per statement |
| `ListMembership` | contact lists and segments | contacts with a key, groups with their counters, memberships `on`; per request what is `left` to resolve, what it `found`, its page. `named`, `owed`, `touched` are histories |
| `MigrateReset` | `Migrate` and `Reset`, statement by statement | `present` tables, `applied` migrations, the write connection `conn`, per migrator the migrations it takes as `known`; crashes and starts |
| `ExportProtocol` | what a client counts on: poll, force and fetch as single steps | `jobs`, `answer` |
| `ExportJob` | the same in two statements each (`read`, then `write`) | adds what a poll has `seen`, file names and `ready_at`; implements `ExportProtocol` as long as no job is shared |
| `EventTrigger` | triggering, the webhook, the life of the process | `triggers`, `sent`, `flights` (delivery goroutines), `phase` (up, draining, waiting, exited) |
| `FaultRules` | `faultMiddleware` and the rules | `rules`, the rule each request is `firing`, and the `hits` each rule ever answered (history) |
| `RateLimiter` | `Allow`, its windows and sweep, Retry-After | `now`, `windows` |
| `RequestLog` | append, trim, and reading by cursor and limit | `log`, `nextLog` |
| `ApiPipeline` | composes the two: a request through `server.Handler` (log, body limit, limiter, faults, authentication, handler, log, trim) | `nonces` and per request its step; `admitted`, `told`, `bearers`, `followed` are histories |
| `MC*` | the instances TLC checks | |
| `*_proofs` | proofs about the module of that name (`ContactApi` in two modules) | |

A disconnect (`Abandon`) cancels the request's context: the statement the request
is at reports an error and `database/sql` rolls an open transaction back. Operators marked
`deviation` are ways to get the code wrong; each is used to show that a property
would notice (`mutants` in PROJECT.json).

### Abstractions

- Values, names, keys and trigger ids are small sets. Display names, `source`,
  `is_indexed` (and with it the check of a query that its field is indexed) and
  all formatting are left out. The `uid` key is folded into the `id` key: both
  address a contact by something only the store assigns.
- A stamp stands for the log rows one `ApplyContactValues` writes; they are about
  different fields. In `ContactReads` it is also their time, and the time of a
  contact's creation is its id, which grows with it.
- `contact_field_history` has no foreign key on fields, `contact_values` has: so
  deleting a field keeps its log, and re-using its id (`CreateField`) finds it.
- `ContactReads` has one request: readers hold nothing that another would need, so
  what one is told does not depend on the others. Values have no line breaks. A
  file's row is blank (`IsBlank`) if it is one cell without a text, which only a list
  export of one field without a timestamp has; it is written as an empty line, and
  a client reads no row from that. The client fetches pages of two lines or more
  (`PageAssumption`): with one line it could not tell an empty line from the end.
  Fetching a file whole, without offset and limit, returns it as it is.
- Finding the contact of a trigger's entry is a choice between one match
  (`CheckTrigger`) and an error entry (`ReportEntry`).
- The webhook is configured, and a delivery ends with or without success: the
  code tries once.
- In `MigrateReset` three tables stand for all (seeded, emptied, altered by a
  migration); in `ListMembership`, `FaultRules` and `ApiPipeline` a Reset is one
  step that empties tables and counters. Its effect on a request between two
  drops is an error, which each of them has for other reasons too.
- In `ApiPipeline` whether a fault fires, a user exists, or a handler succeeds is
  a choice. A request is too big by its Content-Length (`FirstStep`); a row of the
  log is its id.
- A statement whose client leaves either happened or failed. Where the code goes on
  differently both are modelled: an insert may be committed and yet be reported
  as cancelled (`Abandon` of `EventTrigger`, `RememberNonce` of `ApiPipeline`).

## Runs

| Run | Shows | Bounds |
|---|---|---|
| `contacts` | types; the connection's owner; nothing dangles; the log explains the data; an acknowledged row is stored; a commit changes only what it touched; key values do not multiply; a queued request is answered, the connection comes back | 2 callers, 3 requests of 11 kinds (batches of up to 3 rows, seeds, deletes, edits, fields, lists), 4 field ids, 2 values |
| `reads` | what a reader of several statements is told was so while it asked; errors too; a contact page is explained by its log; nobody who qualifies throughout is missed, also across pages of a file, where only blank rows get lost | 19 requests, 3 commits between any statements, 3 contacts, 2 fields, pages of 2 lines |
| `lists` | members exist and were named; a failing change changes nothing; pages show everybody who stays | 2 clients, 3 requests of 12 kinds, 2 contacts, 1 list, 1 segment, resets |
| `resets` | the ledger tells what is there and the schema ends complete, unless a reset was cut among its drops (or, for the latter, three were at work at once); the process starts again; nothing from before survives a reset; every reset is answered | 3 resetters, 4 resets, 1 crash, 1 contact |
| `exports` | a settled job stays settled, complete and dated; polls that overwrite each other delay a job, but not for ever; without sharing the code implements the atomic protocol | 2 clients, 2 jobs of their own or 1 shared, any number of polls |
| `triggers` | a trigger_id is announced once; what is announced or acknowledged is on record; an orderly exit drops nothing but rows whose INSERT was committed and reported as cancelled (`silent`); every other trigger of a process that is not cut short is announced | 2 clients, 3 requests, 2 events, crashes, overruns and restarts |
| `overspend` | a limited rule retires with its last hit and answers at most one request more per further client; a late hit is charged to the rule that answered, until a reset | 3 clients, 5 requests, 2 rules, resets |
| `pipeline` | twice the limit per span of a window; Retry-After fails at most once; the log keeps the newest rows, every answered request and all that a follower needs; a nonce is spent once | 2 clients, 2 keys, 4 requests of 4 kinds, a window of 3 ticks, a second of 2, a trim on every 2nd row, 5 instants |

Two callers are enough for every stale read above: a reader and a writer. The
third client of the faults lets two stale hits follow the last one; two clients
that export may poll without bound. Requests beyond that only repeat a pair; a
batch of three rows holds a first, a duplicate and a late failing one. In
`pipeline` a limit of one and a window that is no multiple of a second reach both
edges of a window and the rounding of Retry-After, a log of one row with a trim on
every second reaches a trim that is late. In `reads` a request has two to four
statements and three commits to fall between them. In `resets` three resets
drop what each other is migrating, and a fourth follows: fewer cannot leave a
migration out. Ids are bounded
by `MaxContact`, `MaxField`, `MaxTriggers`, `MaxRules`, `MaxJobs`, `MaxContacts`,
`MaxGroups` and `MaxRows`, requests by `MaxCalls`, `MaxResets` and `MaxCommits`,
time by `MaxTime`. Deadlock is checked except where such bounds simply run out;
the cfg of each such run has CHECK_DEADLOCK FALSE.

### Disagreements found

Each run below checks one claim of the repository and ends in a counterexample.

| Run | Claim | What happens |
|---|---|---|
| `stale_catalog` | `contactvalue.go:75`: every value is checked against its field's type | the catalogue is loaded before the transaction; the field is deleted and its id re-used with another type in between |
| `lost_polls` | `export.go:68`: then the next poll reports "done" | a poll that read the job earlier sets it back to "in progress" |
| `repeated` | `event.go:103`: a repeated trigger_id is not an error | a concurrent repetition fails on the unique index and ends its batch |
| `newest_shown` | `dashboard_handlers.go:81`: newest first, "the thing that just happened is what you came to look at" | the view reads the *oldest* 200 rows and reverses those |

Noticed while modelling, without a run of their own:

- `history.go:22` promises `ErrNoChange` for a field that was never written, but
  `CreateField` gives a new field the id of a deleted newest one, whose log stays.
- `contact.go:295` says a numeric query is tried as a value second; a number that
  is no id finds nothing.
- `README.md:207`: a rule with one hit retires "after the next request", but
  requests that read it together all fire (`overspend` states the true bound).
- A process killed between two drops of a Reset does not start again
  (`StartsAgain` names it): the ledger is gone, the other tables are not.
- Three Resets at the same time can leave a migration out although one is answered
  ok (`migrate.go:76`: "returning the database to its seeded state"): each reads the
  ledger once, so one that read it before another dropped it skips what is gone
  again. The next reset alone or the next start makes it good; `ResetsConverge`
  and `ResetRestores` name the exception (`crowded`).
- `docs/api-reference.md:173`: "`WEBHOOK_URL` gets a POST on every accepted trigger".
  `RecordTrigger`'s INSERT (`event.go:126`) is a statement of its own under the
  request's context: if the client leaves it may be committed while the code is
  told that it was cancelled. The handler then returns without `Send`
  (`handler_event.go:225-228`), the retry finds the row and is acknowledged as a
  repetition, and the trigger is never posted, though no process was cut short.
  `OrderlyExitDropsNothing` and `EveryTriggerIsAnnounced` name the exception (`silent`).
- `handler_export.go:310`: "applies offset and limit to data rows, keeping any header
  row". `sliceCSV` counts the header as a line: the first page has a row less than
  its limit, later pages have no header. Page by page nothing is lost by that (`reads`).
- `handler_export.go:318` trims all newlines at the end once an offset or limit is
  given: in a list export of one field without a timestamp, the last rows of contacts
  that have no value for it disappear. `NobodyIsMissed` names the exception (`IsBlank`).
- A handler that panics is missing from the log, as `Recover` is outside `Logging`.

### Fairness

`net/http` runs every handler on its own goroutine and the scheduler is fair, so
each handler's next statement is taken weakly fairly. `exports` assumes that
somebody polls each job again and again (strongly fair, as a client is busy in
between), which is the loop an export is mocked for, and claims that a job
finishes only if from some time on it is not forced and clients wait for their
answers. `triggers` assumes nothing but that handlers proceed; its liveness is
claimed only of processes that are not cut short. In `resets` weak fairness is enough although resets compete
for one connection: of the finitely many of a behaviour each gives it back.
Nothing is assumed of clients' calls otherwise.

With kills, a trigger that was recorded and not yet sent is never announced: the
code keeps no outbox. With handlers that outlast `Shutdown`, `Wait` may return
before they send. Both happen in `triggers`, whose safety properties hold anyway. Without
either, only the row of an INSERT that was committed and reported as cancelled is
never announced; the properties name it.

## Proofs

Proved for all constants that satisfy the ASSUMEs (bounds are naturals, sentinels
differ from what they stand beside, every request has the shape of its kind; the
set of clients is finite where clients are counted; the tables `ContactReads` starts
with are sound, which is what `ContactApi_proofs` shows of all that are committed):

| Module | Theorem | States |
|---|---|---|
| `ContactApi_proofs` | `TypeCorrect`, `ConnectionOwnership` | `TypeOK`, including that a request is only at steps of its kind; `ConnectionOwner` |
| | `Integrity`, `LogExplainsData`, `NoLostWrites` | `ReferentialIntegrity`, `AuditTrail`, `OnlyTouchedContactsChange` |
| | `AnsweredRowsAreStored`, `KeysAreNotMultiplied` | `CleanRowsAreStored`, `KeysStayUnique` |
| `ContactReads_proofs` | `ReadsTypeCorrect`, `ReadersAreToldTheTruth`, `ReadersMissNobody` | all properties of `reads` |
| `ListMembership_proofs` | `TypeCorrect`, `MembersAlwaysExist`, `NobodyElseIsAdded`, `FailedChangesAreUndone`, `PagesShowEverybody` | all properties of `lists` |
| `MigrateReset_proofs` | `TypeCorrect`, `ResetsAlwaysConverge`, `StartsAlwaysAgain`, `ResetsRestore` | all properties of `resets` but liveness |
| `ExportJob_proofs` | `TypeCorrect`, `SettledIsFinal`, `RefinesProtocol` | `TypeOK`, `SettledStaysSettled`, and the refinement `ImplementsProtocol` |
| `EventTrigger_proofs` | `TypeCorrect`, `RetriesAreAnnouncedOnce`, `TellsWhatIsOnRecord`, `ExitDropsNothing` | all properties but liveness |
| `FaultRules_proofs` | `TypeCorrect`, `BudgetsAreKept`, `HitsAreAlwaysAccounted` | all properties |
| `ApiPipeline_proofs` | `TypeCorrect`, `RateBound`, `RetriesAreAdmitted`, `NoncesAreSpentByOne`, `LogIsBounded`, `AnswersAreLogged`, `FollowersMissNothing` | all properties of `pipeline` |

**Contacts.** `IInv == TypeOK /\ ConnectionOwner /\ Room` is inductive. Types alone
are not: that a new contact's id is below the bound needs `Room` (the transaction
started with room for all its rows and has used at most one id per row), and that
`tx` belongs to a request with rows needs the owner. `Sound` adds the integrity of
the database *and* of the open transaction, because a commit turns the latter into
the former, and `WorkExtendsDatabase`: nothing else writes while a transaction is
open, so its view is the database plus what it touched. Writers are only enabled
without a transaction (`Writing`, `Begin`), which is where `conn` enters.
`TrailExplains` needs that stamps are unique per contact and field, or two changes
could both be the last. `ContactApi_proofs` begins with one lemma per operator of
`ContactTables` and property (`...IsTables`, `Anchored...`, `Trail...`), which its
steps cite. What a transaction has stored is a third invariant, `RowsAreKept` and
`KeysStaySingle`, which relates `tx` to `work` row by row: a row of a batch whose
key value has no error is in one contact that `work` finds by that value, and a
look-up in `work` finds what it finds in the database, or one contact. A later row
does not disturb an earlier one because it has another key value (`seen`), so its
contact is another one, or none yet (`FindAfterApply`, `FindAfterCreate`). A commit
makes `work` the database (`CommitPublishes`), and so the two action properties.

**Reads.** Every commit leaves a database that is `Sane` (values, changes and members
have a contact, a value was logged) and `Follows` all before it (no id is used again,
a contact that stays keeps its log), so any two moments of a request are comparable.
`Told` says what each statement may rely on: a contact it found qualified at some
moment, and one that it has no row of was gone at a later one, which is why blank
values are the values of that moment. What was true once stays so (`TruthLasts`);
what is true throughout was true before (`ThroughoutBefore`), so `Missed` can say
that nobody is lost between two statements. A look-up finds exactly who qualifies
(`SelectedIs`). A page: the value shown has an entry in an earlier log, `Follows`
brings it to the one that is read, and if it is cut off there it has as many later
entries as the limit (`CutLogIsFull`). A file: `FileLength` is the least
number beyond the lines of all rows that are not blank, which exists because a row's
number is at most that of the rows (`LineNumbers`), so trimming takes blank rows only
(`Lengths`); a page that is not full reaches the length (`FetchMisses`).

**Lists.** `Integrity` holds what a request knows (`Progress`) and why an id it has
resolved may still be inserted (`Named`): the pair was asked for, or its contact
or its group is gone *for good*, which is what the AUTOINCREMENT counters give and
`Persist` carries over every step. For the pages, a member's rank is the number of members
before it: as long as nobody leaves ranks only grow (`RanksGrow`), those a client is
owed and has not been shown have a rank beyond its offset (`Covering`), and a page
that is not full ends the list (`ShortPageIsTheLast`), or else the members with a
rank at or beyond its offset have a least one, which would have been on it. Least
and greatest numbers come from well-founded minima, since induction is out of reach.

**Migrations.** `SchemaInv`: while no reset is between its drops, the ledger tells
what is there; after a cut, which is when the last reset to drop has left some of the
tables, there are tables that the ledger does not name. `MainAlone`: no request is
served before main has migrated, so main knows what the ledger says. `Calm`, for as
long as at most two have been at work: what one of them knows is what the ledger says
or a beginning of it, and a schema that is not complete has somebody whose step is a
promise to complete it (`Promising`). With three that fails, as TLC showed first, and
`crowded` names it. `Removed`: contacts a reset is to remove are gone once it
migrates, and their ids are below the counter, so no later contact is one of them.

**Exports.** `HasRow` (a request at a row has one) makes types inductive. The
refinement needs `Exclusive`: unless jobs are shared, no two clients own one, and
what a poll has seen is still what the row says. Then the second statement of each
operation is the protocol's step and the first one a stutter.

**Triggers.** `Record` says that of the rows and of what is announced (`Told`,
sent or about to be) no two have one key of an event, that a request's past
entries are on record, and that in an orderly process everything on record is told
or `silent`. A new row is one or the other (`NewRow`): `InsertTells` and
`AbandonTells` show it of the two steps that insert.

**Faults.** `Accounts`: numbers name one rule for good (`NamesAreUnique`), hits are
paid for at once or are those of requests that have read the rule and not yet
spent (`Pending`); a rule reaches its last hit with at most one pending hit per
further client.

**Pipeline.** `Metered` relates the admissions of the latest span of a window to the
caller's window: each admission belongs to a window and is one of its first
`Limit`, and only two windows can reach into a span, because a later one starts
after the earlier one is over. `Retries` bounds when a client was told to come
back (`RoundedDown`: less than a second before the reset, so that a second refusal
already says "in one second", which is after it). `Logged` says which rows may be
missing: those at least `LogMax` below the counter or below an id whose trim is
under way.

Only model-checked: `ValuesFit` (it is false, see `stale_catalog`) and all liveness,
which the prover does not reach (nor ENABLED, nor induction over recursive
definitions; files are therefore modelled by the number of each row's line, not as
sequences). `CleanRowsAreStored` is not claimed for
batches addressed by id: a later row of the same batch may overwrite a contact that
an earlier one created.

## Not modelled

- Envelopes, lenient JSON and configuration: stateless, or read once.
- Routing; digest and signature arithmetic; issuing tokens; the glob matcher of
  fault rules; truncation of logged bodies: functions of strings.
- Dashboard pages other than search, contact page and request view; reads of
  lists of fields, events, rules and jobs in one statement.
- `SetFieldIndexed`, renaming and creating events: they change what no modelled
  behaviour reads. `UpdateSegment` and `SetFaultRuleEnabled` have no callers.
- The recorder, a separate program whose redactor rewrites text by patterns.
- That a seed document is applied part by part: each part is an operation of a
  module, and nothing is promised of their sequence.

What is modelled in part is in PROJECT.json with the reason.

## Plan

What could be added next: `matchPattern` and the redactor's table of replacements
against reference definitions; an index on fields, for the query that is refused
without one.
