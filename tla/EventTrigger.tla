----------------------------- MODULE EventTrigger -----------------------------
(***************************************************************************)
(* Triggers of external events (handleEventTrigger, store.RecordTrigger),  *)
(* their announcement on the webhook, and shutting the process down.       *)
(*                                                                         *)
(* trigger_id is an idempotency key: a client that gets no answer sends    *)
(* the request again.  RecordTrigger looks a trigger_id up in one          *)
(* statement and inserts in another, backed by a unique index.             *)
(***************************************************************************)
EXTENDS Naturals, Sequences, FiniteSets

CONSTANTS
  Clients,      \* concurrent HTTP requests
  Events,       \* events of the database, which may be deleted
  TriggerIds,   \* values of trigger_id
  NoTriggerId,  \* the entry has none
  Requests,     \* trigger requests: the event, and a trigger_id for each contact
  MaxTriggers,  \* bound on the rows a behaviour inserts
  MaxCalls,     \* bound on its requests
  Crashes,      \* whether the process may be killed
  Overruns      \* whether handlers may outlast the 10 seconds of Shutdown

Keys == TriggerIds \cup {NoTriggerId}
ASSUME TriggerAssumption ==
  /\ NoTriggerId \notin TriggerIds
  /\ MaxTriggers \in Nat /\ MaxCalls \in Nat
  /\ Crashes \in BOOLEAN /\ Overruns \in BOOLEAN
  /\ \A r \in Requests : r.event \in Events /\ r.keys \in Seq(Keys)

VARIABLES
  events,    \* ids in table events
  triggers,  \* table event_triggers
  next,      \* its AUTOINCREMENT counter
  sent,      \* the triggers given to webhook.Send
  flights,   \* those whose delivery goroutine is running
  phase,     \* the life of the process
  pc, req, at,  \* of each request: its next step, what it asks, its current entry
  new,       \* the trigger it has inserted and not yet announced
  failures,  \* the entries it reports in data.errors
  calls,
  orderly,   \* history: no process was killed, and no handler outlasted Shutdown
  silent     \* history: the rows whose INSERT was committed and reported as cancelled

requestVars == <<pc, req, at, new, failures>>
vars == <<events, triggers, next, sent, flights, phase, requestVars, calls, orderly, silent>>

Trigger == [id: 1..MaxTriggers, event: Events, key: Keys]
Resting == {"idle", "ok", "failed", "gone"}
Steps == {"event", "check", "insert", "send"}
NoRequest == [event |-> 0, keys |-> <<>>]
NoTrigger == [id |-> 0, event |-> 0, key |-> NoTriggerId]

Init ==
  /\ events = Events /\ triggers = {} /\ next = 1
  /\ sent = {} /\ flights = {} /\ phase = "up"
  /\ pc = [c \in Clients |-> "idle"]
  /\ req = [c \in Clients |-> NoRequest]
  /\ at = [c \in Clients |-> 1]
  /\ new = [c \in Clients |-> NoTrigger]
  /\ failures = [c \in Clients |-> {}]
  /\ calls = 0 /\ orderly = TRUE /\ silent = {}

-----------------------------------------------------------------------------
Running == phase # "exited"
At(c, step) == Running /\ pc[c] = step
GoTo(c, step) == pc' = [pc EXCEPT ![c] = step]
Key(c) == req[c].keys[at[c]]
\* deviation: trigger_id taken for unique among all events
KeyTakenAnywhere(e, k) == k # NoTriggerId /\ \E t \in triggers : t.key = k
KeyTaken(e, k) == k # NoTriggerId /\ \E t \in triggers : t.event = e /\ t.key = k

\* The listener is closed while the server shuts down.
Call(c, r) ==
  /\ phase = "up" /\ pc[c] \in Resting /\ calls < MaxCalls
  /\ calls' = calls + 1
  /\ req' = [req EXCEPT ![c] = r]
  /\ at' = [at EXCEPT ![c] = 1]
  /\ failures' = [failures EXCEPT ![c] = {}]
  /\ GoTo(c, "event")
  /\ UNCHANGED <<events, triggers, next, sent, flights, phase, new, orderly, silent>>

LookUpEvent(c) ==
  /\ At(c, "event")
  /\ GoTo(c, IF req[c].event \in events /\ req[c].keys # <<>> THEN "check" ELSE "failed")
  /\ UNCHANGED <<events, triggers, next, sent, flights, phase, req, at, new, failures, calls, orderly, silent>>

\* deviation: the last entry is passed by one
ProceedPast(c) ==
  IF at[c] <= Len(req[c].keys)
  THEN GoTo(c, "check") /\ at' = [at EXCEPT ![c] = at[c] + 1]
  ELSE GoTo(c, "ok") /\ at' = at
\* On to the next entry of contacts[], or to the answer.
Proceed(c) ==
  IF at[c] < Len(req[c].keys)
  THEN GoTo(c, "check") /\ at' = [at EXCEPT ![c] = at[c] + 1]
  ELSE GoTo(c, "ok") /\ at' = at

\* FindContactIDs has not found exactly one contact.
ReportEntry(c) ==
  /\ At(c, "check") /\ Proceed(c)
  /\ failures' = [failures EXCEPT ![c] = failures[c] \cup {at[c]}]
  /\ UNCHANGED <<events, triggers, next, sent, flights, phase, req, new, calls, orderly, silent>>

\* RecordTrigger, first statement: a repeated trigger_id is acknowledged.
CheckTrigger(c) ==
  /\ At(c, "check")
  /\ \/ KeyTaken(req[c].event, Key(c)) /\ Proceed(c)
     \/ ~KeyTaken(req[c].event, Key(c)) /\ GoTo(c, "insert") /\ UNCHANGED at
  /\ UNCHANGED <<events, triggers, next, sent, flights, phase, req, new, failures, calls, orderly, silent>>

\* deviation: no unique index on (event_id, trigger_id)
AnyInsertable(e, k) == e \in events
\* The foreign key on events and the unique index.
Insertable(e, k) == e \in events /\ ~KeyTaken(e, k)

\* The row c inserts, if the constraints let it.
Row(c) == [id |-> next, event |-> req[c].event, key |-> Key(c)]
Store(c) ==
  /\ Insertable(req[c].event, Key(c)) /\ next <= MaxTriggers
  /\ triggers' = triggers \cup {Row(c)} /\ next' = next + 1

RecordFailed(c) == GoTo(c, "failed") /\ UNCHANGED <<triggers, next, new>>

\* Second statement.  An error ends the request: later entries are not tried.
InsertTrigger(c) ==
  /\ At(c, "insert")
  /\ \/ Store(c) /\ new' = [new EXCEPT ![c] = Row(c)] /\ GoTo(c, "send")
     \/ ~Insertable(req[c].event, Key(c)) /\ RecordFailed(c)
  /\ UNCHANGED <<events, sent, flights, phase, req, at, failures, calls, orderly, silent>>

\* The client goes away: the statement its request is at reports the context's
\* error, and the handler returns.  The INSERT is no transaction's: it may have
\* been committed all the same, and then nothing announces its row.
Abandon(c) ==
  /\ pc[c] \in Steps \ {"send"} /\ Running
  /\ GoTo(c, "gone")
  /\ \/ UNCHANGED <<triggers, next, silent>>
     \/ At(c, "insert") /\ Store(c) /\ silent' = silent \cup {Row(c)}
  /\ UNCHANGED <<events, sent, flights, phase, req, at, new, failures, calls, orderly>>

\* deviation: only the first new trigger of a request is announced
AnnouncesFirst(c) == at[c] = 1
Announces(c) == TRUE

\* webhook.Send counts the delivery and leaves it to a goroutine.
Send(c) ==
  /\ At(c, "send") /\ Proceed(c)
  /\ \/ Announces(c) /\ sent' = sent \cup {new[c]} /\ flights' = flights \cup {new[c]}
     \/ ~Announces(c) /\ UNCHANGED <<sent, flights>>
  /\ new' = [new EXCEPT ![c] = NoTrigger]
  /\ UNCHANGED <<events, triggers, next, phase, req, failures, calls, orderly, silent>>

\* The target answers, refuses or times out: a delivery is tried once.
Deliver(t) ==
  /\ Running /\ t \in flights
  /\ flights' = flights \ {t}
  /\ UNCHANGED <<events, triggers, next, sent, phase, requestVars, calls, orderly, silent>>

\* event_triggers.event_id cascades.
DeleteEvent(e) ==
  /\ Running /\ e \in events
  /\ events' = events \ {e}
  /\ triggers' = {t \in triggers : t.event # e}
  /\ silent' = silent \cap triggers'
  /\ UNCHANGED <<next, sent, flights, phase, requestVars, calls, orderly>>

-----------------------------------------------------------------------------
(* The life of the process *)

Answered == \A c \in Clients : pc[c] \in Resting

Terminate ==
  /\ phase = "up" /\ phase' = "draining"
  /\ UNCHANGED <<events, triggers, next, sent, flights, requestVars, calls, orderly, silent>>

\* srv.Shutdown waits for the handlers, for ten seconds at most.
ShutDown ==
  /\ phase = "draining" /\ (Answered \/ Overruns)
  /\ phase' = "waiting"
  /\ orderly' = (orderly /\ Answered)
  /\ UNCHANGED <<events, triggers, next, sent, flights, requestVars, calls, silent>>

NoWait == TRUE  \* deviation: exits without waiting for the deliveries
Waited == flights = {}

\* What was under way when a process ends is not carried on.
Cut ==
  /\ phase' = "exited" /\ flights' = {}
  /\ pc' = [c \in Clients |-> IF pc[c] \in Steps THEN "gone" ELSE pc[c]]
  /\ UNCHANGED <<events, triggers, next, sent, req, at, new, failures, calls, silent>>

\* webhook.Wait, then main returns.
Exit == phase = "waiting" /\ Waited /\ Cut /\ orderly' = orderly

Kill == Crashes /\ Running /\ Cut /\ orderly' = FALSE

\* A new process on the same database file.
Restart ==
  /\ phase = "exited" /\ calls < MaxCalls
  /\ phase' = "up"
  /\ UNCHANGED <<events, triggers, next, sent, flights, requestVars, calls, orderly, silent>>

-----------------------------------------------------------------------------
Serve(c) == LookUpEvent(c) \/ ReportEntry(c) \/ CheckTrigger(c) \/ InsertTrigger(c) \/ Send(c)

\* The last process of a behaviour has ended.
Finished == phase = "exited" /\ calls = MaxCalls /\ UNCHANGED vars

Next ==
  \/ \E c \in Clients : Serve(c) \/ Abandon(c) \/ \E r \in Requests : Call(c, r)
  \/ \E t \in flights : Deliver(t)
  \/ \E e \in Events : DeleteEvent(e)
  \/ Terminate \/ ShutDown \/ Exit \/ Kill \/ Restart
  \/ Finished

Spec == Init /\ [][Next]_vars

\* Every handler runs on a goroutine of its own.
FairSpec == Spec /\ \A c \in Clients : WF_vars(Serve(c))

-----------------------------------------------------------------------------
(* What must hold *)

TypeOK ==
  /\ events \subseteq Events
  /\ triggers \subseteq Trigger /\ sent \subseteq Trigger /\ flights \subseteq sent
  /\ next \in 1..(MaxTriggers + 1)
  /\ phase \in {"up", "draining", "waiting", "exited"}
  /\ pc \in [Clients -> Resting \cup Steps]
  /\ req \in [Clients -> Requests \cup {NoRequest}]
  /\ new \in [Clients -> Trigger \cup {NoTrigger}]
  /\ \A c \in Clients : pc[c] = "send" => new[c] \in Trigger
  /\ at \in [Clients -> Nat \ {0}]
  /\ \A c \in Clients : IF pc[c] = "event" THEN at[c] = 1 ELSE pc[c] \in Steps => at[c] <= Len(req[c].keys)
  /\ failures \in [Clients -> SUBSET Nat] /\ \A c \in Clients : failures[c] \subseteq DOMAIN req[c].keys
  /\ calls \in 0..MaxCalls /\ orderly \in BOOLEAN /\ silent \subseteq Trigger

\* "A client that retries after a timeout must not produce a second send"
\* (event.go:103), whatever crashes, restarts and concurrent retries do.
AnnouncedOnce ==
  \A s, t \in sent : s.event = t.event /\ s.key = t.key /\ s.key # NoTriggerId => s = t

\* Nothing is announced that is not on record, as long as its event exists.
AnnouncedIsStored == \A t \in sent : t.event \in events => t \in triggers

\* A request answered without an error for an entry has its trigger on record:
\* its own, or that of an earlier attempt.
AnsweredIsStored ==
  \A c \in Clients : pc[c] = "ok" /\ req[c].event \in events =>
    \A i \in DOMAIN req[c].keys \ failures[c] :
      \E t \in triggers : t.event = req[c].event /\ t.key = req[c].keys[i]

\* What clients and the webhook were told of is on record.
ToldIsOnRecord == AnnouncedIsStored /\ AnsweredIsStored

\* "A trigger accepted just before SIGTERM is not dropped" (webhook.go:88): when
\* no process was cut short, everything on record was announced and every
\* delivery has been tried by the time it exits, except for rows whose INSERT
\* was reported as cancelled.
OrderlyExitDropsNothing ==
  [][Exit /\ orderly => triggers \subseteq sent \cup silent /\ flights = {}]_vars

\* Every trigger on record is announced sooner or later, also when its client
\* goes away after the INSERT, unless a process is cut short or the INSERT was
\* reported as cancelled.
EveryTriggerIsAnnounced ==
  \A e \in Events, k \in TriggerIds :
    LET Among(S) == \E t \in S : t.event = e /\ t.key = k
    IN  Among(triggers) ~> Among(sent) \/ Among(silent) \/ ~orderly

\* "A repeated trigger_id is not an error" (event.go:103).
RepeatedIsNoError ==
  [][\A c \in Clients : At(c, "insert") /\ KeyTaken(req[c].event, Key(c)) => pc'[c] # "failed"]_vars
=============================================================================
