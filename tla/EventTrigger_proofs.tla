-------------------------- MODULE EventTrigger_proofs --------------------------
(***************************************************************************)
(* What EventTrigger guarantees for every set of clients, events and       *)
(* trigger ids, every request and every bound.                             *)
(***************************************************************************)
EXTENDS EventTrigger, TLAPS

-----------------------------------------------------------------------------
(* Typing *)

LEMMA TypeInit == Init => TypeOK
<1>1. 1 \in 1..(MaxTriggers + 1) /\ 0 \in 0..MaxCalls
  BY TriggerAssumption
<1>2. NoRequest.keys = <<>> /\ DOMAIN NoRequest.keys = {}
  BY DEF NoRequest
<1> QED
  BY <1>1, <1>2 DEF Init, TypeOK, Resting, Steps

LEMMA RequestsHaveKeys ==
  ASSUME TypeOK, NEW c \in Clients
  PROVE  /\ req[c].keys \in Seq(Keys) /\ DOMAIN req[c].keys = 1..Len(req[c].keys)
         /\ Len(req[c].keys) \in Nat
<1>1. req[c] \in Requests \cup {NoRequest}
  BY DEF TypeOK
<1>2. req[c].keys \in Seq(Keys)
  <2>1. CASE req[c] = NoRequest
    BY <2>1 DEF NoRequest
  <2>2. CASE req[c] \in Requests
    BY <2>2, TriggerAssumption
  <2> QED
    BY <1>1, <2>1, <2>2
<1> QED
  BY <1>2

\* The entry a request is at is one of its own.
LEMMA KeyIsTyped ==
  ASSUME TypeOK, NEW c \in Clients, pc[c] \in Steps \ {"event"}
  PROVE  at[c] \in DOMAIN req[c].keys /\ Key(c) \in Keys /\ req[c].event \in Events
<1>1. at[c] \in 1..Len(req[c].keys)
  BY RequestsHaveKeys DEF TypeOK
<1>2. req[c] # NoRequest
  BY <1>1 DEF NoRequest
<1> QED
  BY <1>1, <1>2, RequestsHaveKeys, TriggerAssumption DEF TypeOK, Key

LEMMA TypeProceed ==
  ASSUME TypeOK, NEW c \in Clients, pc[c] \in {"check", "send"}, Proceed(c)
  PROVE  /\ pc' \in [Clients -> Resting \cup Steps] /\ at' \in [Clients -> Nat \ {0}]
         /\ pc'[c] \in {"check", "ok"} /\ (pc'[c] = "check" => at'[c] <= Len(req[c].keys))
         /\ \A d \in Clients \ {c} : pc'[d] = pc[d] /\ at'[d] = at[d]
<1>1. Len(req[c].keys) \in Nat /\ at[c] \in Nat \ {0}
  BY RequestsHaveKeys DEF TypeOK
<1>2. pc \in [Clients -> Resting \cup Steps] /\ at \in [Clients -> Nat \ {0}]
  BY DEF TypeOK
<1>3. CASE at[c] < Len(req[c].keys)
  <2>1. pc' = [pc EXCEPT ![c] = "check"] /\ at' = [at EXCEPT ![c] = at[c] + 1] /\ "check" \in Steps
    BY <1>3 DEF Proceed, GoTo, Steps
  <2>2. at[c] + 1 \in Nat \ {0} /\ at[c] + 1 <= Len(req[c].keys)
    BY <1>1, <1>3
  <2> QED
    BY <1>2, <2>1, <2>2
<1>4. CASE ~(at[c] < Len(req[c].keys))
  <2>1. pc' = [pc EXCEPT ![c] = "ok"] /\ at' = at /\ "ok" \in Resting
    BY <1>4 DEF Proceed, GoTo, Resting
  <2> QED
    BY <1>2, <2>1
<1> QED
  BY <1>3, <1>4

\* So the row that is inserted for it is one.
LEMMA RowIsTyped ==
  ASSUME TypeOK, NEW c \in Clients, pc[c] = "insert", Store(c)
  PROVE  Row(c) \in Trigger /\ next' \in 1..(MaxTriggers + 1) /\ triggers' \subseteq Trigger
<1>1. next \in 1..MaxTriggers /\ next' = next + 1
  BY TriggerAssumption DEF Store, TypeOK
<1>2. Row(c) \in Trigger
  BY <1>1, KeyIsTyped DEF Row, Trigger, Steps
<1> QED
  BY <1>1, <1>2, TriggerAssumption DEF Store, TypeOK

LEMMA TypeServe ==
  ASSUME TypeOK, NEW c \in Clients, Serve(c)
  PROVE  TypeOK'
<1>1. CASE LookUpEvent(c)
  <2>1. req[c].keys # <<>> => 1 <= Len(req[c].keys)
    BY RequestsHaveKeys
  <2>2. PICK step \in {"check", "failed"} : GoTo(c, step) /\ (step = "check" => 1 <= Len(req[c].keys))
    BY <1>1, <2>1 DEF LookUpEvent
  <2> QED
    BY <1>1, <2>2 DEF LookUpEvent, At, GoTo, TypeOK, Steps, Resting
<1>2. CASE ReportEntry(c)
  <2>1. at[c] \in DOMAIN req[c].keys /\ at[c] \in Nat
    BY <1>2, KeyIsTyped DEF ReportEntry, At, Steps, TypeOK
  <2> QED
    BY <1>2, <2>1, TypeProceed DEF ReportEntry, At, TypeOK, Steps
<1>3. CASE CheckTrigger(c)
  <2>1. CASE Proceed(c)
    BY <1>3, <2>1, TypeProceed DEF CheckTrigger, At, TypeOK, Steps
  <2>2. CASE GoTo(c, "insert") /\ UNCHANGED at
    BY <1>3, <2>2 DEF CheckTrigger, At, GoTo, TypeOK, Steps, Resting
  <2> QED
    BY <1>3, <2>1, <2>2 DEF CheckTrigger
<1>4. CASE InsertTrigger(c)
  <2>1. CASE Store(c) /\ new' = [new EXCEPT ![c] = Row(c)] /\ GoTo(c, "send")
    BY <1>4, <2>1, RowIsTyped DEF InsertTrigger, At, GoTo, TypeOK, Steps, Resting
  <2>2. CASE RecordFailed(c)
    BY <1>4, <2>2 DEF InsertTrigger, RecordFailed, At, GoTo, TypeOK, Steps, Resting
  <2> QED
    BY <1>4, <2>1, <2>2 DEF InsertTrigger
<1>5. CASE Send(c)
  <2>1. new[c] \in Trigger
    BY <1>5 DEF Send, At, TypeOK
  <2>2. sent' \subseteq Trigger /\ flights' \subseteq sent'
    BY <1>5, <2>1 DEF Send, TypeOK
  <2>3. new' \in [Clients -> Trigger \cup {NoTrigger}] /\ \A d \in Clients \ {c} : new'[d] = new[d]
    BY <1>5 DEF Send, TypeOK
  <2> QED
    BY <1>5, <2>2, <2>3, TypeProceed DEF Send, At, TypeOK, Steps
<1> QED
  BY <1>1, <1>2, <1>3, <1>4, <1>5 DEF Serve

LEMMA TypeNext == TypeOK /\ [Next]_vars => TypeOK'
<1> SUFFICES ASSUME TypeOK, [Next]_vars PROVE TypeOK'
  OBVIOUS
<1>1. ASSUME NEW c \in Clients, Abandon(c) PROVE TypeOK'
  <2>1. CASE UNCHANGED <<triggers, next, silent>>
    BY <1>1, <2>1 DEF Abandon, GoTo, TypeOK, Resting, Steps
  <2>2. CASE At(c, "insert") /\ Store(c) /\ silent' = silent \cup {Row(c)}
    BY <1>1, <2>2, RowIsTyped DEF Abandon, At, GoTo, TypeOK, Resting, Steps
  <2> QED
    BY <1>1, <2>1, <2>2 DEF Abandon
<1>2. ASSUME NEW c \in Clients, NEW r \in Requests, Call(c, r) PROVE TypeOK'
  BY <1>2, TriggerAssumption DEF Call, GoTo, TypeOK, Resting, Steps
<1>3. ASSUME NEW t \in flights, Deliver(t) PROVE TypeOK'
  BY <1>3 DEF Deliver, TypeOK, requestVars
<1>4. ASSUME NEW e \in Events, DeleteEvent(e) PROVE TypeOK'
  BY <1>4 DEF DeleteEvent, TypeOK, requestVars
<1>5. CASE Terminate \/ ShutDown \/ Restart
  BY <1>5 DEF Terminate, ShutDown, Restart, TypeOK, requestVars
<1>6. CASE Exit \/ Kill
  <2>1. Cut /\ orderly' \in BOOLEAN
    BY <1>6 DEF Exit, Kill, TypeOK
  <2>2. pc' \in [Clients -> Resting \cup Steps] /\ \A c \in Clients : pc'[c] \notin Steps
    BY <2>1 DEF Cut, TypeOK, Resting, Steps
  <2> QED
    BY <2>1, <2>2 DEF Cut, TypeOK, Steps
<1>7. CASE UNCHANGED vars
  BY <1>7 DEF vars, requestVars, TypeOK
<1> QED
  BY <1>1, <1>2, <1>3, <1>4, <1>5, <1>6, <1>7, TypeServe DEF Next, Finished

\* The tables, the process and its requests stay well typed; a request is
\* always at an entry it has.
THEOREM TypeCorrect == Spec => []TypeOK
BY TypeInit, TypeNext, PTL DEF Spec

-----------------------------------------------------------------------------
(* Idempotency, and the record *)

\* The triggers that were announced or are about to be.
Told == sent \cup {new[c] : c \in {d \in Clients : pc[d] = "send"}}
SameKey(s, t) == s.event = t.event /\ s.key = t.key /\ s.key # NoTriggerId
OnRecord(e, k) == \E t \in triggers : t.event = e /\ t.key = k

OneRow == \A s, t \in triggers : SameKey(s, t) => s = t
OneAnnouncement == \A s, t \in Told : SameKey(s, t) => s = t
ToldIsStored == \A t \in Told : t.event \in events => t \in triggers

\* The entries a request is past; at "send" it has a row for its current one.
Past(c) == CASE pc[c] = "ok" -> DOMAIN req[c].keys
             [] pc[c] \in Steps \ {"event"} -> 1..(at[c] - 1)
             [] OTHER -> {}
PastIsOnRecord(c) ==
  req[c].event \in events => \A i \in Past(c) \ failures[c] : OnRecord(req[c].event, req[c].keys[i])
SendsItsOwn(c) == pc[c] = "send" => new[c].event = req[c].event /\ new[c].key = Key(c)

Drained == orderly => triggers \subseteq Told \cup silent /\ (phase = "waiting" => Answered)

Record ==
  /\ OneRow /\ OneAnnouncement /\ ToldIsStored
  /\ \A c \in Clients : PastIsOnRecord(c) /\ SendsItsOwn(c)
  /\ Drained

\* Only the deletion of an event takes triggers off the record, and an event
\* does not come back.
LEMMA RecordIsKept ==
  [Next]_vars => events' \subseteq events /\ \A t \in triggers : t.event \in events' => t \in triggers'
<1> SUFFICES ASSUME [Next]_vars
             PROVE  events' \subseteq events /\ \A t \in triggers : t.event \in events' => t \in triggers'
  OBVIOUS
<1>1. ASSUME NEW e \in Events, DeleteEvent(e)
      PROVE  events' \subseteq events /\ \A t \in triggers : t.event \in events' => t \in triggers'
  BY <1>1 DEF DeleteEvent
<1>2. ASSUME NEW c \in Clients, Serve(c) PROVE events' = events /\ triggers \subseteq triggers'
  BY <1>2 DEF Serve, LookUpEvent, ReportEntry, CheckTrigger, InsertTrigger, Store, RecordFailed, Send
<1>3. ASSUME NEW c \in Clients, Abandon(c) \/ \E r \in Requests : Call(c, r)
      PROVE  events' = events /\ triggers \subseteq triggers'
  BY <1>3 DEF Abandon, Store, Call
<1>4. CASE \E t \in flights : Deliver(t)
  BY <1>4 DEF Deliver
<1>5. CASE Terminate \/ ShutDown \/ Exit \/ Kill \/ Restart
  BY <1>5 DEF Terminate, ShutDown, Exit, Kill, Restart, Cut
<1>6. CASE UNCHANGED vars
  BY <1>6 DEF vars
<1> QED
  BY <1>1, <1>2, <1>3, <1>4, <1>5, <1>6 DEF Next, Finished

\* A step stores one new row, which it will announce or which is silent, or
\* nothing new.
NewRow(t) ==
  /\ t.event \in events /\ ~KeyTaken(t.event, t.key)
  /\ triggers' = triggers \cup {t} /\ events' = events
  /\ \/ Told' = Told \cup {t} /\ silent' = silent
     \/ Told' = Told /\ silent' = silent \cup {t}
NoNews == triggers' \subseteq triggers /\ Told' \subseteq Told /\ silent \cap triggers' \subseteq silent'

LEMMA InsertTells ==
  ASSUME TypeOK, NEW c \in Clients, InsertTrigger(c)
  PROVE  (NoNews /\ Told' = Told) \/ \E t : NewRow(t)
<1>0. pc[c] = "insert" /\ UNCHANGED <<events, sent, silent>>
  BY DEF InsertTrigger, At
<1>1. CASE Store(c) /\ new' = [new EXCEPT ![c] = Row(c)] /\ GoTo(c, "send")
  <2>1. Told' = Told \cup {Row(c)}
    <3>1. new'[c] = Row(c) /\ pc'[c] = "send" /\ \A d \in Clients \ {c} : new'[d] = new[d] /\ pc'[d] = pc[d]
      BY <1>1 DEF GoTo, TypeOK
    <3> QED
      BY <1>0, <3>1 DEF Told
  <2>2. NewRow(Row(c))
    BY <1>0, <1>1, <2>1 DEF NewRow, Store, Insertable, Row
  <2> QED
    BY <2>2
<1>2. CASE RecordFailed(c)
  <2>1. new' = new /\ triggers' = triggers /\ pc'[c] = "failed" /\ \A d \in Clients \ {c} : pc'[d] = pc[d]
    BY <1>2 DEF RecordFailed, GoTo, TypeOK
  <2> QED
    BY <1>0, <2>1 DEF Told, NoNews
<1> QED
  BY <1>1, <1>2 DEF InsertTrigger

LEMMA AbandonTells ==
  ASSUME TypeOK, NEW c \in Clients, Abandon(c)
  PROVE  (NoNews /\ Told' = Told) \/ \E t : NewRow(t)
<1>1. Told' = Told /\ events' = events
  <2>1. pc[c] # "send" /\ pc'[c] # "send" /\ \A d \in Clients \ {c} : pc'[d] = pc[d]
    BY DEF Abandon, GoTo, TypeOK
  <2> QED
    BY <2>1 DEF Abandon, Told
<1>2. CASE UNCHANGED <<triggers, next, silent>>
  BY <1>1, <1>2 DEF NoNews
<1>3. CASE Store(c) /\ silent' = silent \cup {Row(c)}
  <2>1. NewRow(Row(c))
    BY <1>1, <1>3 DEF NewRow, Store, Insertable, Row
  <2> QED
    BY <2>1
<1> QED
  BY <1>2, <1>3 DEF Abandon

LEMMA SendTells ==
  ASSUME TypeOK, NEW c \in Clients, Send(c)
  PROVE  NoNews /\ Told' = Told
<1>1. pc[c] = "send" /\ pc'[c] \in {"check", "ok"} /\ \A d \in Clients \ {c} : pc'[d] = pc[d]
  BY TypeProceed DEF Send, At
<1>2. sent' = sent \cup {new[c]} /\ UNCHANGED <<triggers, silent>> /\ \A d \in Clients \ {c} : new'[d] = new[d]
  BY DEF Send, Announces, TypeOK
<1> QED
  BY <1>1, <1>2 DEF Told, NoNews

LEMMA OthersTellNothing ==
  ASSUME TypeOK, [Next]_vars
  PROVE  \/ \E c \in Clients : InsertTrigger(c) \/ Send(c) \/ Abandon(c)
         \/ Exit \/ Kill
         \/ NoNews /\ Told' = Told
<1>1. ASSUME NEW c \in Clients,
             LookUpEvent(c) \/ ReportEntry(c) \/ CheckTrigger(c) \/ \E r \in Requests : Call(c, r)
      PROVE  NoNews /\ Told' = Told
  <2>1. pc[c] # "send" /\ pc'[c] # "send" /\ \A d \in Clients \ {c} : pc'[d] = pc[d]
    <3>1. CASE LookUpEvent(c) \/ \E r \in Requests : Call(c, r)
      BY <3>1 DEF LookUpEvent, Call, At, GoTo, TypeOK, Resting
    <3>2. CASE ReportEntry(c)
      BY <3>2, TypeProceed DEF ReportEntry, At
    <3>3. CASE CheckTrigger(c)
      BY <3>3, TypeProceed DEF CheckTrigger, At, GoTo, TypeOK
    <3> QED
      BY <1>1, <3>1, <3>2, <3>3
  <2>2. UNCHANGED <<sent, new, triggers, silent>>
    BY <1>1 DEF LookUpEvent, ReportEntry, CheckTrigger, Call
  <2> QED
    BY <2>1, <2>2 DEF Told, NoNews
<1>2. ASSUME UNCHANGED <<sent, new, pc>>, triggers' \subseteq triggers, silent \cap triggers' \subseteq silent'
      PROVE  NoNews /\ Told' = Told
  BY <1>2 DEF Told, NoNews
<1>3. CASE (\E t \in flights : Deliver(t)) \/ (\E e \in Events : DeleteEvent(e)) \/ Terminate \/ ShutDown \/ Restart
  BY <1>2, <1>3 DEF Deliver, DeleteEvent, Terminate, ShutDown, Restart, requestVars
<1>4. CASE UNCHANGED vars
  BY <1>2, <1>4 DEF vars, requestVars
<1> QED
  BY <1>1, <1>3, <1>4 DEF Next, Serve, Finished

LEMMA CutTells ==
  ASSUME TypeOK, Cut PROVE NoNews /\ (Answered => Told' = Told)
<1>1. \A c \in Clients : pc'[c] # "send"
  BY DEF Cut, TypeOK, Steps
<1> QED
  BY <1>1 DEF Cut, Told, NoNews, Answered, Resting

\* Two rows never share a trigger_id, neither on record nor among those told.
LEMMA UniqueNext ==
  TypeOK /\ OneRow /\ OneAnnouncement /\ ToldIsStored /\ [Next]_vars
    => OneRow' /\ OneAnnouncement' /\ ToldIsStored'
<1> SUFFICES ASSUME TypeOK, OneRow, OneAnnouncement, ToldIsStored, [Next]_vars
             PROVE  OneRow' /\ OneAnnouncement' /\ ToldIsStored'
  OBVIOUS
<1>1. CASE NoNews
  BY <1>1, RecordIsKept DEF NoNews, OneRow, OneAnnouncement, ToldIsStored, SameKey
<1>2. ASSUME NEW t, NewRow(t) PROVE OneRow' /\ OneAnnouncement' /\ ToldIsStored'
  <2>1. \A s \in triggers : ~SameKey(s, t) /\ ~SameKey(t, s)
    BY <1>2 DEF NewRow, KeyTaken, SameKey
  <2>2. \A s \in Told : ~SameKey(s, t) /\ ~SameKey(t, s)
    BY <1>2, <2>1 DEF NewRow, ToldIsStored, SameKey
  <2>3. OneRow' /\ OneAnnouncement'
    BY <1>2, <2>1, <2>2 DEF NewRow, OneRow, OneAnnouncement, SameKey
  <2> QED
    BY <1>2, <2>3 DEF NewRow, ToldIsStored
<1>3. NoNews \/ \E t : NewRow(t)
  BY OthersTellNothing, InsertTells, SendTells, AbandonTells, CutTells DEF Exit, Kill
<1> QED
  BY <1>1, <1>2, <1>3

LEMMA OthersAreKept ==
  ASSUME TypeOK, NEW c \in Clients, Serve(c) \/ Abandon(c) \/ \E r \in Requests : Call(c, r),
         NEW d \in Clients \ {c}
  PROVE  pc'[d] = pc[d] /\ req'[d] = req[d] /\ at'[d] = at[d] /\ new'[d] = new[d] /\ failures'[d] = failures[d]
<1>1. CASE LookUpEvent(c) \/ Abandon(c) \/ \E r \in Requests : Call(c, r)
  BY <1>1 DEF LookUpEvent, Abandon, Call, GoTo, TypeOK
<1>2. CASE ReportEntry(c)
  BY <1>2, TypeProceed DEF ReportEntry, At, TypeOK
<1>3. CASE CheckTrigger(c)
  BY <1>3, TypeProceed DEF CheckTrigger, At, GoTo, TypeOK
<1>4. CASE InsertTrigger(c)
  BY <1>4 DEF InsertTrigger, RecordFailed, GoTo, TypeOK
<1>5. CASE Send(c)
  BY <1>5, TypeProceed DEF Send, At, TypeOK
<1> QED
  BY <1>1, <1>2, <1>3, <1>4, <1>5 DEF Serve

\* Passing an entry that is on record, or reported.
LEMMA PastProceeds ==
  ASSUME TypeOK, NEW c \in Clients, pc[c] \in {"check", "send"}, Proceed(c), req'[c] = req[c]
  PROVE  Past(c)' \subseteq 1..at[c]
<1>1. at[c] \in Nat \ {0} /\ at[c] <= Len(req[c].keys) /\ DOMAIN req[c].keys = 1..Len(req[c].keys)
      /\ Len(req[c].keys) \in Nat
  BY RequestsHaveKeys DEF TypeOK, Steps
<1>2. CASE at[c] < Len(req[c].keys)
  <2>1. pc'[c] = "check" /\ at'[c] = at[c] + 1
    BY <1>1, <1>2 DEF Proceed, GoTo, TypeOK
  <2>2. Past(c)' = 1..(at'[c] - 1)
    BY <2>1 DEF Past, Steps
  <2> QED
    BY <1>1, <2>1, <2>2
<1>3. CASE ~(at[c] < Len(req[c].keys))
  <2>1. pc'[c] = "ok" /\ at[c] = Len(req[c].keys)
    BY <1>1, <1>3 DEF Proceed, GoTo, TypeOK
  <2>2. Past(c)' = DOMAIN req'[c].keys
    BY <2>1 DEF Past, Steps
  <2> QED
    BY <1>1, <2>1, <2>2
<1> QED
  BY <1>2, <1>3

LEMMA PastProceedsOnRecord ==
  ASSUME TypeOK, NEW c \in Clients, pc[c] \in {"check", "send"}, Proceed(c), req'[c] = req[c],
         PastIsOnRecord(c), events' = events, triggers' = triggers, failures[c] \subseteq failures'[c],
         at[c] \in failures'[c] \/ (req[c].event \in events => OnRecord(req[c].event, Key(c)))
  PROVE  PastIsOnRecord(c)'
<1>1. Past(c) = 1..(at[c] - 1)
  BY DEF Past, Steps
<1>2. at[c] \in Nat \ {0}
  BY DEF TypeOK
<1> SUFFICES ASSUME req[c].event \in events, NEW i \in Past(c)' \ failures'[c]
             PROVE  OnRecord(req[c].event, req[c].keys[i])
  BY DEF PastIsOnRecord, OnRecord
<1>3. CASE i = at[c]
  BY <1>3 DEF Key
<1>4. CASE i # at[c]
  <2>1. i \in 1..at[c]
    BY PastProceeds
  <2>2. i \in Past(c) \ failures[c]
    BY <1>1, <1>2, <1>4, <2>1
  <2> QED
    BY <2>2 DEF PastIsOnRecord
<1> QED
  BY <1>3, <1>4

LEMMA PastServe ==
  ASSUME TypeOK, NEW c \in Clients, PastIsOnRecord(c), SendsItsOwn(c), ToldIsStored,
         Serve(c) \/ Abandon(c) \/ \E r \in Requests : Call(c, r)
  PROVE  PastIsOnRecord(c)' /\ SendsItsOwn(c)'
<1>1. CASE Abandon(c) \/ \E r \in Requests : Call(c, r)
  <2>1. pc'[c] \in {"gone", "event"}
    BY <1>1 DEF Abandon, Call, GoTo, TypeOK
  <2> QED
    BY <2>1 DEF PastIsOnRecord, SendsItsOwn, Past, Steps
<1>2. CASE LookUpEvent(c)
  <2>1. pc'[c] = "failed" \/ (pc'[c] = "check" /\ at'[c] = 1)
    BY <1>2 DEF LookUpEvent, At, GoTo, TypeOK
  <2>2. Past(c)' = {}
    BY <2>1 DEF Past, Steps
  <2> QED
    BY <2>1, <2>2 DEF PastIsOnRecord, SendsItsOwn
<1>3. CASE ReportEntry(c)
  <2>1. pc[c] = "check" /\ Proceed(c) /\ failures'[c] = failures[c] \cup {at[c]} /\ UNCHANGED <<events, triggers, req>>
    BY <1>3 DEF ReportEntry, At, TypeOK
  <2>2. pc'[c] # "send"
    BY <2>1, TypeProceed
  <2> QED
    BY <2>1, <2>2, PastProceedsOnRecord DEF SendsItsOwn
<1>4. CASE CheckTrigger(c)
  <2>1. pc[c] = "check" /\ UNCHANGED <<events, triggers, req, failures>>
    BY <1>4 DEF CheckTrigger, At
  <2>2. CASE KeyTaken(req[c].event, Key(c)) /\ Proceed(c)
    <3>1. OnRecord(req[c].event, Key(c))
      BY <2>2 DEF KeyTaken, OnRecord
    <3>2. pc'[c] # "send"
      BY <2>1, <2>2, TypeProceed
    <3> QED
      BY <2>1, <2>2, <3>1, <3>2, PastProceedsOnRecord DEF SendsItsOwn
  <2>3. CASE GoTo(c, "insert") /\ UNCHANGED at
    <3>1. pc'[c] = "insert"
      BY <2>3 DEF GoTo, TypeOK
    <3>2. Past(c)' = Past(c)
      BY <2>1, <2>3, <3>1 DEF Past, Steps
    <3> QED
      BY <2>1, <3>1, <3>2 DEF PastIsOnRecord, OnRecord, SendsItsOwn
  <2> QED
    BY <1>4, <2>2, <2>3 DEF CheckTrigger
<1>5. CASE InsertTrigger(c)
  <2>1. pc[c] = "insert" /\ UNCHANGED <<events, req, at, failures>> /\ triggers \subseteq triggers'
    BY <1>5 DEF InsertTrigger, Store, RecordFailed, At
  <2>2. pc'[c] = "failed" \/ (pc'[c] = "send" /\ new'[c].event = req[c].event /\ new'[c].key = Key(c))
    BY <1>5 DEF InsertTrigger, Row, RecordFailed, GoTo, TypeOK
  <2>3. Past(c)' \subseteq Past(c)
    BY <2>1, <2>2 DEF Past, Steps
  <2>4. PastIsOnRecord(c)'
    BY <2>1, <2>3 DEF PastIsOnRecord, OnRecord
  <2> QED
    BY <2>1, <2>2, <2>4 DEF SendsItsOwn, Key
<1>6. CASE Send(c)
  <2>1. pc[c] = "send" /\ Proceed(c) /\ UNCHANGED <<events, triggers, req, failures>>
    BY <1>6 DEF Send, At
  <2>2. new[c] \in Told
    BY <2>1 DEF Told
  <2>3. req[c].event \in events => OnRecord(req[c].event, Key(c))
    BY <2>1, <2>2 DEF SendsItsOwn, ToldIsStored, OnRecord
  <2>4. pc'[c] # "send"
    BY <2>1, TypeProceed
  <2> QED
    BY <2>1, <2>3, <2>4, PastProceedsOnRecord DEF SendsItsOwn
<1> QED
  BY <1>1, <1>2, <1>3, <1>4, <1>5, <1>6 DEF Serve

LEMMA PastNext ==
  TypeOK /\ ToldIsStored /\ (\A c \in Clients : PastIsOnRecord(c) /\ SendsItsOwn(c)) /\ [Next]_vars
    => \A c \in Clients : PastIsOnRecord(c)' /\ SendsItsOwn(c)'
<1> SUFFICES ASSUME TypeOK, ToldIsStored, [Next]_vars, \A c \in Clients : PastIsOnRecord(c) /\ SendsItsOwn(c),
                    NEW d \in Clients
             PROVE  PastIsOnRecord(d)' /\ SendsItsOwn(d)'
  OBVIOUS
<1>1. ASSUME req'[d] = req[d], failures'[d] = failures[d], new'[d] = new[d], at'[d] = at[d],
             pc'[d] = pc[d] \/ pc'[d] = "gone"
      PROVE  PastIsOnRecord(d)' /\ SendsItsOwn(d)'
  <2>1. Past(d)' \subseteq Past(d)
    BY <1>1 DEF Past, Steps
  <2>2. PastIsOnRecord(d)'
    BY <1>1, <2>1, RecordIsKept DEF PastIsOnRecord, OnRecord
  <2> QED
    BY <1>1, <2>2 DEF SendsItsOwn, Key
<1>2. ASSUME NEW c \in Clients, Serve(c) \/ Abandon(c) \/ \E r \in Requests : Call(c, r)
      PROVE  PastIsOnRecord(d)' /\ SendsItsOwn(d)'
  <2>1. CASE d = c
    BY <1>2, <2>1, PastServe
  <2>2. CASE d # c
    BY <1>1, <1>2, <2>2, OthersAreKept
  <2> QED
    BY <2>1, <2>2
<1>3. CASE (\E t \in flights : Deliver(t)) \/ (\E e \in Events : DeleteEvent(e)) \/ Terminate \/ ShutDown \/ Restart
  BY <1>1, <1>3 DEF Deliver, DeleteEvent, Terminate, ShutDown, Restart, requestVars
<1>4. CASE Exit \/ Kill
  BY <1>1, <1>4 DEF Exit, Kill, Cut
<1>5. CASE UNCHANGED vars
  BY <1>1, <1>5 DEF vars, requestVars
<1> QED
  BY <1>2, <1>3, <1>4, <1>5 DEF Next, Finished

\* While it is not cut short, a process announces what it stores, or else an
\* INSERT was reported as cancelled: the requests are answered before it waits
\* for the deliveries.
LEMMA DrainedNext == TypeOK /\ Drained /\ [Next]_vars => Drained'
<1> SUFFICES ASSUME TypeOK, Drained, [Next]_vars, orderly' PROVE Drained'
  BY DEF Drained
<1>1. orderly
  BY DEF Next, Serve, LookUpEvent, ReportEntry, CheckTrigger, InsertTrigger, Send, Abandon, Call, Deliver,
         DeleteEvent, Terminate, ShutDown, Exit, Kill, Restart, Finished, vars
<1>2. triggers \subseteq Told \cup silent /\ (phase = "waiting" => Answered)
  BY <1>1 DEF Drained
<1>3. ~Kill
  BY DEF Kill
<1>4. triggers' \subseteq Told' \cup silent'
  <2>1. CASE NoNews /\ Told' = Told
    BY <1>2, <2>1 DEF NoNews
  <2>2. CASE \E t : NewRow(t)
    BY <1>2, <2>2 DEF NewRow
  <2>3. CASE Exit
    BY <1>2, <2>3, CutTells DEF Exit, NoNews
  <2> QED
    BY <1>3, <2>1, <2>2, <2>3, OthersTellNothing, InsertTells, SendTells, AbandonTells
<1>5. ASSUME phase' = "waiting" PROVE Answered'
  <2>1. CASE phase = "waiting"
    <3>1. ASSUME NEW c \in Clients PROVE ~Serve(c) /\ ~Abandon(c)
      BY <1>2, <2>1 DEF Answered, Resting, Steps, Serve, LookUpEvent, ReportEntry, CheckTrigger, InsertTrigger,
         Send, Abandon, At
    <3>2. pc' = pc
      BY <1>3, <1>5, <2>1, <3>1 DEF Next, Call, Deliver, DeleteEvent, Terminate, ShutDown, Exit, Cut, Restart,
         Finished, vars, requestVars
    <3> QED
      BY <1>2, <2>1, <3>2 DEF Answered
  <2>2. CASE phase # "waiting"
    <3>1. ShutDown
      BY <1>3, <1>5, <2>2 DEF Next, Serve, LookUpEvent, ReportEntry, CheckTrigger, InsertTrigger, Send, Abandon,
         Call, Deliver, DeleteEvent, Terminate, Exit, Cut, Restart, Finished, vars
    <3> QED
      BY <3>1 DEF ShutDown, Answered, requestVars
  <2> QED
    BY <2>1, <2>2
<1> QED
  BY <1>4, <1>5 DEF Drained

LEMMA RecordIsInvariant == Spec => [](TypeOK /\ Record)
<1>1. Init => Record
  BY DEF Init, Record, OneRow, OneAnnouncement, ToldIsStored, PastIsOnRecord, SendsItsOwn, Past, Steps, Drained, Told
<1>2. TypeOK /\ Record /\ [Next]_vars => TypeOK' /\ Record'
  BY TypeNext, UniqueNext, PastNext, DrainedNext DEF Record
<1> QED
  BY <1>1, <1>2, TypeInit, PTL DEF Spec

\* One trigger_id is announced once, whatever crashes, restarts and concurrent
\* retries do (event.go:103).
THEOREM RetriesAreAnnouncedOnce == Spec => []AnnouncedOnce
<1>1. Record => AnnouncedOnce
  BY DEF Record, OneAnnouncement, AnnouncedOnce, SameKey, Told
<1> QED
  BY <1>1, RecordIsInvariant, PTL

\* What clients and the webhook were told of is on record.
THEOREM TellsWhatIsOnRecord == Spec => []ToldIsOnRecord
<1>1. Record => AnnouncedIsStored
  BY DEF Record, ToldIsStored, AnnouncedIsStored, Told
<1>2. Record => AnsweredIsStored
  <2> SUFFICES ASSUME Record, NEW c \in Clients, pc[c] = "ok", req[c].event \in events,
                      NEW i \in DOMAIN req[c].keys \ failures[c]
               PROVE  \E t \in triggers : t.event = req[c].event /\ t.key = req[c].keys[i]
    BY DEF AnsweredIsStored
  <2>1. Past(c) = DOMAIN req[c].keys
    BY DEF Past, Steps
  <2> QED
    BY <2>1 DEF Record, PastIsOnRecord, OnRecord
<1> QED
  BY <1>1, <1>2, RecordIsInvariant, PTL DEF ToldIsOnRecord

\* A process that is not cut short exits with every delivery tried and with
\* everything announced but rows whose INSERT was reported as cancelled
\* (webhook.go:88).
THEOREM ExitDropsNothing == Spec => OrderlyExitDropsNothing
<1>1. TypeOK /\ Record /\ [Next]_vars => [Exit /\ orderly => triggers \subseteq sent \cup silent /\ flights = {}]_vars
  <2> SUFFICES ASSUME TypeOK, Record, Exit, orderly PROVE triggers \subseteq sent \cup silent /\ flights = {}
    OBVIOUS
  <2>1. \A c \in Clients : pc[c] # "send"
    BY DEF Record, Drained, Exit, Answered, Resting
  <2> QED
    BY <2>1 DEF Record, Drained, Told, Exit, Waited
<1> QED
  BY <1>1, RecordIsInvariant, PTL DEF Spec, OrderlyExitDropsNothing
=============================================================================
