---------------------------- MODULE ExportJob_proofs ----------------------------
(***************************************************************************)
(* What ExportJob guarantees for every set of clients and delays and every *)
(* bound, and that it implements ExportProtocol.                           *)
(***************************************************************************)
EXTENDS ExportJob, SequenceTheorems, TLAPS

-----------------------------------------------------------------------------
(* Typing *)

\* A request that has found its job, or has made it, works on a row.
HasRow == \A c \in Clients :
  /\ pc[c] \in {"name", "write", "payload"} => job[c] \in DOMAIN jobs
  /\ pc[c] \in {"read", "check"} => job[c] \in JobIds

LEMMA TypeInit == Init => TypeOK /\ HasRow
<1>1. Init => jobs \in Seq(Job) /\ Len(jobs) = 0 /\ DOMAIN jobs = {}
  BY DEF Init
<1>2. Nothing \in Answers
  BY DEF Nothing, Answers, JobIds
<1>3. Init => /\ pc \in [Clients -> Steps \cup {"idle"}] /\ job \in [Clients -> JobIds \cup {0}]
              /\ seen \in [Clients -> Nat] /\ mine \in [Clients -> SUBSET JobIds] /\ answer \in [Clients -> Answers]
  BY <1>2 DEF Init
<1>4. Init => KnownJobsAreNamed /\ DoneJobsAreReady /\ HasRow
  BY <1>1 DEF Init, KnownJobsAreNamed, DoneJobsAreReady, HasRow
<1>5. Init => Len(jobs) <= MaxJobs /\ sharing \in BOOLEAN
  BY <1>1, ExportAssumption DEF Init
<1> QED
  BY <1>1, <1>3, <1>4, <1>5 DEF TypeOK

LEMMA RowsAreTyped ==
  ASSUME TypeOK
  PROVE  /\ DOMAIN jobs = 1..Len(jobs) /\ Len(jobs) \in Nat /\ DOMAIN jobs \subseteq JobIds
         /\ \A j \in DOMAIN jobs : jobs[j] \in Job
<1>1. jobs \in Seq(Job) /\ Len(jobs) <= MaxJobs
  BY DEF TypeOK
<1> QED
  BY <1>1, ExportAssumption DEF JobIds

\* Overwriting a row.
LEMMA RowsOverwritten ==
  ASSUME TypeOK, NEW j \in DOMAIN jobs, NEW row \in Job, jobs' = [jobs EXCEPT ![j] = row]
  PROVE  /\ jobs' \in Seq(Job) /\ Len(jobs') = Len(jobs) /\ DOMAIN jobs' = DOMAIN jobs
         /\ jobs'[j] = row /\ \A i \in DOMAIN jobs : i # j => jobs'[i] = jobs[i]
<1>1. jobs \in Seq(Job) /\ j \in 1..Len(jobs)
  BY RowsAreTyped DEF TypeOK
<1> QED
  BY <1>1, ExceptSeq

LEMMA RowsAppended ==
  ASSUME TypeOK, NEW row \in Job, jobs' = Append(jobs, row)
  PROVE  /\ jobs' \in Seq(Job) /\ Len(jobs') = Len(jobs) + 1 /\ DOMAIN jobs' = DOMAIN jobs \cup {Len(jobs) + 1}
         /\ jobs'[Len(jobs) + 1] = row /\ \A i \in DOMAIN jobs : jobs'[i] = jobs[i]
<1>1. jobs \in Seq(Job)
  BY DEF TypeOK
<1> QED
  BY <1>1, AppendProperties

\* The four ways a row comes about or changes.
LEMMA RowsWritten ==
  /\ \A need \in Delays :
       [status |-> "scheduled", polls |-> 0, need |-> need, named |-> FALSE, ready |-> FALSE] \in Job
  /\ \A row \in Job : Named(row) \in Job /\ Named(row).status = row.status /\ Named(row).named
                      /\ Named(row).ready = row.ready /\ Abstract(Named(row)) = Abstract(row)
  /\ \A row \in Job, n \in Nat :
       /\ Advanced(row, n) \in Job /\ Advanced(row, n).named = row.named
       /\ Advanced(row, n).status = "done" => Advanced(row, n).ready
  /\ \A row \in Job, s \in Forced :
       /\ ForcedTo(row, s) \in Job /\ ForcedTo(row, s).named = row.named /\ ForcedTo(row, s).status = s
       /\ ForcedTo(row, s).status = "done" => ForcedTo(row, s).ready
<1>1. ASSUME NEW need \in Delays
      PROVE  [status |-> "scheduled", polls |-> 0, need |-> need, named |-> FALSE, ready |-> FALSE] \in Job
  BY DEF Job, Statuses
<1>2. ASSUME NEW row \in Job
      PROVE  Named(row) \in Job /\ Named(row).status = row.status /\ Named(row).named
             /\ Named(row).ready = row.ready /\ Abstract(Named(row)) = Abstract(row)
  BY DEF Job, Named, Abstract
<1>3. ASSUME NEW row \in Job, NEW n \in Nat
      PROVE  /\ Advanced(row, n) \in Job /\ Advanced(row, n).named = row.named
             /\ Advanced(row, n).status = "done" => Advanced(row, n).ready
  BY ExportAssumption DEF Job, Advanced, Statuses
<1>4. ASSUME NEW row \in Job, NEW s \in Forced
      PROVE  /\ ForcedTo(row, s) \in Job /\ ForcedTo(row, s).named = row.named /\ ForcedTo(row, s).status = s
             /\ ForcedTo(row, s).status = "done" => ForcedTo(row, s).ready
  <2> DEFINE ready == row.ready \/ s = "done"
  <2>1. ready \in BOOLEAN /\ s \in Statuses /\ (s = "done" => ready)
    BY DEF Job, Statuses
  <2>2. ForcedTo(row, s) = [row EXCEPT !.status = s, !.ready = ready]
    BY DEF ForcedTo
  <2> HIDE DEF ready
  <2> QED
    BY <2>1, <2>2 DEF Job
<1> QED
  BY <1>1, <1>2, <1>3, <1>4

\* The steps of one request.
StepOf(c) ==
  \/ Serve(c) \/ Abandon(c) \/ \E need \in Delays : Insert(c, need)
  \/ \E j \in JobIds : Ask(c, j) \/ \E status \in Forced : ForceStatus(c, j, status)

LEMMA OthersAreKept ==
  ASSUME TypeOK, NEW c \in Clients, NEW d \in Clients \ {c},
         StepOf(c)
  PROVE  pc'[d] = pc[d] /\ job'[d] = job[d] /\ seen'[d] = seen[d] /\ mine'[d] = mine[d] /\ answer'[d] = answer[d]
<1>1. CASE Name(c) \/ \E need \in Delays : Insert(c, need)
  BY <1>1 DEF Name, Insert, GoTo, TypeOK
<1>2. CASE PollRead(c) \/ PollWrite(c)
  BY <1>2 DEF PollRead, PollWrite, GoTo, Told, TypeOK
<1>3. CASE CheckDone(c) \/ ReadPayload(c) \/ Abandon(c)
  BY <1>3 DEF CheckDone, ReadPayload, Abandon, GoTo, Told, TypeOK
<1>4. CASE \E j \in JobIds : Ask(c, j) \/ \E status \in Forced : ForceStatus(c, j, status)
  BY <1>4 DEF Ask, ForceStatus, GoTo, TypeOK
<1> QED
  BY <1>1, <1>2, <1>3, <1>4 DEF StepOf, Serve

\* How a step changes the table: it adds a row, or overwrites one.
Adds(row) == jobs' = Append(jobs, row) /\ row.status = "scheduled" /\ row \in Job
Overwrites(j, row) ==
  /\ j \in DOMAIN jobs /\ jobs' = [jobs EXCEPT ![j] = row] /\ row \in Job
  /\ (jobs[j].named => row.named)
  /\ (jobs[j].status = "done" => jobs[j].ready) => (row.status = "done" => row.ready)

LEMMA TableStep ==
  ASSUME TypeOK, HasRow, [Next]_vars
  PROVE  jobs' = jobs \/ (\E row : Adds(row)) \/ \E j, row : Overwrites(j, row)
<1>1. ASSUME NEW c \in Clients, NEW need \in Delays, Insert(c, need) PROVE \E row : Adds(row)
  BY <1>1, RowsWritten DEF Insert, Adds
<1>2. ASSUME NEW c \in Clients, Name(c) PROVE \E j, row : Overwrites(j, row)
  <2>1. job[c] \in DOMAIN jobs /\ jobs[job[c]] \in Job
    BY <1>2, RowsAreTyped DEF HasRow, Name, At
  <2>2. Overwrites(job[c], Named(jobs[job[c]]))
    BY <1>2, <2>1, RowsWritten DEF Name, Overwrites
  <2> QED
    BY <2>2
<1>3. ASSUME NEW c \in Clients, PollWrite(c) PROVE \E j, row : Overwrites(j, row)
  <2>1. job[c] \in DOMAIN jobs /\ jobs[job[c]] \in Job /\ seen[c] + 1 \in Nat
    BY <1>3, RowsAreTyped DEF HasRow, PollWrite, At, TypeOK
  <2>2. Overwrites(job[c], Advanced(jobs[job[c]], seen[c] + 1))
    BY <1>3, <2>1, RowsWritten DEF PollWrite, Overwrites
  <2> QED
    BY <2>2
<1>4. ASSUME NEW c \in Clients, NEW j \in JobIds, NEW s \in Forced, ForceStatus(c, j, s)
      PROVE  \E i, row : Overwrites(i, row)
  <2>1. j \in DOMAIN jobs /\ jobs[j] \in Job
    BY <1>4, RowsAreTyped DEF ForceStatus
  <2>2. Overwrites(j, ForcedTo(jobs[j], s))
    BY <1>4, <2>1, RowsWritten DEF ForceStatus, Overwrites
  <2> QED
    BY <2>2
<1>5. ASSUME NEW c \in Clients,
             PollRead(c) \/ CheckDone(c) \/ ReadPayload(c) \/ Abandon(c) \/ \E j \in JobIds : Ask(c, j)
      PROVE  jobs' = jobs
  BY <1>5 DEF PollRead, CheckDone, ReadPayload, Abandon, Ask
<1>6. CASE UNCHANGED vars
  BY <1>6 DEF vars
<1> QED
  BY <1>1, <1>2, <1>3, <1>4, <1>5, <1>6 DEF Next, Serve

LEMMA TableTyped ==
  ASSUME TypeOK, HasRow, [Next]_vars
  PROVE  /\ jobs' \in Seq(Job) /\ DOMAIN jobs \subseteq DOMAIN jobs' /\ DoneJobsAreReady'
         /\ \A j \in DOMAIN jobs : jobs[j].named => jobs'[j].named
<1>1. CASE jobs' = jobs
  BY <1>1 DEF TypeOK, DoneJobsAreReady
<1>2. ASSUME NEW row, Adds(row)
      PROVE  /\ jobs' \in Seq(Job) /\ DOMAIN jobs \subseteq DOMAIN jobs' /\ DoneJobsAreReady'
             /\ \A j \in DOMAIN jobs : jobs[j].named => jobs'[j].named
  BY <1>2, RowsAppended DEF Adds, TypeOK, DoneJobsAreReady
<1>3. ASSUME NEW j, NEW row, Overwrites(j, row)
      PROVE  /\ jobs' \in Seq(Job) /\ DOMAIN jobs \subseteq DOMAIN jobs' /\ DoneJobsAreReady'
             /\ \A i \in DOMAIN jobs : jobs[i].named => jobs'[i].named
  <2>1. /\ jobs' \in Seq(Job) /\ DOMAIN jobs' = DOMAIN jobs
        /\ jobs'[j] = row /\ \A i \in DOMAIN jobs : i # j => jobs'[i] = jobs[i]
    BY <1>3, RowsOverwritten DEF Overwrites
  <2> QED
    BY <1>3, <2>1 DEF Overwrites, TypeOK, DoneJobsAreReady
<1> QED
  BY <1>1, <1>2, <1>3, TableStep

\* What a step of one request does to it, and to its client.
LEMMA RequestTyped ==
  ASSUME TypeOK, HasRow, NEW c \in Clients, StepOf(c)
  PROVE  /\ sharing' = sharing
         /\ pc' \in [Clients -> Steps \cup {"idle"}] /\ job' \in [Clients -> JobIds \cup {0}]
         /\ seen' \in [Clients -> Nat] /\ mine' \in [Clients -> SUBSET JobIds] /\ answer' \in [Clients -> Answers]
         /\ pc'[c] \in {"name", "write", "payload"} => job'[c] \in DOMAIN jobs'
         /\ pc'[c] \in {"read", "check"} => job'[c] \in JobIds
         /\ \A j \in mine'[c] : j \in mine[c] \/ (j \in DOMAIN jobs' /\ jobs'[j].named)
         /\ Len(jobs') <= MaxJobs
<1>0. /\ pc \in [Clients -> Steps \cup {"idle"}] /\ job \in [Clients -> JobIds \cup {0}]
      /\ seen \in [Clients -> Nat] /\ mine \in [Clients -> SUBSET JobIds] /\ answer \in [Clients -> Answers]
      /\ Len(jobs) <= MaxJobs /\ sharing \in BOOLEAN
  BY DEF TypeOK
<1>1. ASSUME NEW said \in Statuses \cup {"unknown", "refused", "payload"}, Told(c, said)
      PROVE  answer' \in [Clients -> Answers]
  BY <1>0, <1>1 DEF Told, Answers
<1>2. CASE \E need \in Delays : Insert(c, need)
  <2>1. PICK need \in Delays : Insert(c, need)
    BY <1>2
  <2>2. /\ Len(jobs') = Len(jobs) + 1 /\ DOMAIN jobs' = DOMAIN jobs \cup {Len(jobs) + 1}
    BY <2>1, RowsWritten, RowsAppended DEF Insert
  <2>3. Len(jobs) \in Nat /\ Len(jobs) + 1 <= MaxJobs /\ Len(jobs) + 1 \in JobIds
    BY <2>1, RowsAreTyped, ExportAssumption DEF Insert, JobIds
  <2> QED
    BY <1>0, <2>1, <2>2, <2>3 DEF Insert, GoTo, Steps
<1>3. CASE Name(c)
  <2>1. job[c] \in DOMAIN jobs /\ job[c] \in JobIds
    BY <1>3, RowsAreTyped DEF Name, HasRow, At
  <2>2. Named(jobs[job[c]]) \in Job /\ Named(jobs[job[c]]).named
    BY <2>1, RowsWritten, RowsAreTyped
  <2>3. /\ DOMAIN jobs' = DOMAIN jobs /\ Len(jobs') = Len(jobs) /\ jobs'[job[c]].named
    BY <1>3, <2>1, <2>2, RowsOverwritten DEF Name
  <2> QED
    BY <1>0, <1>3, <2>1, <2>3 DEF Name, GoTo
<1>4. CASE PollRead(c)
  <2>1. job[c] \in DOMAIN jobs => jobs[job[c]].status \in Statuses /\ jobs[job[c]].polls \in Nat
    BY RowsAreTyped DEF Job
  <2>2. seen' \in [Clients -> Nat]
    BY <1>0, <1>4, <2>1 DEF PollRead
  <2>3. answer' \in [Clients -> Answers]
    BY <1>0, <1>1, <1>4, <2>1 DEF PollRead
  <2>4. pc'[c] = "idle" \/ (pc'[c] = "write" /\ job[c] \in DOMAIN jobs)
    BY <1>0, <1>4 DEF PollRead, GoTo
  <2>5. pc' \in [Clients -> Steps \cup {"idle"}]
    BY <1>0, <1>4 DEF PollRead, GoTo, Steps
  <2> QED
    BY <1>0, <1>4, <2>2, <2>3, <2>4, <2>5 DEF PollRead
<1>5. CASE PollWrite(c)
  <2> DEFINE row == Advanced(jobs[job[c]], seen[c] + 1)
  <2>1. job[c] \in DOMAIN jobs /\ seen[c] + 1 \in Nat
    BY <1>0, <1>5 DEF PollWrite, HasRow, At
  <2>2. row \in Job /\ row.status \in Statuses
    BY <2>1, RowsWritten, RowsAreTyped DEF Job
  <2>3. Len(jobs') = Len(jobs)
    BY <1>5, <2>1, <2>2, RowsOverwritten DEF PollWrite
  <2>4. answer' \in [Clients -> Answers]
    BY <1>1, <1>5, <2>2 DEF PollWrite
  <2> QED
    BY <1>0, <1>5, <2>3, <2>4 DEF PollWrite, GoTo
<1>6. CASE CheckDone(c)
  <2>1. answer' \in [Clients -> Answers]
    BY <1>0, <1>1, <1>6 DEF CheckDone
  <2> QED
    BY <1>0, <1>6, <2>1 DEF CheckDone, GoTo, Steps
<1>7. CASE ReadPayload(c)
  <2>1. answer' \in [Clients -> Answers]
    BY <1>1, <1>7 DEF ReadPayload
  <2> QED
    BY <1>0, <1>7, <2>1 DEF ReadPayload, GoTo
<1>8. CASE Abandon(c) \/ \E j \in JobIds : Ask(c, j)
  BY <1>0, <1>8 DEF Abandon, Ask, GoTo, Steps
<1>9. ASSUME NEW j \in JobIds, NEW status \in Forced, ForceStatus(c, j, status)
      PROVE  /\ Len(jobs') = Len(jobs) /\ pc[c] = "idle" /\ UNCHANGED <<sharing, pc, job, seen, mine, answer>>
  BY <1>9, RowsWritten, RowsAreTyped, RowsOverwritten DEF ForceStatus, At
<1>10. CASE \E j \in JobIds, status \in Forced : ForceStatus(c, j, status)
  BY <1>0, <1>9, <1>10
<1> QED
  BY <1>2, <1>3, <1>4, <1>5, <1>6, <1>7, <1>8, <1>10 DEF StepOf, Serve

LEMMA TypeNext == TypeOK /\ HasRow /\ [Next]_vars => TypeOK' /\ HasRow'
<1> SUFFICES ASSUME TypeOK, HasRow, [Next]_vars PROVE TypeOK' /\ HasRow'
  OBVIOUS
<1>1. CASE UNCHANGED vars
  BY <1>1 DEF vars, TypeOK, HasRow, KnownJobsAreNamed, DoneJobsAreReady
<1>2. ASSUME NEW c \in Clients, StepOf(c)
      PROVE  TypeOK' /\ HasRow'
  <2>1. KnownJobsAreNamed'
    BY <1>2, TableTyped, RequestTyped, OthersAreKept DEF KnownJobsAreNamed, TypeOK
  <2>2. HasRow'
    BY <1>2, TableTyped, RequestTyped, OthersAreKept DEF HasRow
  <2> QED
    BY <1>2, <2>1, <2>2, TableTyped, RequestTyped DEF TypeOK
<1> QED
  BY <1>1, <1>2 DEF Next, StepOf

LEMMA TypedAlways == Spec => [](TypeOK /\ HasRow)
BY TypeInit, TypeNext, PTL DEF Spec

\* Rows, requests and answers are of their types, a job that is known has its
\* file name, and one that is done says since when.
THEOREM TypeCorrect == Spec => []TypeOK
BY TypedAlways, PTL

-----------------------------------------------------------------------------
(* Settled jobs *)

\* A job that no poll is about to write is written by nobody but a test.
LEMMA SettledRow ==
  ASSUME TypeOK, HasRow, [Next]_vars, NEW j \in DOMAIN jobs, Settled(j),
         ~(\E c \in Clients, s \in Forced : ForceStatus(c, j, s))
  PROVE  jobs'[j].status = jobs[j].status
<1>1. ASSUME NEW c \in Clients, NEW need \in Delays, Insert(c, need) PROVE jobs'[j] = jobs[j]
  BY <1>1, RowsWritten, RowsAppended DEF Insert
<1>2. ASSUME NEW c \in Clients, Name(c) PROVE jobs'[j].status = jobs[j].status
  <2>1. job[c] \in DOMAIN jobs /\ jobs[job[c]] \in Job /\ Named(jobs[job[c]]) \in Job
    BY <1>2, RowsAreTyped, RowsWritten DEF HasRow, Name, At
  <2>2. jobs'[j] = jobs[j] \/ (j = job[c] /\ jobs'[j] = Named(jobs[j]))
    BY <1>2, <2>1, RowsOverwritten DEF Name
  <2> QED
    BY <2>1, <2>2, RowsWritten
<1>3. ASSUME NEW c \in Clients, PollWrite(c) PROVE jobs'[j] = jobs[j]
  <2>1. job[c] \in DOMAIN jobs /\ jobs[job[c]] \in Job /\ seen[c] + 1 \in Nat /\ job[c] # j
    BY <1>3, RowsAreTyped DEF HasRow, PollWrite, At, TypeOK, Settled
  <2>2. Advanced(jobs[job[c]], seen[c] + 1) \in Job
    BY <2>1, RowsWritten
  <2> QED
    BY <1>3, <2>1, <2>2, RowsOverwritten DEF PollWrite
<1>4. ASSUME NEW c \in Clients, NEW i \in JobIds, NEW s \in Forced, ForceStatus(c, i, s) PROVE jobs'[j] = jobs[j]
  <2>1. i \in DOMAIN jobs /\ i # j /\ ForcedTo(jobs[i], s) \in Job
    BY <1>4, RowsAreTyped, RowsWritten DEF ForceStatus
  <2> QED
    BY <1>4, <2>1, RowsOverwritten DEF ForceStatus
<1>5. ASSUME NEW c \in Clients,
             PollRead(c) \/ CheckDone(c) \/ ReadPayload(c) \/ Abandon(c) \/ \E i \in JobIds : Ask(c, i)
      PROVE  jobs' = jobs
  BY <1>5 DEF PollRead, CheckDone, ReadPayload, Abandon, Ask
<1>6. CASE UNCHANGED vars
  BY <1>6 DEF vars
<1> QED
  BY <1>1, <1>2, <1>3, <1>4, <1>5, <1>6 DEF Next, Serve

\* Only a poll that reads a job that is not finished comes to write it.
LEMMA WritersHaveRead ==
  ASSUME TypeOK, [Next]_vars, NEW d \in Clients, pc'[d] = "write"
  PROVE  \/ pc[d] = "write" /\ job'[d] = job[d]
         \/ job'[d] = job[d] /\ ~Finished(jobs[job[d]].status)
<1>1. CASE UNCHANGED <<pc, job>>
  BY <1>1
<1>2. ASSUME NEW c \in Clients, StepOf(c)
      PROVE  \/ pc[d] = "write" /\ job'[d] = job[d]
             \/ job'[d] = job[d] /\ ~Finished(jobs[job[d]].status)
  <2>1. CASE d # c
    BY <1>2, <2>1, OthersAreKept
  <2>2. CASE d = c
    <3>1. CASE \E j \in JobIds : \E status \in Forced : ForceStatus(c, j, status)
      BY <2>2, <3>1 DEF ForceStatus
    <3>2. ~Name(c) /\ ~PollWrite(c) /\ ~CheckDone(c) /\ ~ReadPayload(c) /\ ~Abandon(c)
          /\ ~(\E need \in Delays : Insert(c, need)) /\ ~(\E j \in JobIds : Ask(c, j))
      BY <2>2 DEF Name, PollWrite, CheckDone, ReadPayload, Abandon, Insert, Ask, GoTo, TypeOK
    <3>3. CASE PollRead(c)
      BY <2>2, <3>3 DEF PollRead, GoTo, TypeOK
    <3> QED
      BY <1>2, <3>1, <3>2, <3>3 DEF StepOf, Serve
  <2> QED
    BY <2>1, <2>2
<1> QED
  BY <1>1, <1>2 DEF Next, StepOf, vars

\* A finished job that no poll is still writing changes only when it is forced.
THEOREM SettledIsFinal == Spec => SettledStaysSettled
<1>1. TypeOK /\ HasRow /\ [Next]_vars =>
        [\A j \in DOMAIN jobs :
           Settled(j) /\ ~(\E c \in Clients, s \in Forced : ForceStatus(c, j, s))
           => Settled(j)' /\ jobs'[j].status = jobs[j].status]_vars
  <2> SUFFICES ASSUME TypeOK, HasRow, [Next]_vars, NEW j \in DOMAIN jobs, Settled(j),
                      ~(\E c \in Clients, s \in Forced : ForceStatus(c, j, s))
               PROVE  Settled(j)' /\ jobs'[j].status = jobs[j].status
    OBVIOUS
  <2>1. jobs'[j].status = jobs[j].status
    BY SettledRow
  <2>2. ASSUME NEW d \in Clients, pc'[d] = "write", job'[d] = j PROVE FALSE
    BY <2>2, WritersHaveRead DEF Settled, Finished, At
  <2> QED
    BY <2>1, <2>2 DEF Settled, At
<1> QED
  BY <1>1, TypedAlways, PTL DEF Spec, SettledStaysSettled

-----------------------------------------------------------------------------
(* Clients that ask about their own jobs only: refinement of ExportProtocol *)

Owned(c) == mine[c] \cup (IF pc[c] = "name" THEN {job[c]} ELSE {})

\* A job has one owner; while the owner polls or fetches it, it is as it was read.
Exclusive ==
  ~sharing =>
    /\ \A c, d \in Clients : c # d => Owned(c) \cap Owned(d) = {}
    /\ \A c \in Clients :
         /\ pc[c] \in {"read", "write", "check", "payload"} => job[c] \in mine[c]
         /\ pc[c] = "write" => jobs[job[c]].polls = seen[c] /\ ~Finished(jobs[job[c]].status)
         /\ pc[c] = "payload" => jobs[job[c]].status = "done"

LEMMA OwnedHaveRows ==
  ASSUME TypeOK, HasRow, NEW c \in Clients PROVE Owned(c) \subseteq DOMAIN jobs
BY DEF Owned, TypeOK, KnownJobsAreNamed, HasRow

\* Without sharing a step touches the rows of its own client only.
LEMMA OwnRowsOnly ==
  ASSUME TypeOK, HasRow, Exclusive, ~sharing, NEW c \in Clients, StepOf(c)
  PROVE  \A j \in DOMAIN jobs \ Owned(c) : jobs'[j] = jobs[j]
<1> SUFFICES ASSUME NEW j \in DOMAIN jobs \ Owned(c) PROVE jobs'[j] = jobs[j]
  OBVIOUS
<1>1. ASSUME NEW need \in Delays, Insert(c, need) PROVE jobs'[j] = jobs[j]
  BY <1>1, RowsWritten, RowsAppended DEF Insert
<1>2. CASE Name(c) \/ PollWrite(c)
  <2>1. job[c] \in DOMAIN jobs /\ job[c] \in Owned(c) /\ jobs[job[c]] \in Job /\ seen[c] + 1 \in Nat
    BY <1>2, RowsAreTyped DEF HasRow, Name, PollWrite, At, Owned, Exclusive, TypeOK
  <2>2. PICK row \in Job : jobs' = [jobs EXCEPT ![job[c]] = row]
    BY <1>2, <2>1, RowsWritten DEF Name, PollWrite
  <2> QED
    BY <2>1, <2>2, RowsOverwritten
<1>3. ASSUME NEW i \in JobIds, NEW s \in Forced, ForceStatus(c, i, s) PROVE jobs'[j] = jobs[j]
  <2>1. i \in DOMAIN jobs /\ i # j /\ ForcedTo(jobs[i], s) \in Job
    BY <1>3, RowsAreTyped, RowsWritten DEF ForceStatus, MayAsk, Owned
  <2> QED
    BY <1>3, <2>1, RowsOverwritten DEF ForceStatus
<1>4. CASE PollRead(c) \/ CheckDone(c) \/ ReadPayload(c) \/ Abandon(c) \/ \E i \in JobIds : Ask(c, i)
  BY <1>4 DEF PollRead, CheckDone, ReadPayload, Abandon, Ask
<1> QED
  BY <1>1, <1>2, <1>3, <1>4 DEF StepOf, Serve

\* What a step makes of its own client.
LEMMA OwnStep ==
  ASSUME TypeOK, HasRow, Exclusive, ~sharing, NEW c \in Clients, StepOf(c)
  PROVE  /\ \A j \in Owned(c)' : j \in Owned(c) \/ j \notin DOMAIN jobs
         /\ pc'[c] \in {"read", "write", "check", "payload"} => job'[c] \in mine'[c]
         /\ pc'[c] = "write" => jobs'[job'[c]].polls = seen'[c] /\ ~Finished(jobs'[job'[c]].status)
         /\ pc'[c] = "payload" => jobs'[job'[c]].status = "done"
<1>0. /\ pc \in [Clients -> Steps \cup {"idle"}] /\ job \in [Clients -> JobIds \cup {0}]
      /\ seen \in [Clients -> Nat] /\ mine \in [Clients -> SUBSET JobIds]
  BY DEF TypeOK
<1>1. ASSUME NEW need \in Delays, Insert(c, need)
      PROVE  pc'[c] = "name" /\ mine' = mine /\ job'[c] = Len(jobs) + 1 /\ Len(jobs) + 1 \notin DOMAIN jobs
  BY <1>0, <1>1, RowsAreTyped DEF Insert, GoTo
<1>2. CASE Name(c)
  <2>1. pc'[c] = "idle" /\ mine'[c] = mine[c] \cup {job[c]} /\ job' = job /\ pc[c] = "name"
    BY <1>0, <1>2 DEF Name, GoTo, At
  <2> QED
    BY <2>1 DEF Owned
<1>3. CASE PollRead(c)
  <2>1. UNCHANGED <<jobs, job, mine>> /\ pc[c] = "read" /\ pc'[c] \in {"write", "idle"}
        /\ (pc'[c] = "write" => seen'[c] = jobs[job[c]].polls /\ ~Finished(jobs[job[c]].status))
    BY <1>0, <1>3 DEF PollRead, GoTo, At
  <2> QED
    BY <2>1 DEF Owned, Exclusive
<1>4. CASE PollWrite(c)
  <2>1. pc'[c] = "idle" /\ UNCHANGED mine
    BY <1>0, <1>4 DEF PollWrite, GoTo
  <2> QED
    BY <2>1 DEF Owned
<1>5. CASE CheckDone(c)
  <2>1. UNCHANGED <<jobs, job, mine>> /\ pc[c] = "check" /\ pc'[c] \in {"payload", "idle"}
        /\ (pc'[c] = "payload" => jobs[job[c]].status = "done")
    BY <1>0, <1>5 DEF CheckDone, GoTo, At
  <2> QED
    BY <2>1 DEF Owned, Exclusive
<1>6. CASE ReadPayload(c) \/ Abandon(c)
  <2>1. pc'[c] = "idle" /\ UNCHANGED mine
    BY <1>0, <1>6 DEF ReadPayload, Abandon, GoTo
  <2> QED
    BY <2>1 DEF Owned
<1>7. ASSUME NEW j \in JobIds, Ask(c, j)
      PROVE  pc'[c] \in {"read", "check"} /\ job'[c] = j /\ j \in mine[c] /\ mine' = mine
  BY <1>0, <1>7 DEF Ask, MayAsk, GoTo
<1>8. ASSUME NEW j \in JobIds, NEW s \in Forced, ForceStatus(c, j, s)
      PROVE  UNCHANGED <<pc, mine>> /\ pc[c] = "idle"
  BY <1>8 DEF ForceStatus, At
<1>9. CASE \E need \in Delays : Insert(c, need)
  BY <1>1, <1>9 DEF Owned
<1>10. CASE \E j \in JobIds : Ask(c, j) \/ \E s \in Forced : ForceStatus(c, j, s)
  BY <1>7, <1>8, <1>10 DEF Owned
<1> QED
  BY <1>2, <1>3, <1>4, <1>5, <1>6, <1>9, <1>10 DEF StepOf, Serve

LEMMA ExclusiveNext == TypeOK /\ HasRow /\ Exclusive /\ [Next]_vars => Exclusive'
<1> SUFFICES ASSUME TypeOK, HasRow, Exclusive, [Next]_vars, ~sharing' PROVE Exclusive'
  BY DEF Exclusive
<1>1. CASE UNCHANGED vars
  BY <1>1 DEF vars, Exclusive, Owned
<1>2. ASSUME NEW c \in Clients, StepOf(c) PROVE Exclusive'
  <2>1. ~sharing
    BY <1>2, RequestTyped DEF StepOf
  <2>2. ASSUME NEW d \in Clients \ {c}
        PROVE  pc'[d] = pc[d] /\ job'[d] = job[d] /\ seen'[d] = seen[d] /\ mine'[d] = mine[d] /\ Owned(d)' = Owned(d)
    BY <1>2, OthersAreKept DEF StepOf, Owned
  <2>3. ASSUME NEW d \in Clients \ {c} PROVE Owned(c)' \cap Owned(d) = {}
    BY <1>2, <2>1, OwnStep, OwnedHaveRows DEF Exclusive
  <2>4. \A d, e \in Clients : d # e => Owned(d)' \cap Owned(e)' = {}
    BY <2>1, <2>2, <2>3 DEF Exclusive
  <2>5. ASSUME NEW d \in Clients \ {c}, pc[d] \in {"read", "write", "check", "payload"}
        PROVE  jobs'[job[d]] = jobs[job[d]]
    <3>1. job[d] \in Owned(d)
      BY <2>1, <2>5 DEF Exclusive, Owned
    <3>2. job[d] \in DOMAIN jobs \ Owned(c)
      BY <2>1, <3>1, OwnedHaveRows DEF Exclusive
    <3> QED
      BY <1>2, <2>1, <3>2, OwnRowsOnly
  <2>6. ASSUME NEW d \in Clients
        PROVE  /\ pc'[d] \in {"read", "write", "check", "payload"} => job'[d] \in mine'[d]
               /\ pc'[d] = "write" => jobs'[job'[d]].polls = seen'[d] /\ ~Finished(jobs'[job'[d]].status)
               /\ pc'[d] = "payload" => jobs'[job'[d]].status = "done"
    <3>1. CASE d = c
      BY <1>2, <2>1, <3>1, OwnStep
    <3>2. CASE d # c
      BY <2>1, <2>2, <2>5, <3>2 DEF Exclusive
    <3> QED
      BY <3>1, <3>2
  <2> QED
    BY <2>4, <2>6 DEF Exclusive
<1> QED
  BY <1>1, <1>2 DEF Next, StepOf

\* The table as the protocol has it.
Rows == [j \in DOMAIN jobs |-> Abstract(jobs[j])]

LEMMA RowsAbstract ==
  ASSUME TypeOK
  PROVE  /\ DOMAIN Rows = 1..Len(jobs) /\ Len(Rows) = Len(jobs) /\ Rows \in Seq([status: Statuses, polls: Nat, need: Delays])
         /\ \A j \in DOMAIN jobs : Rows[j] = Abstract(jobs[j])
<1>1. \A j \in DOMAIN jobs : Abstract(jobs[j]) \in [status: Statuses, polls: Nat, need: Delays]
  BY RowsAreTyped DEF Abstract, Job
<1> QED
  BY <1>1, RowsAreTyped DEF Rows

LEMMA RowsSame ==
  ASSUME TypeOK, DOMAIN jobs' = DOMAIN jobs, \A j \in DOMAIN jobs : Abstract(jobs'[j]) = Abstract(jobs[j])
  PROVE  Rows' = Rows
BY DEF Rows, Abstract

LEMMA RowsOverwrittenAbstract ==
  ASSUME TypeOK, NEW j \in DOMAIN jobs, NEW row \in Job, jobs' = [jobs EXCEPT ![j] = row]
  PROVE  Rows' = [Rows EXCEPT ![j] = Abstract(row)]
<1>1. /\ DOMAIN jobs' = DOMAIN jobs
      /\ jobs'[j] = row /\ \A i \in DOMAIN jobs : i # j => jobs'[i] = jobs[i]
  BY RowsOverwritten
<1>2. Rows' = [i \in DOMAIN jobs |-> IF i = j THEN Abstract(row) ELSE Abstract(jobs[i])]
  BY <1>1 DEF Rows, Abstract
<1> QED
  BY <1>2 DEF Rows

LEMMA AppendAsFunction ==
  ASSUME NEW S, NEW seq \in Seq(S), NEW e \in S
  PROVE  Append(seq, e) = [i \in 1..(Len(seq) + 1) |-> IF i = Len(seq) + 1 THEN e ELSE seq[i]]
<1> DEFINE longer == Append(seq, e)
<1>1. /\ longer \in Seq(S) /\ Len(longer) = Len(seq) + 1 /\ longer[Len(seq) + 1] = e
      /\ \A i \in 1..Len(seq) : longer[i] = seq[i]
  BY AppendProperties
<1> HIDE DEF longer
<1>2. longer = [i \in 1..Len(longer) |-> longer[i]]
  BY <1>1
<1>3. \A i \in 1..Len(longer) : longer[i] = IF i = Len(seq) + 1 THEN e ELSE seq[i]
  BY <1>1, Len(seq) \in Nat
<1>4. longer = [i \in 1..(Len(seq) + 1) |-> IF i = Len(seq) + 1 THEN e ELSE seq[i]]
  BY <1>1, <1>2, <1>3
<1> QED
  BY <1>4 DEF longer

LEMMA RowsAppendedAbstract ==
  ASSUME TypeOK, NEW row \in Job, jobs' = Append(jobs, row)
  PROVE  Rows' = Append(Rows, Abstract(row))
<1>1. /\ DOMAIN jobs' = DOMAIN jobs \cup {Len(jobs) + 1} /\ Len(jobs') = Len(jobs) + 1 /\ jobs' \in Seq(Job)
      /\ jobs'[Len(jobs) + 1] = row /\ \A i \in DOMAIN jobs : jobs'[i] = jobs[i]
  BY RowsAppended
<1>2. /\ Rows \in Seq([status: Statuses, polls: Nat, need: Delays]) /\ Len(Rows) = Len(jobs)
      /\ \A i \in 1..Len(jobs) : Rows[i] = Abstract(jobs[i])
      /\ DOMAIN jobs = 1..Len(jobs) /\ Len(jobs) \in Nat
  BY RowsAbstract, RowsAreTyped
<1>3. Abstract(row) \in [status: Statuses, polls: Nat, need: Delays]
  BY DEF Abstract, Job
<1>4. Rows' = [i \in 1..(Len(jobs) + 1) |-> IF i = Len(jobs) + 1 THEN Abstract(row) ELSE Abstract(jobs[i])]
  BY <1>1, <1>2 DEF Rows, Abstract
<1>5. Append(Rows, Abstract(row))
        = [i \in 1..(Len(Rows) + 1) |-> IF i = Len(Rows) + 1 THEN Abstract(row) ELSE Rows[i]]
  <2> DEFINE Typed == [status: Statuses, polls: Nat, need: Delays]
             last == Abstract(row)
  <2>1. Rows \in Seq(Typed) /\ last \in Typed
    BY <1>2, <1>3
  <2> HIDE DEF Typed, last
  <2>2. Append(Rows, last) = [i \in 1..(Len(Rows) + 1) |-> IF i = Len(Rows) + 1 THEN last ELSE Rows[i]]
    BY <2>1, AppendAsFunction
  <2> QED
    BY <2>2, Zenon DEF last
<1>6. \A i \in 1..(Len(jobs) + 1) : i # Len(jobs) + 1 => i \in 1..Len(jobs)
  BY <1>2
<1> QED
  BY <1>2, <1>4, <1>5, <1>6

\* One operation of the protocol for each step, or none.
LEMMA StepRefines ==
  ASSUME TypeOK, HasRow, Exclusive, ~sharing, NEW c \in Clients, StepOf(c)
  PROVE  [Protocol!Next]_(Protocol!vars)
<1>0. sharing' = sharing /\ answer \in [Clients -> Answers]
  BY RequestTyped DEF TypeOK
<1>1. DOMAIN Rows = DOMAIN jobs /\ Len(Rows) = Len(jobs) /\ \A j \in DOMAIN jobs : Rows[j] = Abstract(jobs[j])
  BY RowsAbstract, RowsAreTyped
<1>2. /\ (IF sharing THEN <<>> ELSE [j \in DOMAIN jobs |-> Abstract(jobs[j])]) = Rows
      /\ (IF sharing THEN [d \in Clients |-> Nothing] ELSE answer) = answer
      /\ (IF sharing THEN <<>> ELSE [j \in DOMAIN jobs |-> Abstract(jobs[j])])' = Rows'
      /\ (IF sharing THEN [d \in Clients |-> Nothing] ELSE answer)' = answer'
  BY <1>0 DEF Rows
<1>3. ASSUME Rows' = Rows, answer' = answer PROVE UNCHANGED Protocol!vars
  BY <1>2, <1>3 DEF Protocol!vars
<1>4. ASSUME NEW need \in Delays, Len(Rows) < MaxJobs, answer' = answer,
             Rows' = Append(Rows, [status |-> "scheduled", polls |-> 0, need |-> need])
      PROVE  Protocol!Next
  BY <1>2, <1>4 DEF Protocol!Next, Protocol!Start
<1>5. ASSUME NEW j \in DOMAIN Rows, NEW s \in Forced, answer' = answer,
             Rows' = [Rows EXCEPT ![j] = [Rows[j] EXCEPT !.status = s]]
      PROVE  Protocol!Next
  <2>1. Protocol!Force(j, s)
    BY <1>2, <1>5 DEF Protocol!Force
  <2> QED
    BY <1>2, <1>5, <2>1, Zenon DEF Protocol!Next
<1>6. ASSUME NEW j \in DOMAIN Rows, Rows' = Rows,
             answer' = [answer EXCEPT ![c] = [job |-> j, said |-> IF Rows[j].status = "done" THEN "payload" ELSE "refused"]]
      PROVE  Protocol!Next
  BY <1>2, <1>6 DEF Protocol!Next, Protocol!Fetch, Protocol!Told
<1>7. ASSUME NEW j \in DOMAIN Rows, Rows' = Rows, Finished(Rows[j].status),
             answer' = [answer EXCEPT ![c] = [job |-> j, said |-> Rows[j].status]]
      PROVE  Protocol!Next
  BY <1>2, <1>7 DEF Protocol!Next, Protocol!Poll, Protocol!Told, Protocol!Finished, Finished
<1>8. ASSUME NEW j \in DOMAIN Rows, NEW row, row = Protocol!Advanced(Rows[j]), ~Finished(Rows[j].status),
             Rows' = [Rows EXCEPT ![j] = row], answer' = [answer EXCEPT ![c] = [job |-> j, said |-> row.status]]
      PROVE  Protocol!Next
  <2>1. Protocol!Poll(c, j)
    BY <1>2, <1>8 DEF Protocol!Poll, Protocol!Told, Protocol!Finished, Finished
  <2> QED
    BY <1>2, <1>8, <2>1, Zenon DEF Protocol!Next
<1>9. CASE \E need \in Delays : Insert(c, need)
  <2>1. PICK need \in Delays : Insert(c, need)
    BY <1>9
  <2> DEFINE row == [status |-> "scheduled", polls |-> 0, need |-> need, named |-> FALSE, ready |-> FALSE]
  <2>2. row \in Job /\ Abstract(row) = [status |-> "scheduled", polls |-> 0, need |-> need]
    BY RowsWritten DEF Abstract
  <2>3. Rows' = Append(Rows, Abstract(row)) /\ answer' = answer /\ Len(jobs) < MaxJobs
    BY <2>1, <2>2, RowsAppendedAbstract DEF Insert
  <2> QED
    BY <1>1, <1>4, <2>2, <2>3
<1>10. CASE Name(c)
  <2>1. job[c] \in DOMAIN jobs /\ jobs[job[c]] \in Job
    BY <1>10, RowsAreTyped DEF HasRow, Name, At
  <2>2. DOMAIN jobs' = DOMAIN jobs /\ jobs'[job[c]] = Named(jobs[job[c]])
        /\ \A i \in DOMAIN jobs : i # job[c] => jobs'[i] = jobs[i]
    BY <1>10, <2>1, RowsOverwritten, RowsWritten DEF Name
  <2>3. Rows' = Rows
    BY <2>1, <2>2, RowsSame, RowsWritten
  <2> QED
    BY <1>3, <1>10, <2>3 DEF Name
<1>11. CASE PollRead(c)
  <2>1. job[c] \in DOMAIN jobs
    BY <1>11 DEF PollRead, At, Exclusive, TypeOK, KnownJobsAreNamed
  <2>2. Rows' = Rows
    BY <1>11, RowsSame DEF PollRead
  <2>3. Rows[job[c]].status = jobs[job[c]].status
    BY <1>1, <2>1 DEF Abstract
  <2>4. answer' = answer \/ (Finished(jobs[job[c]].status)
                              /\ answer' = [answer EXCEPT ![c] = [job |-> job[c], said |-> jobs[job[c]].status]])
    BY <1>11, <2>1 DEF PollRead, Told
  <2> QED
    BY <1>1, <1>3, <1>7, <2>1, <2>2, <2>3, <2>4
<1>12. CASE PollWrite(c)
  <2> DEFINE row == Advanced(jobs[job[c]], seen[c] + 1)
  <2>1. job[c] \in DOMAIN jobs /\ jobs[job[c]] \in Job /\ seen[c] \in Nat
        /\ jobs[job[c]].polls = seen[c] /\ ~Finished(jobs[job[c]].status)
    BY <1>12, RowsAreTyped DEF HasRow, PollWrite, At, Exclusive, TypeOK
  <2>2. row \in Job /\ Abstract(row) = Protocol!Advanced(Rows[job[c]]) /\ Abstract(row).status = row.status
    <3>1. row \in Job
      BY <2>1, RowsWritten
    <3>2. Rows[job[c]] = Abstract(jobs[job[c]])
      BY <1>1, <2>1
    <3>3. Abstract(jobs[job[c]]).polls = seen[c] /\ Abstract(jobs[job[c]]).need = jobs[job[c]].need
      BY <2>1 DEF Abstract
    <3>4. /\ row.status = IF seen[c] + 1 > jobs[job[c]].need THEN "done" ELSE "in progress"
          /\ row.polls = seen[c] + 1 /\ row.need = jobs[job[c]].need
      BY <2>1 DEF Advanced, Job
    <3> HIDE DEF row
    <3> QED
      BY <3>1, <3>2, <3>3, <3>4 DEF Abstract, Protocol!Advanced
  <2>3. Rows' = [Rows EXCEPT ![job[c]] = Abstract(row)]
        /\ answer' = [answer EXCEPT ![c] = [job |-> job[c], said |-> row.status]]
    BY <1>12, <2>1, <2>2, RowsOverwrittenAbstract DEF PollWrite, Told
  <2>4. Rows[job[c]].status = jobs[job[c]].status
    BY <1>1, <2>1 DEF Abstract
  <2> QED
    BY <1>1, <1>8, <2>1, <2>2, <2>3, <2>4
<1>13. CASE CheckDone(c)
  <2>1. job[c] \in DOMAIN jobs
    BY <1>13 DEF CheckDone, At, Exclusive, TypeOK, KnownJobsAreNamed
  <2>2. Rows' = Rows
    BY <1>13, RowsSame DEF CheckDone
  <2>3. Rows[job[c]].status = jobs[job[c]].status
    BY <1>1, <2>1 DEF Abstract
  <2>4. answer' = answer \/ (jobs[job[c]].status # "done"
                              /\ answer' = [answer EXCEPT ![c] = [job |-> job[c], said |-> "refused"]])
    BY <1>13, <2>1 DEF CheckDone, Told
  <2> QED
    BY <1>1, <1>3, <1>6, <2>1, <2>2, <2>3, <2>4
<1>14. CASE ReadPayload(c)
  <2>1. job[c] \in DOMAIN jobs /\ jobs[job[c]].status = "done"
    BY <1>14 DEF ReadPayload, At, Exclusive, HasRow
  <2>2. Rows' = Rows /\ answer' = [answer EXCEPT ![c] = [job |-> job[c], said |-> "payload"]]
    BY <1>14, RowsSame DEF ReadPayload, Told
  <2>3. Rows[job[c]].status = "done"
    BY <1>1, <2>1 DEF Abstract
  <2> QED
    BY <1>1, <1>6, <2>1, <2>2, <2>3
<1>15. CASE Abandon(c) \/ \E j \in JobIds : Ask(c, j)
  BY <1>3, <1>15, RowsSame DEF Abandon, Ask
<1>16. CASE \E j \in JobIds : \E s \in Forced : ForceStatus(c, j, s)
  <2>1. PICK j \in JobIds, s \in Forced : ForceStatus(c, j, s)
    BY <1>16
  <2>2. j \in DOMAIN jobs /\ jobs[j] \in Job /\ ForcedTo(jobs[j], s) \in Job
    BY <2>1, RowsAreTyped, RowsWritten DEF ForceStatus
  <2>3. Abstract(ForcedTo(jobs[j], s)) = [Abstract(jobs[j]) EXCEPT !.status = s]
    BY <2>2 DEF Abstract, ForcedTo, Job
  <2>4. Rows' = [Rows EXCEPT ![j] = [Abstract(jobs[j]) EXCEPT !.status = s]] /\ answer' = answer
    BY <2>1, <2>2, <2>3, RowsOverwrittenAbstract DEF ForceStatus
  <2>5. Rows' = [Rows EXCEPT ![j] = [Rows[j] EXCEPT !.status = s]]
    BY <1>1, <2>2, <2>4
  <2> QED
    BY <1>1, <1>5, <2>2, <2>4, <2>5
<1> QED
  BY <1>9, <1>10, <1>11, <1>12, <1>13, <1>14, <1>15, <1>16 DEF StepOf, Serve

\* For clients that ask about their own jobs only, every request takes effect at
\* one moment, as if a poll were one statement (export.go:66).
THEOREM RefinesProtocol == Spec => ImplementsProtocol
<1>1. Init => Protocol!Init
  <2>1. Init => [j \in DOMAIN jobs |-> Abstract(jobs[j])] = <<>>
    BY DEF Init
  <2> QED
    BY <2>1 DEF Init, Protocol!Init, Nothing, Protocol!Nothing
<1>2. Init => Exclusive
  BY DEF Init, Exclusive, Owned
<1>3. TypeOK /\ HasRow /\ Exclusive /\ [Next]_vars => [Protocol!Next]_(Protocol!vars)
  <2> SUFFICES ASSUME TypeOK, HasRow, Exclusive, [Next]_vars PROVE [Protocol!Next]_(Protocol!vars)
    OBVIOUS
  <2>1. CASE UNCHANGED vars
    BY <2>1 DEF vars, Protocol!vars, Abstract
  <2>2. ASSUME NEW c \in Clients, StepOf(c), sharing PROVE UNCHANGED Protocol!vars
    BY <2>2, RequestTyped DEF Protocol!vars
  <2> QED
    BY <2>1, <2>2, StepRefines DEF Next, StepOf
<1> QED
  BY <1>1, <1>2, <1>3, ExclusiveNext, TypedAlways, PTL DEF Spec, ImplementsProtocol, Protocol!Spec
=============================================================================
