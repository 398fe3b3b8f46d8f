------------------------------- MODULE ExportJob -------------------------------
(***************************************************************************)
(* Asynchronous exports (store/export.go and its handlers).  A job is one  *)
(* row of exports; it is created by two statements, and a poll reads the   *)
(* row in one statement and writes the advanced row back in another, with  *)
(* nothing that keeps two polls of one job apart.                          *)
(***************************************************************************)
EXTENDS Naturals, Sequences

CONSTANTS
  Clients,     \* concurrent HTTP requests
  MaxJobs,     \* bound on the jobs of a behaviour
  MaxShared,   \* the same where clients share them
  Delays,      \* values of polls_before_done
  MaxPolls,    \* bound on the polls of a job that is forced once more
  Forced,      \* statuses a job is forced into by a test or on the dashboard
  Disconnects  \* whether clients go away before they are answered

ASSUME ExportAssumption ==
  /\ MaxJobs \in Nat /\ MaxShared \in 0..MaxJobs /\ MaxPolls \in Nat /\ Delays \subseteq Nat
  /\ Disconnects \in BOOLEAN

JobIds == 1..MaxJobs
Statuses == {"scheduled", "in progress", "done", "error"} \cup Forced
Job == [status: Statuses, polls: Nat, need: Delays, named: BOOLEAN, ready: BOOLEAN]

VARIABLES
  sharing,\* whether clients ask about jobs that they did not start
  jobs,   \* table exports, by id
  pc,     \* the statement each request is about to execute
  job,    \* the id it is about
  seen,   \* the poll_count a poll has read
  mine,   \* the ids each client was told when it started a job
  answer  \* what each client was last told, and about which job

vars == <<sharing, jobs, pc, job, seen, mine, answer>>

Steps == {"name", "read", "write", "check", "payload"}
Nothing == [job |-> 0, said |-> "nothing"]
Answers == [job: JobIds \cup {0}, said: Statuses \cup {"nothing", "unknown", "refused", "payload"}]

Init ==
  /\ sharing \in BOOLEAN
  /\ jobs = <<>>
  /\ pc = [c \in Clients |-> "idle"]
  /\ job = [c \in Clients |-> 0]
  /\ seen = [c \in Clients |-> 0]
  /\ mine = [c \in Clients |-> {}]
  /\ answer = [c \in Clients |-> Nothing]

-----------------------------------------------------------------------------
At(c, step) == pc[c] = step
GoTo(c, step) == pc' = [pc EXCEPT ![c] = step]
Told(c, said) == answer' = [answer EXCEPT ![c] = [job |-> job[c], said |-> said]]

\* deviation: forgets that an error is final too
FinishedWhenDone(status) == status = "done"
Finished(status) == status \in {"done", "error"}

\* deviation: done one poll early
AdvancedEarly(j, count) ==
  IF count >= j.need THEN [j EXCEPT !.status = "done", !.polls = count, !.ready = TRUE]
                     ELSE [j EXCEPT !.status = "in progress", !.polls = count]

\* deviation: the count is not written back
AdvancedUncounted(j, count) ==
  IF count > j.need THEN [j EXCEPT !.status = "done", !.ready = TRUE] ELSE [j EXCEPT !.status = "in progress"]

\* The row as a poll writes it: ready_at is set once and then kept.
Advanced(j, count) ==
  IF count > j.need THEN [j EXCEPT !.status = "done", !.polls = count, !.ready = TRUE]
                    ELSE [j EXCEPT !.status = "in progress", !.polls = count]

\* deviation: a forced job gets no ready_at
ForcedUnready(j, status) == [j EXCEPT !.status = status]
ForcedTo(j, status) == [j EXCEPT !.status = status, !.ready = j.ready \/ status = "done"]

-----------------------------------------------------------------------------
(* CreateExport: the row, then its file name, then the answer *)

Insert(c, need) ==
  /\ At(c, "idle") /\ Len(jobs) < (IF sharing THEN MaxShared ELSE MaxJobs)
  /\ jobs' = Append(jobs, [status |-> "scheduled", polls |-> 0, need |-> need,
                           named |-> FALSE, ready |-> FALSE])
  /\ job' = [job EXCEPT ![c] = Len(jobs) + 1]
  /\ GoTo(c, "name")
  /\ UNCHANGED <<sharing, seen, mine, answer>>

Named(j) == [j EXCEPT !.named = TRUE]

Name(c) ==
  /\ At(c, "name") /\ GoTo(c, "idle")
  /\ jobs' = [jobs EXCEPT ![job[c]] = Named(jobs[job[c]])]
  /\ mine' = [mine EXCEPT ![c] = mine[c] \cup {job[c]}]
  /\ UNCHANGED <<sharing, job, seen, answer>>

-----------------------------------------------------------------------------
(* Requests about a job *)

MayAsk(c, j) == sharing \/ j \in mine[c]

Ask(c, j) ==
  /\ At(c, "idle") /\ MayAsk(c, j)
  /\ job' = [job EXCEPT ![c] = j]
  /\ GoTo(c, "read") \/ GoTo(c, "check")
  /\ UNCHANGED <<sharing, jobs, seen, mine, answer>>

\* PollExport reads the job; one that is finished is reported as it is.
PollRead(c) ==
  LET j == job[c]
  IN  /\ At(c, "read")
      /\ \/ /\ j \in DOMAIN jobs /\ ~Finished(jobs[j].status)
            /\ seen' = [seen EXCEPT ![c] = jobs[j].polls]
            /\ GoTo(c, "write") /\ UNCHANGED answer
         \/ /\ j \in DOMAIN jobs /\ Finished(jobs[j].status)
            /\ Told(c, jobs[j].status) /\ GoTo(c, "idle") /\ UNCHANGED seen
         \/ /\ j \notin DOMAIN jobs
            /\ Told(c, "unknown") /\ GoTo(c, "idle") /\ UNCHANGED seen
      /\ UNCHANGED <<sharing, jobs, job, mine>>

\* It counts from what it read, and reports what it writes.
PollWrite(c) ==
  LET after == Advanced(jobs[job[c]], seen[c] + 1)
  IN  /\ At(c, "write") /\ GoTo(c, "idle")
      /\ jobs' = [jobs EXCEPT ![job[c]] = after]
      /\ Told(c, after.status)
      /\ seen' = [seen EXCEPT ![c] = 0]
      /\ UNCHANGED <<sharing, job, mine>>

\* SetExportStatus is one statement.
ForceStatus(c, j, status) ==
  /\ At(c, "idle") /\ MayAsk(c, j) /\ j \in DOMAIN jobs /\ jobs[j].polls <= MaxPolls
  /\ jobs' = [jobs EXCEPT ![j] = ForcedTo(jobs[j], status)]
  /\ UNCHANGED <<sharing, pc, job, seen, mine, answer>>

\* ExportPayload looks at the status, then reads the file.
CheckDone(c) ==
  LET j == job[c]
  IN  /\ At(c, "check")
      /\ \/ j \in DOMAIN jobs /\ jobs[j].status = "done" /\ GoTo(c, "payload") /\ UNCHANGED answer
         \/ j \in DOMAIN jobs /\ jobs[j].status # "done" /\ GoTo(c, "idle") /\ Told(c, "refused")
         \/ j \notin DOMAIN jobs /\ GoTo(c, "idle") /\ Told(c, "unknown")
      /\ UNCHANGED <<sharing, jobs, job, seen, mine>>

ReadPayload(c) ==
  /\ At(c, "payload") /\ GoTo(c, "idle")
  /\ Told(c, "payload")
  /\ UNCHANGED <<sharing, jobs, job, seen, mine>>

\* The client goes away; the statement its request is at is not executed.
Abandon(c) ==
  /\ Disconnects /\ pc[c] \in Steps
  /\ GoTo(c, "idle")
  /\ seen' = [seen EXCEPT ![c] = 0]
  /\ UNCHANGED <<sharing, jobs, job, mine, answer>>

-----------------------------------------------------------------------------
Serve(c) == Name(c) \/ PollRead(c) \/ PollWrite(c) \/ CheckDone(c) \/ ReadPayload(c)

Next ==
  \E c \in Clients :
    \/ Serve(c) \/ Abandon(c)
    \/ \E need \in Delays : Insert(c, need)
    \/ \E j \in JobIds : Ask(c, j) \/ \E status \in Forced : ForceStatus(c, j, status)

Spec == Init /\ [][Next]_vars

\* Every handler runs on a goroutine of its own, and somebody keeps polling
\* every job: that loop is what an export is mocked for.
Polled(j) == \E c \in Clients : Ask(c, j) /\ GoTo(c, "read")
FairSpec ==
  /\ Spec
  /\ \A c \in Clients : WF_vars(Serve(c))
  /\ \A j \in JobIds : SF_vars(Polled(j))

-----------------------------------------------------------------------------
(* What must hold *)

\* A client that knows a job's id finds it with its file name.
KnownJobsAreNamed == \A c \in Clients : \A j \in mine[c] : j \in DOMAIN jobs /\ jobs[j].named

\* A job that is done says since when, polled or forced.
DoneJobsAreReady == \A j \in DOMAIN jobs : jobs[j].status = "done" => jobs[j].ready

\* Rows, requests and answers are of their types, and no row is incomplete for
\* those who may know of it, although it takes two statements to make one.
TypeOK ==
  /\ sharing \in BOOLEAN
  /\ jobs \in Seq(Job) /\ Len(jobs) <= MaxJobs
  /\ pc \in [Clients -> Steps \cup {"idle"}]
  /\ job \in [Clients -> JobIds \cup {0}]
  /\ seen \in [Clients -> Nat]
  /\ mine \in [Clients -> SUBSET JobIds]
  /\ answer \in [Clients -> Answers]
  /\ KnownJobsAreNamed /\ DoneJobsAreReady

\* A job is settled when it is finished and no poll that read it earlier is
\* still to be written: from then on it changes only when it is forced.
Settled(j) == jobs[j].status \in {"done", "error"} /\ \A c \in Clients : ~(At(c, "write") /\ job[c] = j)
SettledStaysSettled ==
  [][\A j \in DOMAIN jobs :
       Settled(j) /\ ~(\E c \in Clients, s \in Forced : ForceStatus(c, j, s))
       => Settled(j)' /\ jobs'[j].status = jobs[j].status]_vars

\* "The first PollsBeforeDone polls report in progress; the next one reports
\* done" (export.go:68): a client that was told "done" is not told otherwise.
ToldDone(c) == answer[c].said = "done"
DoneIsFinal ==
  [][\A c \in Clients :
       ToldDone(c) /\ answer'[c] # answer[c] /\ answer'[c].job = answer[c].job
       => answer'[c].said = "payload"]_vars

\* Clients that ask about their own jobs only get what ExportProtocol promises;
\* nothing is claimed of those that share them, see DoneIsFinal.
Abstract(j) == [status |-> j.status, polls |-> j.polls, need |-> j.need]
Protocol == INSTANCE ExportProtocol WITH
  jobs <- IF sharing THEN <<>> ELSE [j \in DOMAIN jobs |-> Abstract(jobs[j])],
  answer <- IF sharing THEN [c \in Clients |-> Nothing] ELSE answer
ImplementsProtocol == Protocol!Spec

\* Polls that overwrite each other delay a job but do not hold it up for ever:
\* once it is no longer forced, and clients wait for their answers, it is
\* finished some day and stays so.
Disturbance == \E c \in Clients : Abandon(c) \/ \E j \in JobIds, s \in Forced : ForceStatus(c, j, s)
EveryExportFinishes ==
  <>[][~Disturbance]_vars =>
    \A j \in JobIds :
      (j \in DOMAIN jobs /\ \E c \in Clients : MayAsk(c, j))
        ~> [](j \in DOMAIN jobs /\ jobs[j].status \in {"done", "error"})
=============================================================================
