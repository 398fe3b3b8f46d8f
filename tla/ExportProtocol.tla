---------------------------- MODULE ExportProtocol ----------------------------
(***************************************************************************)
(* What the client of an export counts on: every request about a job takes *)
(* effect at one moment.  "The first PollsBeforeDone polls report "in      *)
(* progress"; the next one reports "done"", and the data is there from     *)
(* then on.                                                                *)
(***************************************************************************)
EXTENDS Naturals, Sequences

CONSTANTS
  Clients,
  MaxJobs,  \* bound on the jobs of a behaviour
  Delays,   \* values of polls_before_done
  Forced    \* statuses a job is forced into by a test

JobIds == 1..MaxJobs
Statuses == {"scheduled", "in progress", "done", "error"} \cup Forced
Job == [status: Statuses, polls: Nat, need: Delays]
Nothing == [job |-> 0, said |-> "nothing"]

VARIABLES
  jobs,   \* the jobs, by id
  answer  \* what each client was last told, and about which job

vars == <<jobs, answer>>

Finished(job) == job.status \in {"done", "error"}
Advanced(job) ==
  [status |-> IF job.polls + 1 > job.need THEN "done" ELSE "in progress",
   polls |-> job.polls + 1, need |-> job.need]

Told(c, j, said) == answer' = [answer EXCEPT ![c] = [job |-> j, said |-> said]]

Init == jobs = <<>> /\ answer = [c \in Clients |-> Nothing]

Start(need) ==
  /\ Len(jobs) < MaxJobs
  /\ jobs' = Append(jobs, [status |-> "scheduled", polls |-> 0, need |-> need])
  /\ UNCHANGED answer

Poll(c, j) ==
  \/ Finished(jobs[j]) /\ jobs' = jobs /\ Told(c, j, jobs[j].status)
  \/ /\ ~Finished(jobs[j])
     /\ jobs' = [jobs EXCEPT ![j] = Advanced(jobs[j])]
     /\ Told(c, j, Advanced(jobs[j]).status)

Force(j, status) == jobs' = [jobs EXCEPT ![j] = [jobs[j] EXCEPT !.status = status]] /\ UNCHANGED answer

Fetch(c, j) ==
  /\ Told(c, j, IF jobs[j].status = "done" THEN "payload" ELSE "refused")
  /\ UNCHANGED jobs

Next ==
  \/ \E need \in Delays : Start(need)
  \/ \E c \in Clients, j \in DOMAIN jobs : Poll(c, j) \/ Fetch(c, j) \/ \E s \in Forced : Force(j, s)

Spec == Init /\ [][Next]_vars
=============================================================================
