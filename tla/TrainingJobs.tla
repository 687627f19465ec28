----------------------------- MODULE TrainingJobs -----------------------------
(***************************************************************************)
(* Training jobs in the Python API.  The trainer and the operators call    *)
(* from request threads; each request reads the job, decides, and replaces *)
(* it with what it read and changed.  A completed job is saved first and   *)
(* the policy it trained second, and the process may be killed in between. *)
(***************************************************************************)
EXTENDS Integers

CONSTANTS Job,           \* training ids, which the client names
          Request,       \* request threads
          MaxIterations, \* iterations of every plan
          MaxCrashes     \* bound on the crashes

VARIABLES job,        \* the record saved for each training id
          registered, \* the jobs whose policy was saved
          request,
          finished,   \* history: the jobs once saved as succeeded
          shared,     \* history: jobs that two requests were on at once
          crashes

vars == <<job, registered, request, finished, shared, crashes>>

JobState == {"queued", "running", "succeeded", "failed", "cancelled"}
JobRecord == [state : JobState, iteration : 0..MaxIterations, checkpoints : Nat]
NoJob == [state |-> "none", iteration |-> 0, checkpoints |-> 0]
Queued == [NoJob EXCEPT !.state = "queued"]
Idle == [pc |-> "idle", job |-> "none", saves |-> NoJob]

Init ==
  /\ job = [j \in Job |-> NoJob] /\ registered = {} /\ request = [r \in Request |-> Idle]
  /\ finished = {} /\ shared = {} /\ crashes = 0

-----------------------------------------------------------------------------
At(r, pc) == request[r].pc = pc
On(r) == request[r].job
Done(r) == request' = [request EXCEPT ![r] = Idle]

(* A request has looked at job j and will save this record.                *)
Begins(r, j, record) ==
  /\ At(r, "idle")
  /\ request' = [request EXCEPT ![r] = [pc |-> "save", job |-> j, saves |-> record]]
  /\ shared' = IF \E q \in Request : On(q) = j THEN shared \cup {j} ELSE shared
  /\ UNCHANGED <<job, registered, finished, crashes>>

(* submit_training_plan: a plan with the id of another job replaces it.    *)
Submits(r) == \E j \in Job : Begins(r, j, Queued)

(* start_training_job                                                      *)
Starts(r) ==
  \E j \in Job : job[j].state = "queued" /\ Begins(r, j, [job[j] EXCEPT !.state = "running"])

(* record_training_checkpoint                                              *)
Checkpoints(r) ==
  \E j \in Job, i \in 1..MaxIterations :
    /\ job[j].state = "running" /\ i > job[j].iteration
    /\ Begins(r, j, [job[j] EXCEPT !.iteration = i, !.checkpoints = @ + 1])

(* A final iteration of zero is taken as it is. *)
CompletesAtZero(r) ==
  \E j \in Job, given \in 0..MaxIterations :
    /\ job[j].state = "running" /\ (given = 0 \/ given >= job[j].iteration)
    /\ Begins(r, j, [job[j] EXCEPT !.state = "succeeded", !.iteration = given])

(* complete_training_job: a final iteration of zero stands for the last.   *)
Completes(r) ==
  \E j \in Job, given \in 0..MaxIterations :
    LET final == IF given = 0 THEN MaxIterations ELSE given
    IN /\ job[j].state = "running" /\ final >= job[j].iteration
       /\ Begins(r, j, [job[j] EXCEPT !.state = "succeeded", !.iteration = final])

(* fail_training_job and cancel_training_job                               *)
Stops(r) ==
  \E j \in Job, s \in {"failed", "cancelled"} :
    job[j].state \in {"queued", "running"} /\ Begins(r, j, [job[j] EXCEPT !.state = s])

SavesJob(r) ==
  /\ At(r, "save")
  /\ job' = [job EXCEPT ![On(r)] = request[r].saves]
  /\ IF request[r].saves.state = "succeeded"
       THEN finished' = finished \cup {On(r)} /\ request' = [request EXCEPT ![r].pc = "register"]
       ELSE Done(r) /\ UNCHANGED finished
  /\ UNCHANGED <<registered, shared, crashes>>

Registers(r) ==
  /\ At(r, "register") /\ Done(r) /\ registered' = registered \cup {On(r)}
  /\ UNCHANGED <<job, finished, shared, crashes>>

Crash ==
  /\ crashes < MaxCrashes /\ crashes' = crashes + 1
  /\ request' = [r \in Request |-> Idle]
  /\ UNCHANGED <<job, registered, finished, shared>>

Next ==
  \/ \E r \in Request : \/ Submits(r) \/ Starts(r) \/ Checkpoints(r) \/ Completes(r) \/ Stops(r)
                        \/ SavesJob(r) \/ Registers(r)
  \/ Crash

Spec == Init /\ [][Next]_vars

-----------------------------------------------------------------------------
(* PROPERTIES *)

(* Every variable has its type.                                            *)
TypeOK ==
  /\ job \in [Job -> JobRecord \cup {NoJob}] /\ registered \subseteq Job
  /\ request \in [Request -> [pc : {"idle", "save", "register"}, job : Job \cup {"none"},
                               saves : JobRecord \cup {NoJob}]]
  /\ finished \subseteq Job /\ shared \subseteq Job /\ crashes \in Nat

(* A trained policy comes from a job that succeeded, and when no request   *)
(* is under way and none was cut off, every job that succeeded has left    *)
(* its policy.                                                             *)
TrainedPoliciesTell ==
  /\ registered \subseteq finished
  /\ crashes = 0 /\ (\A r \in Request : At(r, "idle")) => registered = finished

(* Of a job that requests come to one at a time, an end is final and the   *)
(* iteration only grows, until the plan is submitted again.                *)
LoneJobGoesForward ==
  [][\A j \in Job \ shared : job[j] # NoJob /\ job'[j] # Queued =>
       /\ job'[j].iteration >= job[j].iteration
       /\ job[j].state \in {"succeeded", "failed", "cancelled"} => job'[j] = job[j]]_vars
=============================================================================
