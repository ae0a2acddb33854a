------------------------------ MODULE JobQueue ------------------------------
(***************************************************************************)
(* Background jobs: the table background_jobs, the optional Redis list of  *)
(* pointers to it, and the runs of processPendingJobsOnce that the API and *)
(* the worker process start at an interval (services/job-service.js).      *)
(*                                                                         *)
(* A job is inserted first and its pointer pushed afterwards.  A run pops  *)
(* pointers while there are any and claims the job of each; then it claims *)
(* the oldest job that is due.  Both ways lead to the same jobs.           *)
(***************************************************************************)
EXTENDS Integers, Sequences, FiniteSets

CONSTANTS
  Jobs,       \* rows that will be inserted into background_jobs
  Delayed,    \* jobs with a run_after in the future
  Unknown,    \* jobs whose job_type has no handler
  Redis,      \* TRUE: JOB_QUEUE_DRIVER is redis
  Processes,  \* processes that run the job loop
  Overlap,    \* runs that one process may have going at the same time
  Limit,      \* JOB_WORKER_BATCH_SIZE
  None        \* no job

ASSUME JobAssumption ==
  /\ Delayed \subseteq Jobs /\ Unknown \subseteq Jobs
  /\ None \notin Jobs /\ IsFiniteSet(Jobs)
ASSUME LimitAssumption == {Overlap, Limit} \subseteq Nat \ {0} /\ Redis \in BOOLEAN

VARIABLES
  status,    \* of each job
  attempts,  \* of each job: how often it was claimed
  created,   \* created_at of each job: its place in the order of insertion
  due,       \* jobs whose run_after has come
  pushing,   \* jobs inserted by a request that has their pointer still to push
  pointers,  \* the Redis list, the next to pop first
  executed,  \* how often the handler of each job was called
  run        \* the runs of processPendingJobsOnce

vars == <<status, attempts, created, due, pushing, pointers, executed, run>>

Runs == Processes \X (1..Overlap)

Run ==
  [at : {"idle", "next", "byId", "fromTable", "handle", "done", "failed"},
   job : Jobs \cup {None}, left : 0..Limit]

Idle == [at |-> "idle", job |-> None, left |-> 0]

TypeOK ==
  /\ status \in [Jobs -> {"none", "QUEUED", "RUNNING", "DONE", "FAILED"}]
  /\ attempts \in [Jobs -> Nat]
  /\ created \in [Jobs -> Nat]
  /\ due \subseteq Jobs
  /\ pushing \subseteq Jobs
  /\ pointers \in Seq(Jobs)
  /\ executed \in [Jobs -> Nat]
  /\ run \in [Runs -> Run]

Init ==
  /\ status = [j \in Jobs |-> "none"]
  /\ attempts = [j \in Jobs |-> 0]
  /\ created = [j \in Jobs |-> 0]
  /\ due = Jobs \ Delayed
  /\ pushing = {}
  /\ pointers = <<>>
  /\ executed = [j \in Jobs |-> 0]
  /\ run = [r \in Runs |-> Idle]

-----------------------------------------------------------------------------
(* enqueueJob.                                                             *)

Insert(j) ==
  /\ status[j] = "none"
  /\ status' = [status EXCEPT ![j] = "QUEUED"]
  /\ created' = [created EXCEPT ![j] = Cardinality({i \in Jobs : status[i] # "none"})]
  /\ pushing' = IF Redis /\ j \notin Delayed THEN pushing \cup {j} ELSE pushing
  /\ UNCHANGED <<attempts, due, pointers, executed, run>>

Push(j) ==
  /\ j \in pushing
  /\ pushing' = pushing \ {j}
  /\ pointers' = Append(pointers, j)
  /\ UNCHANGED <<status, attempts, created, due, executed, run>>

\* Redis refuses the pointer, or the process dies before it is pushed.
PushFails(j) ==
  /\ j \in pushing
  /\ pushing' = pushing \ {j}
  /\ UNCHANGED <<status, attempts, created, due, pointers, executed, run>>

\* Redis restarts without its list.
PointersLost ==
  /\ pointers # <<>>
  /\ pointers' = <<>>
  /\ UNCHANGED <<status, attempts, created, due, pushing, executed, run>>

BecomeDue(j) ==
  /\ j \notin due
  /\ due' = due \cup {j}
  /\ UNCHANGED <<status, attempts, created, pushing, pointers, executed, run>>

-----------------------------------------------------------------------------
(* processPendingJobsOnce.                                                 *)

\* The interval starts a run, as many as may overlap.
Tick(r) ==
  /\ run[r].at = "idle"
  /\ run' = [run EXCEPT ![r] = [at |-> "next", job |-> None, left |-> Limit]]
  /\ UNCHANGED <<status, attempts, created, due, pushing, pointers, executed>>

\* The loop of a run goes round, its job done; after Limit rounds it ends.
Round(r) ==
  run' = [run EXCEPT ![r] = IF run[r].left = 1 THEN Idle
                            ELSE [at |-> "next", job |-> None, left |-> run[r].left - 1]]

\* claimNextJob pops a pointer; the table comes when there is none.
Pop(r) ==
  /\ run[r].at = "next"
  /\ IF Redis /\ pointers # <<>>
     THEN /\ run' = [run EXCEPT ![r].at = "byId", ![r].job = Head(pointers)]
          /\ pointers' = Tail(pointers)
     ELSE /\ run' = [run EXCEPT ![r].at = "fromTable"]
          /\ UNCHANGED pointers
  /\ UNCHANGED <<status, attempts, created, due, pushing, executed>>

\* Redis does not answer: the run ends, without a look at the table.
PopFails(r) ==
  /\ Redis
  /\ run[r].at = "next"
  /\ run' = [run EXCEPT ![r] = Idle]
  /\ UNCHANGED <<status, attempts, created, due, pushing, pointers, executed>>

\* The database refuses the claim: the run ends, and a popped pointer is gone.
ClaimFails(r) ==
  /\ run[r].at \in {"byId", "fromTable"}
  /\ run' = [run EXCEPT ![r] = Idle]
  /\ UNCHANGED <<status, attempts, created, due, pushing, pointers, executed>>

ClaimableUnlessEnded(j) == status[j] \in {"QUEUED", "RUNNING"} /\ j \in due

Claimable(j) == status[j] = "QUEUED" /\ j \in due

\* The job becomes RUNNING.  When the answer of the database is lost the run
\* ends, and the job stays as it is.
Claim(r, j) ==
  /\ status' = [status EXCEPT ![j] = "RUNNING"]
  /\ attempts' = [attempts EXCEPT ![j] = @ + 1]
  /\ \/ run' = [run EXCEPT ![r].at = "handle", ![r].job = j]
     \/ run' = [run EXCEPT ![r] = Idle]

\* A pointer to a job that was claimed meanwhile is taken for a job of an
\* unknown type, which counts as processed.
ClaimById(r) ==
  LET j == run[r].job
  IN  /\ run[r].at = "byId"
      /\ IF Claimable(j) THEN Claim(r, j)
                         ELSE Round(r) /\ UNCHANGED <<status, attempts>>
      /\ UNCHANGED <<created, due, pushing, pointers, executed>>

OldestWithoutRedis(j) ==
  ~Redis /\ Claimable(j) /\ \A i \in Jobs : Claimable(i) => created[j] <= created[i]

Oldest(j) == Claimable(j) /\ \A i \in Jobs : Claimable(i) => created[j] <= created[i]

ClaimFromTable(r) ==
  /\ run[r].at = "fromTable"
  /\ \/ \E j \in Jobs : Oldest(j) /\ Claim(r, j)
     \/ /\ \A j \in Jobs : ~Oldest(j)
        /\ run' = [run EXCEPT ![r] = Idle]
        /\ UNCHANGED <<status, attempts>>
  /\ UNCHANGED <<created, due, pushing, pointers, executed>>

HandledAnyhow(j) == TRUE

Handled(j) == j \notin Unknown

\* The handler succeeds or throws; without a handler the job has failed.
Handle(r) ==
  LET j == run[r].job
  IN  /\ run[r].at = "handle"
      /\ \/ /\ Handled(j)
            /\ executed' = [executed EXCEPT ![j] = IF j \in Unknown THEN @ ELSE @ + 1]
            /\ \E outcome \in {"done", "failed"} : run' = [run EXCEPT ![r].at = outcome]
         \/ /\ ~Handled(j)
            /\ run' = [run EXCEPT ![r].at = "failed"]
            /\ UNCHANGED executed
      /\ UNCHANGED <<status, attempts, created, due, pushing, pointers>>

\* UPDATE background_jobs SET status='DONE'; when the database fails, whether
\* it has committed or not, the job counts as failed.
WriteDone(r) ==
  /\ run[r].at = "done"
  /\ \/ status' = [status EXCEPT ![run[r].job] = "DONE"] /\ Round(r)
     \/ /\ status' \in {status, [status EXCEPT ![run[r].job] = "DONE"]}
        /\ run' = [run EXCEPT ![r].at = "failed"]
  /\ UNCHANGED <<attempts, created, due, pushing, pointers, executed>>

\* UPDATE background_jobs SET status='FAILED'; when the database fails here, the
\* run ends.
WriteFailed(r) ==
  /\ run[r].at = "failed"
  /\ \/ status' = [status EXCEPT ![run[r].job] = "FAILED"] /\ Round(r)
     \/ /\ status' \in {status, [status EXCEPT ![run[r].job] = "FAILED"]}
        /\ run' = [run EXCEPT ![r] = Idle]
  /\ UNCHANGED <<attempts, created, due, pushing, pointers, executed>>

\* The process dies, with all its runs.
Crash(p) ==
  /\ \E n \in 1..Overlap : run[<<p, n>>].at # "idle"
  /\ run' = [r \in Runs |-> IF r[1] = p THEN Idle ELSE run[r]]
  /\ UNCHANGED <<status, attempts, created, due, pushing, pointers, executed>>

-----------------------------------------------------------------------------
RunStep(r) ==
  Pop(r) \/ ClaimById(r) \/ ClaimFromTable(r) \/ Handle(r) \/ WriteDone(r) \/ WriteFailed(r)

Next ==
  \/ \E j \in Jobs : Insert(j) \/ Push(j) \/ PushFails(j) \/ BecomeDue(j)
  \/ PointersLost
  \/ \E r \in Runs : Tick(r) \/ RunStep(r) \/ PopFails(r) \/ ClaimFails(r)
  \/ \E p \in Processes : Crash(p)

\* Time passes, the intervals tick, and what a run has begun goes on or fails.
\* Redis, the database and the processes may fail again and again, but not every
\* time that a run is about to look at the list or at the table.
Fairness ==
  /\ \A j \in Jobs : WF_vars(BecomeDue(j))
  /\ \A r \in Runs :
       /\ WF_vars(Tick(r)) /\ WF_vars(RunStep(r))
       /\ SF_vars(Pop(r)) /\ SF_vars(ClaimFromTable(r))

Spec == Init /\ [][Next]_vars /\ Fairness

-----------------------------------------------------------------------------
Held(j) == \E r \in Runs : run[r].job = j /\ run[r].at \in {"handle", "done", "failed"}

(* Whichever ways lead to a job, and however runs overlap, it is claimed   *)
(* once and its handler called once, for there is no retry.                *)
ExecutedOnce == \A j \in Jobs : attempts[j] <= 1 /\ executed[j] <= attempts[j]

(* DONE is only said of a job whose handler was called, and FAILED of one  *)
(* that was tried, or that nobody knows.                                   *)
OutcomeIsTrue ==
  \A j \in Jobs :
    /\ status[j] = "DONE" => executed[j] = 1
    /\ status[j] = "FAILED" => executed[j] = 1 \/ j \in Unknown

(* A job that died in somebody's hands stays RUNNING.                      *)
Abandoned(j) == status[j] = "RUNNING" /\ ~Held(j)

Ended(j) == status[j] \in {"DONE", "FAILED"} /\ ~Held(j)

(* A job that is due ends, unless it is abandoned: the table finds it also *)
(* when its pointer was never pushed, was lost, or was taken by a process  *)
(* that died.                                                              *)
EveryJobEnds ==
  \A j \in Jobs : status[j] = "QUEUED" ~> Ended(j) \/ Abandoned(j)
=============================================================================
