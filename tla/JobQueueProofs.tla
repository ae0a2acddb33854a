--------------------------- MODULE JobQueueProofs ---------------------------
(***************************************************************************)
(* Proofs about JobQueue for any number of jobs, processes, overlapping    *)
(* runs and rounds.                                                        *)
(*                                                                         *)
(* The inductive invariant says what the row of a job says by itself       *)
(* (JobsFit), what a run knows of the job it has claimed (RunsFit), and    *)
(* that no two runs have claimed the same job (OneRun).                    *)
(***************************************************************************)
EXTENDS JobQueue, FiniteSetTheorems, TLAPS

JobFits(j) ==
  /\ status[j] \in {"none", "QUEUED"} => attempts[j] = 0 /\ executed[j] = 0
  /\ attempts[j] <= 1 /\ executed[j] <= attempts[j]
  /\ status[j] = "DONE" => executed[j] = 1
  /\ status[j] = "FAILED" => executed[j] = 1 \/ j \in Unknown

JobsFit == \A j \in Jobs : JobFits(j)

Holding(r) == run[r].at \in {"handle", "done", "failed"}

RunFits(r) ==
  /\ run[r].at # "idle" => run[r].left >= 1
  /\ run[r].at = "byId" => run[r].job \in Jobs
  /\ Holding(r) =>
       /\ run[r].job \in Jobs
       /\ status[run[r].job] \notin {"none", "QUEUED"}
       /\ attempts[run[r].job] = 1
       /\ run[r].at = "handle" => executed[run[r].job] = 0
       /\ run[r].at = "done" => executed[run[r].job] = 1
       /\ run[r].at = "failed" => executed[run[r].job] = 1 \/ run[r].job \in Unknown

RunsFit == \A r \in Runs : RunFits(r)

OneRun ==
  \A r, s \in Runs : Holding(r) /\ Holding(s) /\ run[r].job = run[s].job => r = s

Inv == TypeOK /\ JobsFit /\ RunsFit /\ OneRun

-----------------------------------------------------------------------------
\* A run that is idle, or looks for a job.
Looking(x) ==
  /\ x \in Run
  /\ x.at \in {"idle", "next", "byId", "fromTable"}
  /\ x.at # "idle" => x.left >= 1
  /\ x.at = "byId" => x.job \in Jobs

\* Runs that go on looking, or stop, leave what the others know untouched.
LEMMA LookingKeeps ==
  ASSUME Inv, run' \in [Runs -> Run],
         \A r \in Runs : run'[r] = run[r] \/ Looking(run'[r]),
         UNCHANGED <<status, attempts, executed>>
  PROVE  JobsFit' /\ RunsFit' /\ OneRun'
<1>1. \A r \in Runs : Holding(r)' => run'[r] = run[r]
  BY DEF Looking, Holding
<1>2. JobsFit'
  BY DEF Inv, JobsFit, JobFits
<1>3. ASSUME NEW r \in Runs PROVE RunFits(r)'
  <2>1. RunFits(r)
    BY DEF Inv, RunsFit
  <2>2. CASE run'[r] = run[r]
    BY <2>1, <2>2 DEF RunFits, Holding
  <2>3. CASE Looking(run'[r])
    BY <2>3 DEF RunFits, Holding, Looking
  <2> QED BY <2>2, <2>3
<1>4. OneRun'
  <2>1. \A r, s \in Runs : (Holding(r) /\ Holding(s) /\ run[r].job = run[s].job)' =>
          Holding(r) /\ Holding(s) /\ run[r].job = run[s].job
    BY <1>1 DEF Holding
  <2> QED BY <2>1 DEF Inv, OneRun
<1> QED BY <1>2, <1>3, <1>4 DEF RunsFit

\* The next round, or the end of the run.
LEMMA RoundLooks ==
  ASSUME Inv, NEW r \in Runs, run[r].at # "idle", Round(r)
  PROVE  /\ run' \in [Runs -> Run] /\ Looking(run'[r])
         /\ \A s \in Runs : run'[s] = run[s] \/ Looking(run'[s])
<1>1. run \in [Runs -> Run] /\ RunFits(r) /\ Limit \in Nat /\ run[r] \in Run
  BY LimitAssumption DEF Inv, TypeOK, RunsFit
<1>2. run[r].left \in 1..Limit
  BY <1>1 DEF RunFits, Run
<1> DEFINE x == IF run[r].left = 1 THEN Idle
                ELSE [at |-> "next", job |-> None, left |-> run[r].left - 1]
<1>3. x \in Run /\ x.at \in {"idle", "next"} /\ (x.at # "idle" => x.left >= 1)
  <2>1. CASE run[r].left = 1
    BY <1>1, <2>1 DEF Idle, Run
  <2>2. CASE run[r].left # 1
    <3>1. run[r].left - 1 \in 1..Limit
      BY <1>1, <1>2, <2>2
    <3> QED BY <1>1, <2>2, <3>1 DEF Run
  <2> QED BY <2>1, <2>2
<1>4. run' = [run EXCEPT ![r] = x]
  BY DEF Round
<1> HIDE DEF x
<1> QED BY <1>1, <1>3, <1>4 DEF Looking

-----------------------------------------------------------------------------
(* The steps.                                                              *)

\* The queue grows: an insertion.
LEMMA InsertKeeps ==
  ASSUME Inv, NEW j \in Jobs, Insert(j)
  PROVE  Inv'
<1>1. TypeOK
  BY DEF Inv
<1>2. Cardinality({i \in Jobs : status[i] # "none"}) \in Nat
  BY JobAssumption, FS_Subset, FS_CardinalityType
<1>3. TypeOK'
  BY <1>1, <1>2 DEF TypeOK, Insert
<1>4. \A i \in Jobs : status'[i] = IF i = j THEN "QUEUED" ELSE status[i]
  BY <1>1 DEF TypeOK, Insert
<1>5. JobsFit'
  BY <1>4 DEF Inv, JobsFit, JobFits, Insert
<1>6. ASSUME NEW r \in Runs PROVE RunFits(r)'
  BY <1>4 DEF Inv, RunsFit, RunFits, Holding, Insert
<1>7. OneRun'
  BY DEF Inv, OneRun, Holding, Insert
<1> QED BY <1>3, <1>5, <1>6, <1>7 DEF Inv, RunsFit

\* The steps that leave rows and runs alone: pointers and the clock.
LEMMA PointersKeep ==
  ASSUME Inv,
         \/ \E j \in Jobs : Push(j) \/ PushFails(j) \/ BecomeDue(j)
         \/ PointersLost
         \/ UNCHANGED vars
  PROVE  Inv'
<1>1. UNCHANGED <<status, attempts, created, executed, run>>
  BY DEF Push, PushFails, BecomeDue, PointersLost, vars
<1>2. TypeOK'
  <2>1. ASSUME NEW j \in Jobs, Push(j) PROVE TypeOK'
    BY <2>1 DEF Inv, TypeOK, Push
  <2>2. ASSUME NEW j \in Jobs, PushFails(j) \/ BecomeDue(j) PROVE TypeOK'
    BY <2>2 DEF Inv, TypeOK, PushFails, BecomeDue
  <2>3. CASE PointersLost
    BY <2>3 DEF Inv, TypeOK, PointersLost
  <2>4. CASE UNCHANGED vars
    BY <2>4 DEF Inv, TypeOK, vars
  <2> QED BY <2>1, <2>2, <2>3, <2>4
<1> QED BY <1>1, <1>2, LookingKeeps DEF Inv, TypeOK

\* A run starts, pops, fails or dies.
LEMMA SearchKeeps ==
  ASSUME Inv,
         \/ \E r \in Runs : Tick(r) \/ Pop(r) \/ PopFails(r) \/ ClaimFails(r)
         \/ \E p \in Processes : Crash(p)
  PROVE  Inv'
<1>1. /\ UNCHANGED <<status, attempts, executed, created, due, pushing>>
      /\ TypeOK /\ Limit \in Nat /\ Limit >= 1
  <2>1. UNCHANGED <<status, attempts, executed, created, due, pushing>>
    <3>1. ASSUME NEW r \in Runs, Pop(r)
          PROVE  UNCHANGED <<status, attempts, executed, created, due, pushing>>
      BY <3>1 DEF Pop
    <3>2. ASSUME NEW r \in Runs, Tick(r) \/ PopFails(r) \/ ClaimFails(r)
          PROVE  UNCHANGED <<status, attempts, executed, created, due, pushing>>
      BY <3>2 DEF Tick, PopFails, ClaimFails
    <3> QED BY <3>1, <3>2 DEF Crash
  <2> QED BY <2>1, LimitAssumption DEF Inv
<1>2. Looking(Idle)
  BY <1>1 DEF Looking, Idle, Run
<1>3. SUFFICES /\ run' \in [Runs -> Run] /\ pointers' \in Seq(Jobs)
               /\ \A r \in Runs : run'[r] = run[r] \/ Looking(run'[r])
  BY <1>1, LookingKeeps DEF Inv, TypeOK
<1>4. ASSUME NEW r \in Runs, Tick(r) \/ PopFails(r) \/ ClaimFails(r)
      PROVE  /\ run' \in [Runs -> Run] /\ pointers' = pointers
             /\ \A s \in Runs : run'[s] = run[s] \/ Looking(run'[s])
  <2> DEFINE x == [at |-> "next", job |-> None, left |-> Limit]
  <2>1. Looking(x)
    BY <1>1 DEF Looking, Run
  <2>2. \E y \in {x, Idle} : run' = [run EXCEPT ![r] = y]
    BY <1>4 DEF Tick, PopFails, ClaimFails
  <2> HIDE DEF x
  <2> QED BY <1>1, <1>2, <1>4, <2>1, <2>2 DEF TypeOK, Looking, Tick, PopFails, ClaimFails
<1>5. ASSUME NEW r \in Runs, Pop(r)
      PROVE  /\ run' \in [Runs -> Run] /\ pointers' \in Seq(Jobs)
             /\ \A s \in Runs : run'[s] = run[s] \/ Looking(run'[s])
  <2>1. run[r] \in Run /\ run[r].at = "next" /\ run[r].left >= 1
    BY <1>5 DEF Inv, TypeOK, Pop, RunsFit, RunFits
  <2>2. CASE Redis /\ pointers # <<>>
    <3>1. Head(pointers) \in Jobs /\ Tail(pointers) \in Seq(Jobs)
      BY <1>1, <2>2 DEF TypeOK
    <3> DEFINE x == [run[r] EXCEPT !.at = "byId", !.job = Head(pointers)]
    <3>2. run' = [run EXCEPT ![r] = x] /\ pointers' = Tail(pointers)
      BY <1>1, <1>5, <2>2 DEF Pop, TypeOK, Run
    <3>3. Looking(x)
      BY <2>1, <3>1 DEF Looking, Run
    <3> HIDE DEF x
    <3> QED BY <1>1, <3>1, <3>2, <3>3 DEF TypeOK, Looking
  <2>3. CASE ~(Redis /\ pointers # <<>>)
    <3> DEFINE x == [run[r] EXCEPT !.at = "fromTable"]
    <3>1. run' = [run EXCEPT ![r] = x] /\ pointers' = pointers
      BY <1>1, <1>5, <2>3 DEF Pop, TypeOK, Run
    <3>2. Looking(x)
      BY <2>1 DEF Looking, Run
    <3> HIDE DEF x
    <3> QED BY <1>1, <3>1, <3>2 DEF TypeOK, Looking
  <2> QED BY <2>2, <2>3
<1>6. ASSUME NEW p \in Processes, Crash(p)
      PROVE  /\ run' \in [Runs -> Run] /\ pointers' = pointers
             /\ \A s \in Runs : run'[s] = run[s] \/ Looking(run'[s])
  BY <1>1, <1>2, <1>6 DEF TypeOK, Crash, Looking
<1> QED BY <1>1, <1>4, <1>5, <1>6 DEF TypeOK
\* A claim, whose answer may be lost.
LEMMA ClaimKeeps ==
  ASSUME Inv, NEW r \in Runs, NEW j \in Jobs, Claimable(j), Claim(r, j),
         run[r].at \in {"byId", "fromTable"},
         UNCHANGED <<created, due, pushing, pointers, executed>>
  PROVE  Inv'
<1>1. TypeOK /\ run[r] \in Run /\ run[r].left >= 1 /\ Limit \in Nat
  BY LimitAssumption DEF Inv, TypeOK, RunsFit, RunFits
<1>2. status[j] = "QUEUED" /\ attempts[j] = 0 /\ executed[j] = 0
  BY DEF Inv, JobsFit, JobFits, Claimable
<1>3. /\ status' = [status EXCEPT ![j] = "RUNNING"]
      /\ attempts' = [attempts EXCEPT ![j] = 1]
  BY <1>1, <1>2 DEF Claim, TypeOK
<1>4. PICK x \in Run :
        /\ run' = [run EXCEPT ![r] = x]
        /\ x.at = "idle" \/ (x.at = "handle" /\ x.job = j /\ x.left >= 1)
  <2>1. CASE run' = [run EXCEPT ![r].at = "handle", ![r].job = j]
    <3> DEFINE y == [run[r] EXCEPT !.at = "handle", !.job = j]
    <3>1. y \in Run /\ y.at = "handle" /\ y.job = j /\ y.left >= 1
      BY <1>1 DEF Run
    <3>2. run' = [run EXCEPT ![r] = y]
      BY <1>1, <2>1 DEF TypeOK, Run
    <3> HIDE DEF y
    <3> QED BY <3>1, <3>2
  <2>2. CASE run' = [run EXCEPT ![r] = Idle]
    <3>1. Idle \in Run /\ Idle.at = "idle"
      BY LimitAssumption DEF Idle, Run
    <3> QED BY <2>2, <3>1
  <2> QED BY <2>1, <2>2 DEF Claim
<1>5. TypeOK'
  BY <1>1, <1>3, <1>4 DEF TypeOK
<1>6. JobsFit'
  BY <1>1, <1>2, <1>3 DEF Inv, JobsFit, JobFits, TypeOK
<1>7. ASSUME NEW s \in Runs, s # r
      PROVE  run'[s] = run[s] /\ (Holding(s) => run[s].job \in Jobs /\ run[s].job # j)
  BY <1>1, <1>2, <1>4, <1>7 DEF Inv, RunsFit, RunFits, TypeOK
<1>8. run'[r] = x
  BY <1>1, <1>4 DEF TypeOK
<1>9. ASSUME NEW s \in Runs PROVE RunFits(s)'
  <2>1. CASE s = r
    BY <1>1, <1>2, <1>3, <1>4, <1>8, <2>1 DEF RunFits, Holding, TypeOK
  <2>2. CASE s # r
    BY <1>1, <1>3, <1>7, <2>2 DEF Inv, RunsFit, RunFits, Holding, TypeOK
  <2> QED BY <2>1, <2>2
<1>10. OneRun'
  BY <1>4, <1>7, <1>8 DEF Inv, OneRun, Holding
<1> QED BY <1>5, <1>6, <1>9, <1>10 DEF Inv, RunsFit

LEMMA ClaimByIdKeeps ==
  ASSUME Inv, NEW r \in Runs, ClaimById(r)
  PROVE  Inv'
<1>1. run[r].at = "byId" /\ run[r].job \in Jobs
  BY DEF Inv, RunsFit, RunFits, ClaimById
<1>2. CASE Claimable(run[r].job)
  BY <1>1, <1>2, ClaimKeeps DEF ClaimById
<1>3. CASE ~Claimable(run[r].job)
  BY <1>1, <1>3, RoundLooks, LookingKeeps DEF ClaimById, Inv, TypeOK
<1> QED BY <1>2, <1>3

LEMMA ClaimFromTableKeeps ==
  ASSUME Inv, NEW r \in Runs, ClaimFromTable(r)
  PROVE  Inv'
<1>1. ASSUME NEW j \in Jobs, Oldest(j), Claim(r, j)
      PROVE  Inv'
  BY <1>1, ClaimKeeps DEF ClaimFromTable, Oldest
<1>2. CASE run' = [run EXCEPT ![r] = Idle] /\ UNCHANGED <<status, attempts>>
  <2>1. Looking(Idle)
    BY LimitAssumption DEF Looking, Idle, Run
  <2>2. /\ run' \in [Runs -> Run]
        /\ \A s \in Runs : run'[s] = run[s] \/ Looking(run'[s])
    BY <1>2, <2>1 DEF Inv, TypeOK, Looking
  <2> QED BY <1>2, <2>2, LookingKeeps DEF ClaimFromTable, Inv, TypeOK
<1> QED BY <1>1, <1>2 DEF ClaimFromTable

-----------------------------------------------------------------------------
\* A run that holds a job takes it a step further: nobody else holds it.
LEMMA HeldKeeps ==
  ASSUME Inv, NEW r \in Runs, Holding(r),
         NEW at \in {"handle", "done", "failed"},
         run' = [run EXCEPT ![r].at = at],
         status' = status \/ \E o \in {"DONE", "FAILED"} : status' = [status EXCEPT ![run[r].job] = o],
         executed' = executed \/ executed' = [executed EXCEPT ![run[r].job] = 1],
         status'[run[r].job] = "DONE" => executed'[run[r].job] = 1,
         status'[run[r].job] = "FAILED" => executed'[run[r].job] = 1 \/ run[r].job \in Unknown,
         at = "handle" => executed'[run[r].job] = 0,
         at = "done" => executed'[run[r].job] = 1,
         at = "failed" => executed'[run[r].job] = 1 \/ run[r].job \in Unknown,
         UNCHANGED <<attempts, created, due, pushing, pointers>>
  PROVE  Inv'
<1> DEFINE j == run[r].job
<1>1. /\ TypeOK /\ run[r] \in Run /\ run[r].left >= 1 /\ j \in Jobs
      /\ status[j] \notin {"none", "QUEUED"} /\ attempts[j] = 1
  BY DEF Inv, TypeOK, RunsFit, RunFits, Holding
<1>2. PICK x \in Run : run' = [run EXCEPT ![r] = x] /\ x.at = at /\ x.job = j /\ x.left >= 1
  <2> DEFINE y == [run[r] EXCEPT !.at = at]
  <2>1. y \in Run /\ y.at = at /\ y.job = j /\ y.left >= 1
    BY <1>1 DEF Run
  <2>2. run' = [run EXCEPT ![r] = y]
    BY <1>1 DEF TypeOK, Run
  <2> HIDE DEF y
  <2> QED BY <2>1, <2>2
<1>3. TypeOK'
  <2>1. status' \in [Jobs -> {"none", "QUEUED", "RUNNING", "DONE", "FAILED"}]
    <3>1. CASE status' = status
      BY <1>1, <3>1 DEF TypeOK
    <3>2. ASSUME NEW o \in {"DONE", "FAILED"}, status' = [status EXCEPT ![j] = o]
          PROVE  status' \in [Jobs -> {"none", "QUEUED", "RUNNING", "DONE", "FAILED"}]
      BY <1>1, <3>2 DEF TypeOK
    <3> QED BY <3>1, <3>2
  <2>2. executed' \in [Jobs -> Nat]
    BY <1>1 DEF TypeOK
  <2>3. run' \in [Runs -> Run]
    BY <1>1, <1>2 DEF TypeOK
  <2> QED BY <1>1, <2>1, <2>2, <2>3 DEF TypeOK
<1>4. /\ \A i \in Jobs : i # j => status'[i] = status[i] /\ executed'[i] = executed[i]
      /\ status'[j] \notin {"none", "QUEUED"}
      /\ executed'[j] = executed[j] \/ executed'[j] = 1
  BY <1>1 DEF TypeOK
<1>5. ASSUME NEW i \in Jobs PROVE JobFits(i)'
  <2>1. CASE i = j
    BY <1>1, <1>4, <2>1 DEF Inv, JobsFit, JobFits
  <2>2. CASE i # j
    BY <1>4, <2>2 DEF Inv, JobsFit, JobFits
  <2> QED BY <2>1, <2>2
<1>6. ASSUME NEW s \in Runs, s # r
      PROVE  run'[s] = run[s] /\ (Holding(s) => run[s].job \in Jobs /\ run[s].job # j)
  BY <1>1, <1>2, <1>6 DEF Inv, RunsFit, RunFits, OneRun, TypeOK
<1>7. run'[r] = x
  BY <1>1, <1>2 DEF TypeOK
<1>8. ASSUME NEW s \in Runs PROVE RunFits(s)'
  <2>1. CASE s = r
    BY <1>1, <1>2, <1>4, <1>7, <2>1 DEF RunFits, Holding
  <2>2. CASE s # r
    BY <1>4, <1>6, <2>2 DEF Inv, RunsFit, RunFits, Holding
  <2> QED BY <2>1, <2>2
<1>9. OneRun'
  BY <1>2, <1>6, <1>7 DEF Inv, OneRun, Holding
<1> QED BY <1>3, <1>5, <1>8, <1>9 DEF Inv, JobsFit, RunsFit

\* A run that holds a job writes its outcome and lets it go.
LEMMA LetGoKeeps ==
  ASSUME Inv, NEW r \in Runs, Holding(r),
         run' \in [Runs -> Run],
         \A s \in Runs : run'[s] = run[s] \/ Looking(run'[s]),
         Looking(run'[r]),
         status' = status \/ \E o \in {"DONE", "FAILED"} : status' = [status EXCEPT ![run[r].job] = o],
         status'[run[r].job] = "DONE" => executed[run[r].job] = 1,
         status'[run[r].job] = "FAILED" => executed[run[r].job] = 1 \/ run[r].job \in Unknown,
         UNCHANGED <<attempts, created, due, pushing, pointers, executed>>
  PROVE  Inv'
<1> DEFINE j == run[r].job
<1>1. TypeOK /\ j \in Jobs /\ status[j] \notin {"none", "QUEUED"} /\ attempts[j] = 1
  BY DEF Inv, TypeOK, RunsFit, RunFits, Holding
<1>2. TypeOK'
  BY <1>1 DEF TypeOK
<1>3. /\ \A i \in Jobs : i # j => status'[i] = status[i]
      /\ status'[j] \notin {"none", "QUEUED"}
  BY <1>1 DEF TypeOK
<1>4. ASSUME NEW i \in Jobs PROVE JobFits(i)'
  BY <1>1, <1>3 DEF Inv, JobsFit, JobFits
<1>5. ASSUME NEW s \in Runs PROVE RunFits(s)'
  <2>1. CASE Looking(run'[s])
    BY <2>1 DEF RunFits, Holding, Looking
  <2>2. CASE run'[s] = run[s] /\ s # r
    <3>1. Holding(s) => run[s].job \in Jobs /\ run[s].job # j
      BY <2>2 DEF Inv, RunsFit, RunFits, OneRun
    <3> QED BY <1>3, <2>2, <3>1 DEF Inv, RunsFit, RunFits, Holding
  <2> QED BY <2>1, <2>2
<1>6. OneRun'
  <2>1. \A s \in Runs : Holding(s)' => run'[s] = run[s]
    BY DEF Looking, Holding
  <2>2. \A s, t \in Runs : (Holding(s) /\ Holding(t) /\ run[s].job = run[t].job)' =>
          Holding(s) /\ Holding(t) /\ run[s].job = run[t].job
    BY <2>1 DEF Holding
  <2> QED BY <2>2 DEF Inv, OneRun
<1> QED BY <1>2, <1>4, <1>5, <1>6 DEF Inv, JobsFit, RunsFit

\* What a run knows of the job it holds.
LEMMA HeldJob ==
  ASSUME Inv, NEW r \in Runs, Holding(r)
  PROVE  /\ TypeOK /\ run[r].job \in Jobs
         /\ JobFits(run[r].job) /\ RunFits(r)
         /\ status[run[r].job] \in {"RUNNING", "DONE", "FAILED"}
  BY DEF Inv, TypeOK, JobsFit, RunsFit, RunFits

LEMMA HandleKeeps ==
  ASSUME Inv, NEW r \in Runs, Handle(r)
  PROVE  Inv'
<1> DEFINE j == run[r].job
<1>1. Holding(r) /\ run[r].at = "handle"
  BY DEF Handle, Holding
<1>2. /\ TypeOK /\ j \in Jobs /\ executed[j] = 0
      /\ status[j] # "DONE" /\ (status[j] = "FAILED" => j \in Unknown)
  BY <1>1, HeldJob DEF JobFits, RunFits
<1>3. CASE Handled(j) /\ \E at \in {"done", "failed"} : run' = [run EXCEPT ![r].at = at]
  <2>1. executed' = [executed EXCEPT ![j] = 1]
    BY <1>2, <1>3 DEF Handle, Handled, TypeOK
  <2>2. executed'[j] = 1
    BY <1>2, <2>1 DEF TypeOK
  <2> QED BY <1>1, <1>2, <1>3, <2>1, <2>2, HeldKeeps DEF Handle
<1>4. CASE ~Handled(j)
  <2>1. j \in Unknown /\ run' = [run EXCEPT ![r].at = "failed"] /\ UNCHANGED <<executed, status>>
    BY <1>4 DEF Handle, Handled
  <2> QED BY <1>1, <1>2, <2>1, HeldKeeps DEF Handle
<1> QED BY <1>3, <1>4 DEF Handle

LEMMA WriteDoneKeeps ==
  ASSUME Inv, NEW r \in Runs, WriteDone(r)
  PROVE  Inv'
<1> DEFINE j == run[r].job
<1>1. Holding(r) /\ run[r].at = "done" /\ run[r].at # "idle"
  BY DEF WriteDone, Holding
<1>2. TypeOK /\ j \in Jobs /\ executed[j] = 1
  BY <1>1, HeldJob DEF RunFits
<1>3. CASE status' = [status EXCEPT ![j] = "DONE"] /\ Round(r)
  <2>1. Looking(run'[r])
    BY <1>1, <1>3, RoundLooks
  <2> QED BY <1>1, <1>2, <1>3, <2>1, RoundLooks, LetGoKeeps DEF WriteDone
<1>4. CASE /\ status' \in {status, [status EXCEPT ![j] = "DONE"]}
           /\ run' = [run EXCEPT ![r].at = "failed"]
  BY <1>1, <1>2, <1>4, HeldKeeps DEF WriteDone
<1> QED BY <1>3, <1>4 DEF WriteDone

LEMMA WriteFailedKeeps ==
  ASSUME Inv, NEW r \in Runs, WriteFailed(r)
  PROVE  Inv'
<1> DEFINE j == run[r].job
<1>1. Holding(r) /\ run[r].at = "failed" /\ run[r].at # "idle"
  BY DEF WriteFailed, Holding
<1>2. TypeOK /\ j \in Jobs /\ (executed[j] = 1 \/ j \in Unknown) /\ JobFits(j)
  BY <1>1, HeldJob DEF RunFits
<1>3. \/ status' = status
      \/ status' = [status EXCEPT ![j] = "FAILED"] /\ status'[j] = "FAILED"
  BY <1>2 DEF WriteFailed, TypeOK
<1>4. /\ run' \in [Runs -> Run] /\ Looking(run'[r])
      /\ \A s \in Runs : run'[s] = run[s] \/ Looking(run'[s])
  <2>1. CASE Round(r)
    BY <1>1, <2>1, RoundLooks
  <2>2. CASE run' = [run EXCEPT ![r] = Idle]
    <3>1. Looking(Idle)
      BY LimitAssumption DEF Looking, Idle, Run
    <3> QED BY <1>2, <2>2, <3>1 DEF TypeOK, Looking
  <2> QED BY <2>1, <2>2 DEF WriteFailed
<1> QED BY <1>1, <1>2, <1>3, <1>4, LetGoKeeps DEF WriteFailed, JobFits

-----------------------------------------------------------------------------
LEMMA InitInv == Init => Inv
<1> SUFFICES ASSUME Init PROVE Inv
  OBVIOUS
<1>1. Idle \in Run
  BY LimitAssumption DEF Idle, Run
<1>2. TypeOK
  BY <1>1, JobAssumption DEF Init, TypeOK
<1>3. JobsFit
  BY DEF Init, JobsFit, JobFits
<1>4. RunsFit /\ OneRun
  BY DEF Init, RunsFit, RunFits, OneRun, Holding, Idle
<1> QED BY <1>2, <1>3, <1>4 DEF Inv

\* Every step keeps the invariant.
LEMMA NextInv == Inv /\ [Next]_vars => Inv'
<1> SUFFICES ASSUME Inv, [Next]_vars PROVE Inv'
  OBVIOUS
<1>1. CASE UNCHANGED vars
  BY <1>1, PointersKeep
<1>2. CASE \E j \in Jobs : Insert(j)
  BY <1>2, InsertKeeps
<1>3. CASE (\E j \in Jobs : Push(j) \/ PushFails(j) \/ BecomeDue(j)) \/ PointersLost
  BY <1>3, PointersKeep
<1>4. CASE \/ \E r \in Runs : Tick(r) \/ Pop(r) \/ PopFails(r) \/ ClaimFails(r)
           \/ \E p \in Processes : Crash(p)
  BY <1>4, SearchKeeps
<1>5. CASE \E r \in Runs : ClaimById(r) \/ ClaimFromTable(r)
  BY <1>5, ClaimByIdKeeps, ClaimFromTableKeeps
<1>6. CASE \E r \in Runs : Handle(r) \/ WriteDone(r) \/ WriteFailed(r)
  BY <1>6, HandleKeeps, WriteDoneKeeps, WriteFailedKeeps
<1> QED BY <1>1, <1>2, <1>3, <1>4, <1>5, <1>6 DEF Next, RunStep

\* The invariant holds in every behaviour.
LEMMA Invariant == Spec => []Inv
  BY InitInv, NextInv, PTL DEF Spec

(* The variables keep their types.                                         *)
THEOREM TypeCorrect == Spec => []TypeOK
  BY Invariant, PTL DEF Inv

(* However many processes run the loop, with pointers or without, a job is *)
(* claimed at most once and its handler called at most once.               *)
THEOREM ExecutedOnceCorrect == Spec => []ExecutedOnce
<1>1. Inv => ExecutedOnce
  BY DEF Inv, JobsFit, JobFits, ExecutedOnce
<1> QED BY <1>1, Invariant, PTL

(* DONE and FAILED say what has happened, also after lost answers.         *)
THEOREM OutcomeCorrect == Spec => []OutcomeIsTrue
<1>1. Inv => OutcomeIsTrue
  BY DEF Inv, JobsFit, JobFits, OutcomeIsTrue
<1> QED BY <1>1, Invariant, PTL
=============================================================================
