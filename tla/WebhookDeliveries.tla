------------------------- MODULE WebhookDeliveries -------------------------
(***************************************************************************)
(* Outgoing webhooks: the table webhook_deliveries and the runs of         *)
(* deliverPendingOnce, which the API and the worker process start every    *)
(* minute whether or not the previous run has ended                        *)
(* (services/webhook-service.js, repositories/webhook-repository.js).      *)
(*                                                                         *)
(* A run claims a batch of PENDING deliveries and lets a few threads of    *)
(* promises (mapLimit) POST them.  The POST may reach the endpoint though  *)
(* the sender sees a failure, the statement that records the outcome may   *)
(* commit though its answer is lost, and a process may die at any moment.  *)
(***************************************************************************)
EXTENDS Naturals, Sequences, FiniteSets

CONSTANTS
  Deliveries,   \* rows that will be inserted into webhook_deliveries
  Events,       \* calls of enqueueWebhookEvent
  Fanout,       \* Fanout[e]: the deliveries of event e, one per endpoint that wants it
  Processes,    \* processes that run the delivery loop
  Overlap,      \* runs that one process may have going at the same time
  Concurrency,  \* WEBHOOK_CONCURRENCY
  BatchSize,    \* deliveries claimed at once
  MaxAttempts,  \* WEBHOOK_MAX_ATTEMPTS
  None          \* no delivery

ASSUME FanoutAssumption ==
  /\ Fanout \in [Events -> Seq(Deliveries)]
  /\ \A e, f \in Events : \A i \in DOMAIN Fanout[e], j \in DOMAIN Fanout[f] :
       Fanout[e][i] = Fanout[f][j] => e = f /\ i = j
ASSUME LimitAssumption ==
  /\ {Overlap, Concurrency, BatchSize, MaxAttempts} \subseteq Nat \ {0}
  /\ None \notin Deliveries
  /\ IsFiniteSet(Deliveries)

VARIABLES
  next,       \* the place in its fanout that each event inserts next
  created,    \* created_at of each delivery: its place in the order of insertion
  status, attempts,  \* of each delivery
  received,   \* POSTs of each delivery that its endpoint has received
  billed,     \* webhook.sent events billed for each delivery
  items,      \* the claimed deliveries that no thread of a run has taken yet
  thread      \* the threads of each run

vars == <<next, created, status, attempts, received, billed, items, thread>>
rows == <<created, status, attempts>>

Runs    == Processes \X (1..Overlap)
Threads == 1..Concurrency

Off        == [at |-> "off", d |-> None]
Posting(d) == [at |-> "posting", d |-> d]

Thread == {Off} \cup [at : {"posting", "marking", "failing"}, d : Deliveries]

TypeOK ==
  /\ next \in [Events -> Nat \ {0}]
  /\ created \in [Deliveries -> Nat]
  /\ status \in [Deliveries -> {"none", "PENDING", "SENDING", "SENT", "FAILED"}]
  /\ attempts \in [Deliveries -> 0..MaxAttempts]
  /\ received \in [Deliveries -> Nat]
  /\ billed \in [Deliveries -> Nat]
  /\ items \in [Runs -> SUBSET Deliveries]
  /\ thread \in [Runs -> [Threads -> Thread]]

Init ==
  /\ next = [e \in Events |-> 1]
  /\ created = [d \in Deliveries |-> 0]
  /\ status = [d \in Deliveries |-> "none"]
  /\ attempts = [d \in Deliveries |-> 0]
  /\ received = [d \in Deliveries |-> 0]
  /\ billed = [d \in Deliveries |-> 0]
  /\ items = [r \in Runs |-> {}]
  /\ thread = [r \in Runs |-> [k \in Threads |-> Off]]

-----------------------------------------------------------------------------
(* enqueueWebhookEvent inserts one row per endpoint, not in a transaction; *)
(* its callers ignore errors.                                              *)

Inserted == {d \in Deliveries : status[d] # "none"}

Insert(e) ==
  LET d == Fanout[e][next[e]]
  IN  /\ next[e] <= Len(Fanout[e])
      /\ next' = [next EXCEPT ![e] = @ + 1]
      /\ created' = [created EXCEPT ![d] = Cardinality(Inserted)]
      /\ status' = [status EXCEPT ![d] = "PENDING"]
      /\ UNCHANGED <<attempts, received, billed, items, thread>>

\* An error leaves the rest of the fanout out.
InsertFails(e) ==
  /\ next[e] <= Len(Fanout[e])
  /\ next' = [next EXCEPT ![e] = Len(Fanout[e]) + 1]
  /\ UNCHANGED <<rows, received, billed, items, thread>>

-----------------------------------------------------------------------------
(* A run.                                                                  *)

Idle(r) == \A k \in Threads : thread[r][k] = Off

ClaimableIfNotSending(d) == status[d] # "SENDING" /\ attempts[d] < MaxAttempts

Claimable(d) == status[d] = "PENDING" /\ attempts[d] < MaxAttempts

Older(set, d) == {c \in set : created[c] < created[d]}

\* The oldest claimable deliveries, at most BatchSize of them.
Batch ==
  LET claimable == {d \in Deliveries : Claimable(d)}
  IN  {d \in claimable : Cardinality(Older(claimable, d)) < BatchSize}

\* The place of a delivery in the batch.
Place(d) == Cardinality(Older(Batch, d)) + 1

\* What thread k of a new run does.
FirstOf(k) ==
  IF \E d \in Batch : Place(d) = k THEN Posting(CHOOSE d \in Batch : Place(d) = k) ELSE Off

StatusKept == status

MarkedSending == [d \in Deliveries |-> IF d \in Batch THEN "SENDING" ELSE status[d]]

\* claimPending; each thread of mapLimit takes one delivery of the batch.
Claim(r) ==
  /\ Idle(r)
  /\ Batch # {}
  /\ status' = MarkedSending
  /\ items' = [items EXCEPT ![r] = {d \in Batch : Place(d) > Concurrency}]
  /\ thread' = [thread EXCEPT ![r] = [k \in Threads |-> FirstOf(k)]]
  /\ UNCHANGED <<next, created, attempts, received, billed>>

\* The claim commits and its answer is lost.
ClaimLost ==
  /\ Batch # {}
  /\ status' = MarkedSending
  /\ UNCHANGED <<next, created, attempts, received, billed, items, thread>>

Goto(r, k, step) ==
  /\ thread' = [thread EXCEPT ![r][k] = [at |-> step, d |-> thread[r][k].d]]
  /\ UNCHANGED items

\* The thread takes the next delivery of the batch, or ends.
TakeNext(r, k) ==
  \/ /\ items[r] = {}
     /\ thread' = [thread EXCEPT ![r][k] = Off]
     /\ UNCHANGED items
  \/ \E d \in items[r] :
       /\ Older(items[r], d) = {}
       /\ thread' = [thread EXCEPT ![r][k] = Posting(d)]
       /\ items' = [items EXCEPT ![r] = @ \ {d}]

SucceedsAnyhow(reached, ok2xx) == TRUE

\* deliverOne goes on to markSent.
Succeeds(reached, ok2xx) == reached /\ ok2xx

\* The thread takes nothing more.  The others take what is left of the batch,
\* if there are any.
EndThread(r, k) ==
  /\ thread' = [thread EXCEPT ![r][k] = Off]
  /\ items' = IF \A j \in Threads \ {k} : thread[r][j] = Off
                THEN [items EXCEPT ![r] = {}] ELSE items

\* sendPinnedWebhook: the endpoint is reached or not; an answer that is not
\* 2xx, or does not begin in time, counts as a failure.
Post(r, k) ==
  LET d == thread[r][k].d
  IN  /\ thread[r][k].at = "posting"
      /\ \E reached, ok2xx \in BOOLEAN :
           /\ received' = IF reached THEN [received EXCEPT ![d] = @ + 1] ELSE received
           /\ Goto(r, k, IF Succeeds(reached, ok2xx) THEN "marking" ELSE "failing")
      /\ UNCHANGED <<next, rows, billed>>

\* The connection ends after the headers of the answer and before its end: the
\* promise listens to the end of the answer and to errors of the request, and
\* settles on neither.  The thread is never heard of again.
PostBreaksOff(r, k) ==
  /\ thread[r][k].at = "posting"
  /\ received' = [received EXCEPT ![thread[r][k].d] = @ + 1]
  /\ EndThread(r, k)
  /\ UNCHANGED <<next, rows, billed>>

\* markSent, and the billing event, whose failure is swallowed.
MarkSent(r, k) ==
  LET d == thread[r][k].d
  IN  /\ thread[r][k].at = "marking"
      /\ status' = [status EXCEPT ![d] = "SENT"]
      /\ billed' \in {billed, [billed EXCEPT ![d] = @ + 1]}
      /\ TakeNext(r, k)
      /\ UNCHANGED <<next, created, attempts, received>>

\* The database fails, before or after markSent has committed.
MarkSentFails(r, k) ==
  LET d == thread[r][k].d
  IN  /\ thread[r][k].at = "marking"
      /\ status' \in {status, [status EXCEPT ![d] = "SENT"]}
      /\ Goto(r, k, "failing")
      /\ UNCHANGED <<next, created, attempts, received, billed>>

NotCounted(d) == attempts

Counted(d) == [attempts EXCEPT ![d] = @ + 1]

StatusAfterOneTooMany(n) == IF n > MaxAttempts THEN "FAILED" ELSE "PENDING"

StatusAfter(n) == IF n >= MaxAttempts THEN "FAILED" ELSE "PENDING"

\* UPDATE webhook_deliveries SET attempts = attempts + 1, status = CASE ...
Failure(d) ==
  /\ attempts' = Counted(d)
  /\ status' = [status EXCEPT ![d] = StatusAfter(attempts[d] + 1)]

RecordFailure(r, k) ==
  /\ thread[r][k].at = "failing"
  /\ Failure(thread[r][k].d)
  /\ TakeNext(r, k)
  /\ UNCHANGED <<next, created, received, billed>>

\* The database fails once more: deliverOne rejects and this thread ends.
RecordFailureFails(r, k) ==
  /\ thread[r][k].at = "failing"
  /\ \/ Failure(thread[r][k].d)
     \/ UNCHANGED <<status, attempts>>
  /\ EndThread(r, k)
  /\ UNCHANGED <<next, created, received, billed>>

\* The process dies, with all its runs.
Crash(p) ==
  /\ \E n \in 1..Overlap : ~Idle(<<p, n>>)
  /\ items' = [r \in Runs |-> IF r[1] = p THEN {} ELSE items[r]]
  /\ thread' = [r \in Runs |-> IF r[1] = p THEN [k \in Threads |-> Off] ELSE thread[r]]
  /\ UNCHANGED <<next, rows, received, billed>>

-----------------------------------------------------------------------------
ThreadStep(r, k) ==
  \/ Post(r, k) \/ PostBreaksOff(r, k)
  \/ MarkSent(r, k) \/ MarkSentFails(r, k)
  \/ RecordFailure(r, k) \/ RecordFailureFails(r, k)

\* Nothing to insert, to claim or to send.
Quiet ==
  /\ \A e \in Events : next[e] > Len(Fanout[e])
  /\ Batch = {}
  /\ \A r \in Runs : Idle(r)
  /\ UNCHANGED vars

Next ==
  \/ \E e \in Events : Insert(e) \/ InsertFails(e)
  \/ \E r \in Runs : Claim(r)
  \/ ClaimLost
  \/ \E r \in Runs, k \in Threads : ThreadStep(r, k)
  \/ \E p \in Processes : Crash(p)
  \/ Quiet

\* The interval of each process goes on ticking.  A statement ends by its answer
\* or its error; a POST by its answer, its timeout or an error, or it breaks off.
Fairness ==
  /\ \A p \in Processes : WF_vars(\E n \in 1..Overlap : Claim(<<p, n>>))
  /\ \A r \in Runs, k \in Threads : WF_vars(ThreadStep(r, k))

Spec == Init /\ [][Next]_vars /\ Fairness

-----------------------------------------------------------------------------
\* Run r holds delivery d in one of its threads, or in its batch (place 0).
Holds(r, k, d) == IF k = 0 THEN d \in items[r] ELSE thread[r][k].d = d

Held(d) == \E r \in Runs, k \in 0..Concurrency : Holds(r, k, d)

(* However runs overlap, in one process or in two, no delivery is in two   *)
(* hands at a time: status SENDING and SKIP LOCKED are a lock.             *)
OneSender ==
  \A d \in Deliveries : \A r, s \in Runs : \A j, k \in 0..Concurrency :
    Holds(r, j, d) /\ Holds(s, k, d) => r = s /\ j = k

(* An endpoint receives a delivery at most MaxAttempts times, and never    *)
(* more than once above the failures that the table counts, even if        *)
(* answers are lost and processes die.                                     *)
PostsBounded ==
  \A d \in Deliveries : received[d] <= attempts[d] + 1 /\ received[d] <= MaxAttempts

(* SENT is only said of a delivery that its endpoint has received, and     *)
(* FAILED of one that was tried as often as it may be.                     *)
OutcomeIsTrue ==
  \A d \in Deliveries :
    /\ status[d] = "SENT" => received[d] > 0
    /\ status[d] = "FAILED" => attempts[d] = MaxAttempts

(* A business pays for a delivery once, and only for one that stays SENT,  *)
(* although a delivery that was SENT may be tried again.                   *)
BilledOnce ==
  \A d \in Deliveries : billed[d] <= 1 /\ (billed[d] = 1 => status[d] = "SENT")

(* Once nobody works on a delivery that is SENT or FAILED, its status does *)
(* not change any more.                                                    *)
Ended(d) == status[d] \in {"SENT", "FAILED"} /\ ~Held(d)

EndsOnce == [][\A d \in Deliveries : Ended(d) => status'[d] = status[d]]_vars

(* A delivery whose process died, whose failure could not be recorded or   *)
(* whose POST broke off stays SENDING: nothing claims it again.            *)
Abandoned(d) == status[d] = "SENDING" /\ ~Held(d)

(* Every delivery that waits is taken up and comes to an end: it is tried  *)
(* again until it is SENT or FAILED, unless it is abandoned on the way.    *)
EveryDeliveryEnds ==
  \A d \in Deliveries : status[d] = "PENDING" ~> Ended(d) \/ Abandoned(d)
=============================================================================
