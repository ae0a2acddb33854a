---------------------- MODULE WebhookDeliveriesProofs ----------------------
(***************************************************************************)
(* Proofs about WebhookDeliveries for any number of deliveries, endpoints, *)
(* processes, overlapping runs and threads.                                *)
(*                                                                         *)
(* The inductive invariant says of every delivery in whose hands it is     *)
(* (OneSender), what those hands know about its row (Hands), what its row  *)
(* says by itself (RowsFit), and that what an event has still to insert is *)
(* not in the table yet (Fresh).                                           *)
(***************************************************************************)
EXTENDS WebhookDeliveries, FiniteSetTheorems, TLAPS

\* What an event has not inserted yet is not in the table.
Fresh ==
  \A e \in Events : \A i \in DOMAIN Fanout[e] :
    i >= next[e] => status[Fanout[e][i]] = "none"

\* A row by itself.
RowFits(d) ==
  /\ status[d] = "none" => received[d] = 0 /\ attempts[d] = 0 /\ billed[d] = 0
  /\ status[d] = "PENDING" => received[d] <= attempts[d] /\ attempts[d] < MaxAttempts
  /\ status[d] = "SENT" => received[d] > 0
  /\ status[d] = "FAILED" => attempts[d] = MaxAttempts
  /\ received[d] <= attempts[d] + 1
  /\ received[d] <= MaxAttempts
  /\ billed[d] <= 1
  /\ billed[d] = 1 => status[d] = "SENT"

RowsFit == \A d \in Deliveries : RowFits(d)

\* What is known of a delivery in a batch, or in a thread at a step.
Known(at, d) ==
  /\ attempts[d] < MaxAttempts
  /\ billed[d] = 0
  /\ at = "posting" => status[d] = "SENDING" /\ received[d] <= attempts[d]
  /\ at = "marking" => status[d] = "SENDING" /\ received[d] > 0
  /\ at = "failing" => status[d] \in {"SENDING", "SENT"}

Step(r, k) == IF k = 0 THEN "posting" ELSE thread[r][k].at

Hands ==
  \A r \in Runs : \A k \in 0..Concurrency : \A d \in Deliveries :
    Holds(r, k, d) => Known(Step(r, k), d)

Inv == TypeOK /\ Fresh /\ RowsFit /\ OneSender /\ Hands

-----------------------------------------------------------------------------
\* The operations on threads, in terms of who holds what.
\* A thread that is not off holds a delivery and is at one of the steps.
LEMMA ThreadHolds ==
  ASSUME Inv, NEW r \in Runs, NEW k \in Threads, thread[r][k].at # "off"
  PROVE  /\ thread[r][k].d \in Deliveries
         /\ thread[r][k].at \in {"posting", "marking", "failing"}
         /\ Holds(r, k, thread[r][k].d)
         /\ Known(thread[r][k].at, thread[r][k].d)
         /\ \A c \in Deliveries : Holds(r, k, c) <=> c = thread[r][k].d
<1>1. thread[r][k] \in Thread
  BY DEF Inv, TypeOK
<1>2. k # 0 /\ k \in 0..Concurrency
  BY LimitAssumption DEF Threads
<1>3. thread[r][k].d \in Deliveries /\ thread[r][k].at \in {"posting", "marking", "failing"}
  BY <1>1 DEF Thread, Off
<1>4. Holds(r, k, thread[r][k].d)
  BY <1>2 DEF Holds
<1>5. Known(thread[r][k].at, thread[r][k].d)
  BY <1>2, <1>3, <1>4 DEF Inv, Hands, Step
<1> QED BY <1>2, <1>3, <1>4, <1>5 DEF Holds

\* A thread that goes to another step keeps its delivery.
LEMMA GotoHolds ==
  ASSUME Inv, NEW r \in Runs, NEW k \in Threads, thread[r][k].at # "off",
         NEW step \in {"posting", "marking", "failing"}, Goto(r, k, step)
  PROVE  /\ thread' \in [Runs -> [Threads -> Thread]] /\ items' \in [Runs -> SUBSET Deliveries]
         /\ \A s \in Runs : \A j \in 0..Concurrency : \A c \in Deliveries :
              /\ Holds(s, j, c)' <=> Holds(s, j, c)
              /\ ~(s = r /\ j = k) => Step(s, j)' = Step(s, j)
         /\ Step(r, k)' = step
<1>1. thread \in [Runs -> [Threads -> Thread]] /\ items \in [Runs -> SUBSET Deliveries]
  BY DEF Inv, TypeOK
<1>2. thread[r][k].d \in Deliveries
  BY ThreadHolds
<1>3. k # 0
  BY LimitAssumption DEF Threads
<1>4. [at |-> step, d |-> thread[r][k].d] \in Thread
  BY <1>2 DEF Thread
<1>5. \A s \in Runs : \A j \in Threads :
        thread'[s][j] = IF s = r /\ j = k THEN [at |-> step, d |-> thread[r][k].d] ELSE thread[s][j]
  BY <1>1 DEF Goto
<1>6. thread' \in [Runs -> [Threads -> Thread]]
  BY <1>1, <1>4 DEF Goto
<1>7. \A j \in 0..Concurrency : j = 0 \/ j \in Threads
  BY LimitAssumption DEF Threads
<1>8. items' = items
  BY DEF Goto
<1> QED BY <1>1, <1>3, <1>5, <1>6, <1>7, <1>8 DEF Holds, Step

\* A thread that takes its next delivery takes it from the batch.
LEMMA TakeNextHolds ==
  ASSUME Inv, NEW r \in Runs, NEW k \in Threads, TakeNext(r, k)
  PROVE  /\ thread' \in [Runs -> [Threads -> Thread]] /\ items' \in [Runs -> SUBSET Deliveries]
         /\ \A s \in Runs : \A j \in 0..Concurrency : \A c \in Deliveries :
              Holds(s, j, c)' =>
                \/ Holds(s, j, c) /\ ~(s = r /\ j = k) /\ Step(s, j)' = Step(s, j)
                \/ s = r /\ j = k /\ Step(s, j)' = "posting" /\ Holds(r, 0, c) /\ ~Holds(r, 0, c)'
<1>1. thread \in [Runs -> [Threads -> Thread]] /\ items \in [Runs -> SUBSET Deliveries]
  BY DEF Inv, TypeOK
<1>2. \A j \in 0..Concurrency : j = 0 \/ j \in Threads
  BY LimitAssumption DEF Threads
<1>3. k # 0
  BY LimitAssumption DEF Threads
<1>4. CASE /\ items[r] = {}
           /\ thread' = [thread EXCEPT ![r][k] = Off]
           /\ UNCHANGED items
  <2>1. \A s \in Runs : \A j \in Threads :
          thread'[s][j] = IF s = r /\ j = k THEN Off ELSE thread[s][j]
    BY <1>1, <1>4
  <2>2. thread' \in [Runs -> [Threads -> Thread]]
    BY <1>1, <1>4 DEF Thread
  <2>3. \A c \in Deliveries : Off.d # c
    BY LimitAssumption DEF Off
  <2> QED BY <1>1, <1>2, <1>3, <1>4, <2>1, <2>2, <2>3 DEF Holds, Step
<1>5. ASSUME NEW d \in items[r],
             thread' = [thread EXCEPT ![r][k] = Posting(d)],
             items' = [items EXCEPT ![r] = @ \ {d}]
      PROVE  /\ thread' \in [Runs -> [Threads -> Thread]] /\ items' \in [Runs -> SUBSET Deliveries]
             /\ \A s \in Runs : \A j \in 0..Concurrency : \A c \in Deliveries :
                  Holds(s, j, c)' =>
                    \/ Holds(s, j, c) /\ ~(s = r /\ j = k) /\ Step(s, j)' = Step(s, j)
                    \/ s = r /\ j = k /\ Step(s, j)' = "posting" /\ Holds(r, 0, c) /\ ~Holds(r, 0, c)'
  <2>1. d \in Deliveries /\ Posting(d) \in Thread /\ Posting(d).d = d /\ Posting(d).at = "posting"
    BY <1>1, <1>5 DEF Posting, Thread
  <2>2. \A s \in Runs : \A j \in Threads :
          thread'[s][j] = IF s = r /\ j = k THEN Posting(d) ELSE thread[s][j]
    BY <1>1, <1>5
  <2>3. thread' \in [Runs -> [Threads -> Thread]] /\ items' \in [Runs -> SUBSET Deliveries]
    BY <1>1, <1>5, <2>1
  <2>4. \A s \in Runs : items'[s] = IF s = r THEN items[r] \ {d} ELSE items[s]
    BY <1>1, <1>5
  <2>5. ASSUME NEW s \in Runs, NEW j \in 0..Concurrency, NEW c \in Deliveries, Holds(s, j, c)'
        PROVE  \/ Holds(s, j, c) /\ ~(s = r /\ j = k) /\ Step(s, j)' = Step(s, j)
               \/ s = r /\ j = k /\ Step(s, j)' = "posting" /\ Holds(r, 0, c) /\ ~Holds(r, 0, c)'
    BY <1>2, <1>3, <1>5, <2>1, <2>2, <2>4, <2>5 DEF Holds, Step
  <2> QED BY <2>3, <2>5
<1> QED BY <1>4, <1>5 DEF TakeNext

-----------------------------------------------------------------------------
\* The row of a delivery does not change.
SameRow(d) ==
  /\ status'[d] = status[d] /\ attempts'[d] = attempts[d]
  /\ received'[d] = received[d] /\ billed'[d] = billed[d]

\* A step after which everybody holds at most what they held, at the same
\* step, and with the same row, keeps OneSender and Hands.
LEMMA KeptInHands ==
  ASSUME Inv,
         \A s \in Runs : \A j \in 0..Concurrency : \A c \in Deliveries :
           Holds(s, j, c)' => Holds(s, j, c) /\ Step(s, j)' = Step(s, j) /\ SameRow(c)
  PROVE  OneSender' /\ Hands'
<1>1. OneSender'
  BY DEF Inv, OneSender
<1>2. Hands'
  <2> SUFFICES ASSUME NEW s \in Runs, NEW j \in 0..Concurrency, NEW c \in Deliveries, Holds(s, j, c)'
               PROVE  Known(Step(s, j), c)'
    BY DEF Hands
  <2>1. Known(Step(s, j), c) /\ Step(s, j)' = Step(s, j) /\ SameRow(c)
    BY DEF Inv, Hands
  <2> QED BY <2>1 DEF Known, SameRow
<1> QED BY <1>1, <1>2

\* So does a thread that goes to its next step and knows what it must there.
LEMMA GotoInHands ==
  ASSUME Inv, NEW r \in Runs, NEW k \in Threads, thread[r][k].at # "off",
         NEW step \in {"posting", "marking", "failing"}, Goto(r, k, step),
         \A c \in Deliveries : c # thread[r][k].d => SameRow(c),
         Known(step, thread[r][k].d)'
  PROVE  OneSender' /\ Hands'
<1>1. OneSender /\ Hands
  BY DEF Inv
<1>2. k \in 0..Concurrency
  BY LimitAssumption DEF Threads
<1>3. OneSender'
  BY <1>1, GotoHolds DEF OneSender
<1>4. thread'[r][k].d = thread[r][k].d
  BY DEF Goto, Inv, TypeOK
<1>5. Hands'
  <2> SUFFICES ASSUME NEW s \in Runs, NEW j \in 0..Concurrency, NEW c \in Deliveries, Holds(s, j, c)'
               PROVE  Known(Step(s, j), c)'
    BY DEF Hands
  <2>1. Holds(s, j, c)
    BY GotoHolds
  <2>2. CASE s = r /\ j = k
    <3>1. c = thread[r][k].d
      BY <2>1, <2>2, ThreadHolds
    <3>2. Step(s, j)' = step
      BY <2>2, GotoHolds
    <3> QED BY <1>4, <3>1, <3>2 DEF Known
  <2>3. CASE ~(s = r /\ j = k)
    <3>1. c # thread[r][k].d
      BY <1>1, <1>2, <2>1, <2>3, ThreadHolds DEF OneSender
    <3>2. SameRow(c) /\ Step(s, j)' = Step(s, j) /\ Known(Step(s, j), c)
      BY <1>1, <2>1, <2>3, <3>1, GotoHolds DEF Hands
    <3> QED BY <3>2 DEF Known, SameRow
  <2> QED BY <2>2, <2>3
<1> QED BY <1>3, <1>5

\* So does a thread that is done with its delivery and takes the next one.
LEMMA TakeNextInHands ==
  ASSUME Inv, NEW r \in Runs, NEW k \in Threads, thread[r][k].at # "off", TakeNext(r, k),
         \A c \in Deliveries : c # thread[r][k].d => SameRow(c)
  PROVE  OneSender' /\ Hands'
<1>1. OneSender /\ Hands
  BY DEF Inv
<1>2. k \in 0..Concurrency /\ 0 \in 0..Concurrency /\ k # 0
  BY LimitAssumption DEF Threads
<1>3. OneSender'
  <2> SUFFICES ASSUME NEW c \in Deliveries, NEW s \in Runs, NEW t \in Runs,
                      NEW i \in 0..Concurrency, NEW j \in 0..Concurrency,
                      Holds(s, i, c)', Holds(t, j, c)'
               PROVE  s = t /\ i = j
    BY DEF OneSender
  <2>1. \/ Holds(s, i, c)
        \/ s = r /\ i = k /\ Holds(r, 0, c) /\ ~Holds(r, 0, c)'
    BY TakeNextHolds
  <2>2. \/ Holds(t, j, c)
        \/ t = r /\ j = k /\ Holds(r, 0, c) /\ ~Holds(r, 0, c)'
    BY TakeNextHolds
  <2> QED BY <1>1, <1>2, <2>1, <2>2 DEF OneSender
<1>4. Hands'
  <2> SUFFICES ASSUME NEW s \in Runs, NEW j \in 0..Concurrency, NEW c \in Deliveries, Holds(s, j, c)'
               PROVE  Known(Step(s, j), c)'
    BY DEF Hands
  <2>1. CASE Holds(s, j, c) /\ ~(s = r /\ j = k) /\ Step(s, j)' = Step(s, j)
    <3>1. c # thread[r][k].d
      BY <1>1, <1>2, <2>1, ThreadHolds DEF OneSender
    <3>2. SameRow(c) /\ Known(Step(s, j), c)
      BY <1>1, <2>1, <3>1 DEF Hands
    <3> QED BY <2>1, <3>2 DEF Known, SameRow
  <2>2. CASE s = r /\ j = k /\ Step(s, j)' = "posting" /\ Holds(r, 0, c)
    <3>1. c # thread[r][k].d
      BY <1>1, <1>2, <2>2, ThreadHolds DEF OneSender
    <3>2. SameRow(c) /\ Known("posting", c)
      BY <1>1, <1>2, <2>2, <3>1 DEF Hands, Step
    <3> QED BY <2>2, <3>2 DEF Known, SameRow
  <2> QED BY <2>1, <2>2, TakeNextHolds
<1> QED BY <1>3, <1>4

\* So does a thread that ends, and whose run may end with it.
LEMMA EndThreadInHands ==
  ASSUME Inv, NEW r \in Runs, NEW k \in Threads, thread[r][k].at # "off", EndThread(r, k),
         \A c \in Deliveries : c # thread[r][k].d => SameRow(c)
  PROVE  /\ OneSender' /\ Hands'
         /\ thread' \in [Runs -> [Threads -> Thread]] /\ items' \in [Runs -> SUBSET Deliveries]
<1>1. TypeOK /\ OneSender
  BY DEF Inv
<1>2. /\ thread' = [thread EXCEPT ![r][k] = Off]
      /\ items' = [items EXCEPT ![r] = {}] \/ items' = items
  BY DEF EndThread
<1>3. \A s \in Runs : \A j \in Threads :
        thread'[s][j] = IF s = r /\ j = k THEN Off ELSE thread[s][j]
  BY <1>1, <1>2 DEF TypeOK
<1>4. thread' \in [Runs -> [Threads -> Thread]] /\ items' \in [Runs -> SUBSET Deliveries]
  BY <1>1, <1>2 DEF TypeOK, Thread
<1>5. \A s \in Runs : items'[s] \subseteq items[s]
  BY <1>1, <1>2 DEF TypeOK
<1>6. \A j \in 0..Concurrency : j = 0 \/ j \in Threads
  BY LimitAssumption DEF Threads
<1>7. k # 0 /\ k \in 0..Concurrency
  BY LimitAssumption DEF Threads
<1>8. ASSUME NEW s \in Runs, NEW j \in 0..Concurrency, NEW c \in Deliveries, Holds(s, j, c)'
      PROVE  Holds(s, j, c) /\ Step(s, j)' = Step(s, j) /\ SameRow(c)
  <2>1. Off.d # c
    BY LimitAssumption DEF Off
  <2>2. ~(s = r /\ j = k)
    BY <1>3, <1>7, <1>8, <2>1 DEF Holds
  <2>3. Holds(s, j, c) /\ Step(s, j)' = Step(s, j)
    BY <1>3, <1>5, <1>6, <1>8, <2>2 DEF Holds, Step
  <2>4. c # thread[r][k].d
    BY <1>1, <1>7, <2>2, <2>3, ThreadHolds DEF OneSender
  <2> QED BY <2>3, <2>4
<1>9. OneSender' /\ Hands'
  BY <1>8, KeptInHands
<1> QED BY <1>4, <1>9

-----------------------------------------------------------------------------
\* A step of a thread that changes the row of its delivery at most, and leaves
\* a row that fits, keeps what the invariant says of rows and of the fanout.
LEMMA RowsKept ==
  ASSUME Inv, NEW d \in Deliveries, status[d] # "none",
         status' \in [Deliveries -> {"none", "PENDING", "SENDING", "SENT", "FAILED"}],
         \A c \in Deliveries : c # d => SameRow(c),
         status'[d] # "none", RowFits(d)', next' = next
  PROVE  Fresh' /\ RowsFit'
<1>1. Fresh'
  BY FanoutAssumption DEF Inv, Fresh, SameRow
<1>2. ASSUME NEW c \in Deliveries, c # d
      PROVE  RowFits(c)'
  BY <1>2 DEF Inv, RowsFit, RowFits, SameRow
<1> QED BY <1>1, <1>2 DEF RowsFit

\* A thread's POST.
LEMMA PostKeeps ==
  ASSUME Inv, NEW r \in Runs, NEW k \in Threads, Post(r, k)
  PROVE  Inv'
<1>0. PICK d \in Deliveries : d = thread[r][k].d
  BY ThreadHolds DEF Post
<1>1. /\ thread[r][k].at = "posting" /\ thread[r][k].at # "off"
      /\ Known("posting", d)
  BY <1>0, ThreadHolds DEF Post
<1>2. PICK reached \in BOOLEAN, ok2xx \in BOOLEAN :
        /\ received' = IF reached THEN [received EXCEPT ![d] = @ + 1] ELSE received
        /\ Goto(r, k, IF Succeeds(reached, ok2xx) THEN "marking" ELSE "failing")
  BY <1>0 DEF Post
<1>3. next' = next /\ created' = created /\ status' = status /\ attempts' = attempts /\ billed' = billed
  BY <1>0 DEF Post, rows
<1>4. TypeOK
  BY DEF Inv
<1>5. /\ received' \in [Deliveries -> Nat]
      /\ received'[d] = IF reached THEN received[d] + 1 ELSE received[d]
      /\ \A c \in Deliveries : c # d => received'[c] = received[c]
  BY <1>0, <1>1, <1>2, <1>4 DEF TypeOK
<1>6. \A c \in Deliveries : c # d => SameRow(c)
  BY <1>0, <1>3, <1>5 DEF SameRow
<1>7. status[d] = "SENDING" /\ attempts[d] < MaxAttempts /\ billed[d] = 0 /\ received[d] <= attempts[d]
  BY <1>0, <1>1 DEF Known
<1>8. received[d] \in Nat /\ attempts[d] \in 0..MaxAttempts /\ MaxAttempts \in Nat
  BY <1>0, <1>1, <1>4, LimitAssumption DEF TypeOK
<1>9. RowFits(d)'
  <2>1. RowFits(d)
    BY <1>0, <1>1 DEF Inv, RowsFit
  <2>2. received'[d] <= attempts[d] + 1 /\ received'[d] <= MaxAttempts
    BY <1>0, <1>5, <1>7, <1>8
  <2> QED BY <1>0, <1>3, <1>7, <2>2 DEF RowFits
<1>10. Fresh' /\ RowsFit'
  BY <1>0, <1>1, <1>3, <1>4, <1>6, <1>7, <1>9, RowsKept DEF TypeOK
<1>11. CASE Succeeds(reached, ok2xx)
  <2>1. Goto(r, k, "marking")
    BY <1>0, <1>2, <1>11
  <2>2. received'[d] > 0
    BY <1>0, <1>5, <1>8, <1>11 DEF Succeeds
  <2>3. thread'[r][k].d = d
    BY <1>0, <1>4, <2>1 DEF Goto, TypeOK
  <2>4. Known("marking", thread[r][k].d)'
    BY <1>0, <1>3, <1>7, <2>2, <2>3 DEF Known
  <2>5. OneSender' /\ Hands'
    BY <1>0, <1>1, <1>6, <2>1, <2>4, GotoInHands
  <2>6. thread' \in [Runs -> [Threads -> Thread]] /\ items' \in [Runs -> SUBSET Deliveries]
    BY <1>0, <1>1, <2>1, GotoHolds
  <2> QED BY <1>0, <1>3, <1>4, <1>5, <1>10, <2>5, <2>6 DEF Inv, TypeOK
<1>12. CASE ~Succeeds(reached, ok2xx)
  <2>1. Goto(r, k, "failing")
    BY <1>0, <1>2, <1>12
  <2>3. thread'[r][k].d = d
    BY <1>0, <1>4, <2>1 DEF Goto, TypeOK
  <2>4. Known("failing", thread[r][k].d)'
    BY <1>0, <1>3, <1>7, <2>3 DEF Known
  <2>5. OneSender' /\ Hands'
    BY <1>0, <1>1, <1>6, <2>1, <2>4, GotoInHands
  <2>6. thread' \in [Runs -> [Threads -> Thread]] /\ items' \in [Runs -> SUBSET Deliveries]
    BY <1>0, <1>1, <2>1, GotoHolds
  <2> QED BY <1>0, <1>3, <1>4, <1>5, <1>10, <2>5, <2>6 DEF Inv, TypeOK
<1> QED BY <1>0, <1>11, <1>12

\* A POST breaks off: its endpoint has received it, and nobody holds it any more.
LEMMA PostBreaksOffKeeps ==
  ASSUME Inv, NEW r \in Runs, NEW k \in Threads, PostBreaksOff(r, k)
  PROVE  Inv'
<1>0. PICK d \in Deliveries : d = thread[r][k].d
  BY ThreadHolds DEF PostBreaksOff
<1>1. thread[r][k].at # "off" /\ Known("posting", d)
  BY <1>0, ThreadHolds DEF PostBreaksOff
<1>2. TypeOK /\ RowFits(d)
  BY DEF Inv, RowsFit
<1>3. /\ next' = next /\ created' = created /\ status' = status /\ attempts' = attempts
      /\ billed' = billed /\ received' = [received EXCEPT ![d] = @ + 1] /\ EndThread(r, k)
  BY <1>0 DEF PostBreaksOff, rows
<1>4. /\ received' \in [Deliveries -> Nat] /\ received'[d] = received[d] + 1
      /\ \A c \in Deliveries : c # d => received'[c] = received[c]
  BY <1>2, <1>3 DEF TypeOK
<1>5. \A c \in Deliveries : c # d => SameRow(c)
  BY <1>3, <1>4 DEF SameRow
<1>6. status[d] = "SENDING" /\ attempts[d] < MaxAttempts /\ billed[d] = 0 /\ received[d] <= attempts[d]
  BY <1>1 DEF Known
<1>7. received[d] \in Nat /\ attempts[d] \in Nat /\ MaxAttempts \in Nat
  BY <1>2, LimitAssumption DEF TypeOK
<1>8. received'[d] <= attempts[d] + 1 /\ received'[d] <= MaxAttempts
  BY <1>4, <1>6, <1>7
<1>9. RowFits(d)'
  BY <1>2, <1>3, <1>6, <1>8 DEF RowFits
<1>10. Fresh' /\ RowsFit'
  BY <1>2, <1>3, <1>5, <1>6, <1>9, RowsKept DEF TypeOK
<1>11. /\ OneSender' /\ Hands'
       /\ thread' \in [Runs -> [Threads -> Thread]] /\ items' \in [Runs -> SUBSET Deliveries]
  BY <1>0, <1>1, <1>3, <1>5, EndThreadInHands
<1> QED BY <1>2, <1>3, <1>4, <1>10, <1>11 DEF Inv, TypeOK

\* A delivery becomes SENT.
LEMMA MarkSentKeeps ==
  ASSUME Inv, NEW r \in Runs, NEW k \in Threads, MarkSent(r, k)
  PROVE  Inv'
<1>0. PICK d \in Deliveries : d = thread[r][k].d
  BY ThreadHolds DEF MarkSent
<1>1. thread[r][k].at # "off" /\ Known("marking", d)
  BY <1>0, ThreadHolds DEF MarkSent
<1>2. TypeOK /\ RowFits(d)
  BY <1>0, <1>1 DEF Inv, RowsFit
<1>3. next' = next /\ created' = created /\ attempts' = attempts /\ received' = received
  BY <1>0 DEF MarkSent
<1>4. /\ status' \in [Deliveries -> {"none", "PENDING", "SENDING", "SENT", "FAILED"}]
      /\ status'[d] = "SENT"
      /\ \A c \in Deliveries : c # d => status'[c] = status[c]
  BY <1>0, <1>1, <1>2 DEF MarkSent, TypeOK
<1>5. /\ billed' \in [Deliveries -> Nat]
      /\ billed'[d] \in {billed[d], billed[d] + 1}
      /\ \A c \in Deliveries : c # d => billed'[c] = billed[c]
  <2>1. billed' = billed \/ billed' = [billed EXCEPT ![d] = @ + 1]
    BY <1>0 DEF MarkSent
  <2>2. billed \in [Deliveries -> Nat]
    BY <1>2 DEF TypeOK
  <2>3. CASE billed' = billed
    BY <2>2, <2>3
  <2>4. CASE billed' = [billed EXCEPT ![d] = @ + 1]
    BY <2>2, <2>4
  <2> QED BY <2>1, <2>3, <2>4
<1>6. \A c \in Deliveries : c # d => SameRow(c)
  BY <1>0, <1>3, <1>4, <1>5 DEF SameRow
<1>7. status[d] = "SENDING" /\ received[d] > 0 /\ billed[d] = 0
  BY <1>0, <1>1 DEF Known
<1>8. RowFits(d)'
  BY <1>0, <1>2, <1>3, <1>4, <1>5, <1>7 DEF RowFits
<1>9. Fresh' /\ RowsFit'
  BY <1>0, <1>1, <1>3, <1>4, <1>6, <1>7, <1>8, RowsKept
<1>10. TakeNext(r, k)
  BY <1>0 DEF MarkSent
<1>11. OneSender' /\ Hands'
  BY <1>0, <1>1, <1>6, <1>10, TakeNextInHands
<1>12. thread' \in [Runs -> [Threads -> Thread]] /\ items' \in [Runs -> SUBSET Deliveries]
  BY <1>0, <1>10, TakeNextHolds
<1> QED BY <1>0, <1>2, <1>3, <1>4, <1>5, <1>9, <1>11, <1>12 DEF Inv, TypeOK

\* The database fails in markSent.
LEMMA MarkSentFailsKeeps ==
  ASSUME Inv, NEW r \in Runs, NEW k \in Threads, MarkSentFails(r, k)
  PROVE  Inv'
<1>0. PICK d \in Deliveries : d = thread[r][k].d
  BY ThreadHolds DEF MarkSentFails
<1>1. thread[r][k].at # "off" /\ Known("marking", d)
  BY <1>0, ThreadHolds DEF MarkSentFails
<1>2. TypeOK /\ RowFits(d)
  BY <1>0, <1>1 DEF Inv, RowsFit
<1>3. /\ next' = next /\ created' = created /\ attempts' = attempts /\ received' = received
      /\ billed' = billed
  BY <1>0 DEF MarkSentFails
<1>4. status[d] = "SENDING" /\ received[d] > 0 /\ billed[d] = 0 /\ attempts[d] < MaxAttempts
  BY <1>0, <1>1 DEF Known
<1>5. /\ status' \in [Deliveries -> {"none", "PENDING", "SENDING", "SENT", "FAILED"}]
      /\ status'[d] \in {"SENDING", "SENT"}
      /\ \A c \in Deliveries : c # d => status'[c] = status[c]
  BY <1>0, <1>1, <1>2, <1>4 DEF MarkSentFails, TypeOK
<1>6. \A c \in Deliveries : c # d => SameRow(c)
  BY <1>0, <1>3, <1>5 DEF SameRow
<1>7. RowFits(d)'
  BY <1>0, <1>2, <1>3, <1>4, <1>5 DEF RowFits
<1>8. Fresh' /\ RowsFit'
  BY <1>0, <1>1, <1>3, <1>4, <1>5, <1>6, <1>7, RowsKept
<1>9. Goto(r, k, "failing")
  BY <1>0 DEF MarkSentFails
<1>10. thread'[r][k].d = d
  BY <1>0, <1>2, <1>9 DEF Goto, TypeOK
<1>11. Known("failing", thread[r][k].d)'
  BY <1>0, <1>3, <1>4, <1>5, <1>10 DEF Known
<1>12. OneSender' /\ Hands'
  BY <1>0, <1>1, <1>6, <1>9, <1>11, GotoInHands
<1>13. thread' \in [Runs -> [Threads -> Thread]] /\ items' \in [Runs -> SUBSET Deliveries]
  BY <1>0, <1>1, <1>9, GotoHolds
<1> QED BY <1>0, <1>2, <1>3, <1>5, <1>8, <1>12, <1>13 DEF Inv, TypeOK


\* A failure is counted: the row fits, whoever held the delivery.
LEMMA FailureFits ==
  ASSUME Inv, NEW d \in Deliveries, Known("failing", d), Failure(d),
         UNCHANGED <<next, created, received, billed>>
  PROVE  /\ Fresh' /\ RowsFit' /\ \A c \in Deliveries : c # d => SameRow(c)
         /\ status' \in [Deliveries -> {"none", "PENDING", "SENDING", "SENT", "FAILED"}]
         /\ attempts' \in [Deliveries -> 0..MaxAttempts]
<1>1. TypeOK /\ RowFits(d)
  BY DEF Inv, RowsFit
<1>2. /\ attempts[d] \in Nat /\ attempts[d] < MaxAttempts /\ billed[d] = 0
      /\ MaxAttempts \in Nat /\ received[d] \in Nat /\ received[d] <= attempts[d] + 1
      /\ status[d] \in {"SENDING", "SENT"}
  BY <1>1, LimitAssumption DEF Known, TypeOK, RowFits
<1>3. /\ attempts' \in [Deliveries -> 0..MaxAttempts]
      /\ attempts'[d] = attempts[d] + 1
      /\ \A c \in Deliveries : c # d => attempts'[c] = attempts[c]
  <2>1. attempts \in [Deliveries -> 0..MaxAttempts] /\ attempts' = [attempts EXCEPT ![d] = @ + 1]
    BY <1>1 DEF TypeOK, Failure, Counted
  <2>2. attempts[d] + 1 \in 0..MaxAttempts
    BY <1>2
  <2> QED BY <2>1, <2>2
<1>4. /\ status' \in [Deliveries -> {"none", "PENDING", "SENDING", "SENT", "FAILED"}]
      /\ status'[d] = IF attempts[d] + 1 >= MaxAttempts THEN "FAILED" ELSE "PENDING"
      /\ \A c \in Deliveries : c # d => status'[c] = status[c]
  BY <1>1 DEF TypeOK, Failure, StatusAfter
<1>5. \A c \in Deliveries : c # d => SameRow(c)
  BY <1>3, <1>4 DEF SameRow
<1>6. RowFits(d)'
  <2>1. received' = received /\ billed' = billed
    OBVIOUS
  <2>2. received[d] <= MaxAttempts
    BY <1>2
  <2>3. CASE attempts[d] + 1 >= MaxAttempts
    <3>1. status'[d] = "FAILED" /\ attempts'[d] = MaxAttempts
      BY <1>2, <1>3, <1>4, <2>3
    <3> QED BY <1>2, <2>1, <2>2, <3>1 DEF RowFits
  <2>4. CASE ~(attempts[d] + 1 >= MaxAttempts)
    <3>1. status'[d] = "PENDING" /\ attempts'[d] = attempts[d] + 1 /\ attempts[d] + 1 < MaxAttempts
      BY <1>2, <1>3, <1>4, <2>4
    <3> QED BY <1>2, <2>1, <2>2, <3>1 DEF RowFits
  <2> QED BY <2>3, <2>4
<1>7. Fresh' /\ RowsFit'
  <2>1. status[d] # "none" /\ status'[d] # "none"
    BY <1>2, <1>4
  <2> QED BY <1>4, <1>5, <1>6, <2>1, RowsKept
<1> QED BY <1>3, <1>4, <1>5, <1>7

\* A failed delivery goes back to the table.
LEMMA RecordFailureKeeps ==
  ASSUME Inv, NEW r \in Runs, NEW k \in Threads, RecordFailure(r, k)
  PROVE  Inv'
<1>0. PICK d \in Deliveries : d = thread[r][k].d
  BY ThreadHolds DEF RecordFailure
<1>1. thread[r][k].at # "off" /\ Known("failing", d)
  BY <1>0, ThreadHolds DEF RecordFailure
<1>2. TypeOK
  BY DEF Inv
<1>3. /\ Failure(d) /\ TakeNext(r, k)
      /\ next' = next /\ created' = created /\ received' = received /\ billed' = billed
  BY <1>0 DEF RecordFailure
<1>4. /\ Fresh' /\ RowsFit' /\ \A c \in Deliveries : c # d => SameRow(c)
      /\ status' \in [Deliveries -> {"none", "PENDING", "SENDING", "SENT", "FAILED"}]
      /\ attempts' \in [Deliveries -> 0..MaxAttempts]
  BY <1>1, <1>3, FailureFits
<1>5. OneSender' /\ Hands'
  BY <1>0, <1>1, <1>3, <1>4, TakeNextInHands
<1>6. thread' \in [Runs -> [Threads -> Thread]] /\ items' \in [Runs -> SUBSET Deliveries]
  BY <1>3, TakeNextHolds
<1> QED BY <1>2, <1>3, <1>4, <1>5, <1>6 DEF Inv, TypeOK

\* The thread ends without having recorded the failure, or not having seen it.
LEMMA RecordFailureFailsKeeps ==
  ASSUME Inv, NEW r \in Runs, NEW k \in Threads, RecordFailureFails(r, k)
  PROVE  Inv'
<1>0. PICK d \in Deliveries : d = thread[r][k].d
  BY ThreadHolds DEF RecordFailureFails
<1>1. thread[r][k].at # "off" /\ Known("failing", d)
  BY <1>0, ThreadHolds DEF RecordFailureFails
<1>2. TypeOK /\ OneSender
  BY DEF Inv
<1>3. /\ Failure(d) \/ (status' = status /\ attempts' = attempts)
      /\ next' = next /\ created' = created /\ received' = received /\ billed' = billed
  BY <1>0 DEF RecordFailureFails
<1>4. /\ Fresh' /\ RowsFit' /\ \A c \in Deliveries : c # d => SameRow(c)
      /\ status' \in [Deliveries -> {"none", "PENDING", "SENDING", "SENT", "FAILED"}]
      /\ attempts' \in [Deliveries -> 0..MaxAttempts]
  <2>1. CASE Failure(d)
    BY <1>1, <1>3, <2>1, FailureFits
  <2>2. CASE status' = status /\ attempts' = attempts
    BY <1>2, <1>3, <2>2 DEF Inv, Fresh, RowsFit, RowFits, SameRow, TypeOK
  <2> QED BY <1>3, <2>1, <2>2
<1>5. EndThread(r, k)
  BY DEF RecordFailureFails
<1>6. /\ OneSender' /\ Hands'
      /\ thread' \in [Runs -> [Threads -> Thread]] /\ items' \in [Runs -> SUBSET Deliveries]
  BY <1>0, <1>1, <1>4, <1>5, EndThreadInHands
<1> QED BY <1>2, <1>3, <1>4, <1>6 DEF Inv, TypeOK

\* A process dies: its hands are empty.
LEMMA CrashKeeps ==
  ASSUME Inv, NEW p \in Processes, Crash(p)
  PROVE  Inv'
<1>1. TypeOK
  BY DEF Inv
<1>2. /\ next' = next /\ created' = created /\ status' = status /\ attempts' = attempts
      /\ received' = received /\ billed' = billed
      /\ items' = [r \in Runs |-> IF r[1] = p THEN {} ELSE items[r]]
      /\ thread' = [r \in Runs |-> IF r[1] = p THEN [k \in Threads |-> Off] ELSE thread[r]]
  BY DEF Crash, rows
<1>3. thread' \in [Runs -> [Threads -> Thread]] /\ items' \in [Runs -> SUBSET Deliveries]
  BY <1>1, <1>2 DEF TypeOK, Thread
<1>4. ASSUME NEW s \in Runs, NEW j \in 0..Concurrency, NEW c \in Deliveries, Holds(s, j, c)'
      PROVE  Holds(s, j, c) /\ Step(s, j)' = Step(s, j) /\ SameRow(c)
  <2>1. Off.d # c
    BY LimitAssumption DEF Off
  <2>2. j = 0 \/ j \in Threads
    BY LimitAssumption DEF Threads
  <2> QED BY <1>2, <1>4, <2>1, <2>2 DEF Holds, Step, SameRow
<1>5. OneSender' /\ Hands'
  BY <1>4, KeptInHands
<1>6. Fresh' /\ RowsFit'
  BY <1>2 DEF Inv, Fresh, RowsFit, RowFits
<1> QED BY <1>1, <1>2, <1>3, <1>5, <1>6 DEF Inv, TypeOK

-----------------------------------------------------------------------------
\* Whoever holds a delivery has claimed it: its row is SENDING, or SENT.
LEMMA HeldIsClaimed ==
  ASSUME Inv, NEW s \in Runs, NEW j \in 0..Concurrency, NEW c \in Deliveries, Holds(s, j, c)
  PROVE  status[c] \in {"SENDING", "SENT"}
<1>1. Known(Step(s, j), c)
  BY DEF Inv, Hands
<1>2. CASE j = 0
  BY <1>1, <1>2 DEF Known, Step
<1>3. CASE j # 0
  <2>1. j \in Threads /\ thread[s][j].d = c
    BY <1>3, LimitAssumption DEF Threads, Holds
  <2>2. thread[s][j] \in Thread /\ thread[s][j] # Off
    BY <2>1, LimitAssumption DEF Inv, TypeOK, Off
  <2>3. thread[s][j].at \in {"posting", "marking", "failing"}
    BY <2>2 DEF Thread
  <2> QED BY <1>1, <1>3, <2>3 DEF Known, Step
<1> QED BY <1>2, <1>3

\* A new row is in nobody's hands.
LEMMA InsertKeeps ==
  ASSUME Inv, NEW e \in Events, Insert(e)
  PROVE  Inv'
<1>1. TypeOK /\ Fresh
  BY DEF Inv
<1>2. Fanout[e] \in Seq(Deliveries) /\ next[e] \in Nat
  BY <1>1, FanoutAssumption DEF TypeOK
<1>3. next[e] \in DOMAIN Fanout[e]
  BY <1>1, <1>2 DEF Insert, TypeOK
<1>4. PICK d \in Deliveries : d = Fanout[e][next[e]]
  BY <1>2, <1>3
<1>5. /\ next' = [next EXCEPT ![e] = @ + 1]
      /\ created' = [created EXCEPT ![d] = Cardinality(Inserted)]
      /\ status' = [status EXCEPT ![d] = "PENDING"]
      /\ attempts' = attempts /\ received' = received /\ billed' = billed
      /\ items' = items /\ thread' = thread
  BY <1>4 DEF Insert
<1>6. status[d] = "none"
  BY <1>1, <1>2, <1>3, <1>4 DEF Fresh
<1>7. Cardinality(Inserted) \in Nat
  <2>1. Inserted \subseteq Deliveries /\ IsFiniteSet(Deliveries)
    BY LimitAssumption DEF Inserted
  <2> QED BY <2>1, FS_Subset, FS_CardinalityType
<1>8. TypeOK'
  BY <1>1, <1>2, <1>5, <1>7 DEF TypeOK
<1>9. /\ status'[d] = "PENDING"
      /\ \A c \in Deliveries : c # d => SameRow(c)
      /\ next'[e] = next[e] + 1
      /\ \A f \in Events : f # e => next'[f] = next[f]
  BY <1>1, <1>5 DEF TypeOK, SameRow
<1>10. Fresh'
  <2> SUFFICES ASSUME NEW f \in Events, NEW i \in DOMAIN Fanout[f], i >= next'[f]
               PROVE  status'[Fanout[f][i]] = "none"
    BY DEF Fresh
  <2>1. Fanout[f] \in Seq(Deliveries) /\ i \in Nat /\ next[f] \in Nat
    <3>1. Fanout[f] \in Seq(Deliveries)
      BY FanoutAssumption
    <3>2. i \in 1..Len(Fanout[f])
      BY <3>1
    <3>3. next[f] \in Nat
      BY <1>1 DEF TypeOK
    <3> QED BY <3>1, <3>2, <3>3
  <2>2. Fanout[f][i] \in Deliveries
    BY <2>1
  <2>3. i >= next[f] /\ ~(f = e /\ i = next[e])
    BY <1>2, <1>9, <2>1
  <2>4. status[Fanout[f][i]] = "none"
    BY <1>1, <2>3 DEF Fresh
  <2>5. Fanout[f][i] # d
    BY <1>3, <1>4, <2>3, FanoutAssumption
  <2> QED BY <1>9, <2>2, <2>4, <2>5 DEF SameRow
<1>11. RowsFit'
  <2>1. RowFits(d)'
    <3>1. received[d] = 0 /\ attempts[d] = 0 /\ billed[d] = 0
      BY <1>6 DEF Inv, RowsFit, RowFits
    <3>2. MaxAttempts \in Nat /\ MaxAttempts > 0
      BY LimitAssumption
    <3> QED BY <1>5, <1>9, <3>1, <3>2 DEF RowFits
  <2>2. ASSUME NEW c \in Deliveries, c # d
        PROVE  RowFits(c)'
    BY <1>9, <2>2 DEF Inv, RowsFit, RowFits, SameRow
  <2> QED BY <2>1, <2>2 DEF RowsFit
<1>12. OneSender' /\ Hands'
  <2> SUFFICES ASSUME NEW s \in Runs, NEW j \in 0..Concurrency, NEW c \in Deliveries, Holds(s, j, c)'
               PROVE  Holds(s, j, c) /\ Step(s, j)' = Step(s, j) /\ SameRow(c)
    BY KeptInHands
  <2>1. Holds(s, j, c) /\ Step(s, j)' = Step(s, j)
    BY <1>5 DEF Holds, Step
  <2>2. c # d
    BY <1>6, <2>1, HeldIsClaimed
  <2> QED BY <1>9, <2>1, <2>2
<1> QED BY <1>8, <1>10, <1>11, <1>12 DEF Inv

\* What is not inserted never will be.
LEMMA InsertFailsKeeps ==
  ASSUME Inv, NEW e \in Events, InsertFails(e)
  PROVE  Inv'
<1>1. TypeOK /\ Fresh
  BY DEF Inv
<1>2. /\ next' = [next EXCEPT ![e] = Len(Fanout[e]) + 1]
      /\ created' = created /\ status' = status /\ attempts' = attempts /\ received' = received
      /\ billed' = billed /\ items' = items /\ thread' = thread
  BY DEF InsertFails, rows
<1>3. Fanout[e] \in Seq(Deliveries)
  BY FanoutAssumption
<1>4. TypeOK'
  <2>1. Len(Fanout[e]) + 1 \in Nat \ {0}
    BY <1>3
  <2> QED BY <1>1, <1>2, <2>1 DEF TypeOK
<1>5. Fresh'
  BY <1>1, <1>2, <1>3 DEF Fresh, TypeOK
<1>6. RowsFit'
  BY <1>2 DEF Inv, RowsFit, RowFits
<1>7. OneSender' /\ Hands'
  BY <1>2, KeptInHands DEF Holds, Step, SameRow
<1> QED BY <1>4, <1>5, <1>6, <1>7 DEF Inv

\* What a claim does to the rows, for a run or for nobody.
LEMMA ClaimedRows ==
  ASSUME Inv, status' = MarkedSending,
         UNCHANGED <<next, created, attempts, received, billed>>
  PROVE  /\ status' \in [Deliveries -> {"none", "PENDING", "SENDING", "SENT", "FAILED"}]
         /\ Fresh' /\ RowsFit'
         /\ \A c \in Deliveries : c \notin Batch => SameRow(c)
         /\ \A c \in Batch : status[c] = "PENDING" /\ Known("posting", c)'
<1>1. TypeOK /\ Fresh
  BY DEF Inv
<1>2. /\ Batch \subseteq Deliveries
      /\ \A c \in Batch : status[c] = "PENDING"
  BY DEF Batch, Claimable
<1>3. \A c \in Deliveries : status'[c] = IF c \in Batch THEN "SENDING" ELSE status[c]
  BY DEF MarkedSending
<1>4. status' \in [Deliveries -> {"none", "PENDING", "SENDING", "SENT", "FAILED"}]
  BY <1>1 DEF MarkedSending, TypeOK
<1>5. \A c \in Deliveries : c \notin Batch => SameRow(c)
  BY <1>3 DEF SameRow
<1>6. Fresh'
  <2> SUFFICES ASSUME NEW f \in Events, NEW i \in DOMAIN Fanout[f], i >= next'[f]
               PROVE  status'[Fanout[f][i]] = "none"
    BY DEF Fresh
  <2>1. Fanout[f][i] \in Deliveries /\ status[Fanout[f][i]] = "none"
    BY <1>1, FanoutAssumption DEF Fresh
  <2> QED BY <1>2, <1>3, <2>1
<1>7. ASSUME NEW c \in Batch
      PROVE  RowFits(c)' /\ Known("posting", c)'
  <2>1. RowFits(c) /\ status[c] = "PENDING" /\ status'[c] = "SENDING" /\ billed[c] \in Nat
    BY <1>1, <1>2, <1>3, <1>7 DEF Inv, RowsFit, TypeOK
  <2> QED BY <2>1 DEF RowFits, Known
<1>8. RowsFit'
  <2>1. ASSUME NEW c \in Deliveries, c \notin Batch
        PROVE  RowFits(c)'
    BY <1>5, <2>1 DEF Inv, RowsFit, RowFits, SameRow
  <2> QED BY <1>7, <2>1 DEF RowsFit
<1> QED BY <1>2, <1>4, <1>5, <1>6, <1>7, <1>8

\* A claim whose answer is lost puts nothing into anybody's hands.
LEMMA ClaimLostKeeps == Inv /\ ClaimLost => Inv'
<1> SUFFICES ASSUME Inv, ClaimLost PROVE Inv'
  OBVIOUS
<1>1. TypeOK
  BY DEF Inv
<1>2. /\ status' = MarkedSending /\ next' = next /\ created' = created /\ attempts' = attempts
      /\ received' = received /\ billed' = billed /\ items' = items /\ thread' = thread
  BY DEF ClaimLost
<1>3. /\ status' \in [Deliveries -> {"none", "PENDING", "SENDING", "SENT", "FAILED"}]
      /\ Fresh' /\ RowsFit'
      /\ \A c \in Deliveries : c \notin Batch => SameRow(c)
      /\ \A c \in Batch : status[c] = "PENDING"
  BY <1>2, ClaimedRows
<1>4. OneSender' /\ Hands'
  <2> SUFFICES ASSUME NEW s \in Runs, NEW j \in 0..Concurrency, NEW c \in Deliveries, Holds(s, j, c)'
               PROVE  Holds(s, j, c) /\ Step(s, j)' = Step(s, j) /\ SameRow(c)
    BY KeptInHands
  <2>1. Holds(s, j, c) /\ Step(s, j)' = Step(s, j)
    BY <1>2 DEF Holds, Step
  <2> QED BY <1>3, <2>1, HeldIsClaimed
<1> QED BY <1>1, <1>2, <1>3, <1>4 DEF Inv, TypeOK

\* A run puts what it claims into one hand each.
LEMMA ClaimKeeps ==
  ASSUME Inv, NEW r \in Runs, Claim(r)
  PROVE  Inv'
<1>1. TypeOK /\ OneSender /\ Hands
  BY DEF Inv
<1>2. /\ status' = MarkedSending /\ next' = next /\ created' = created /\ attempts' = attempts
      /\ received' = received /\ billed' = billed
      /\ items' = [items EXCEPT ![r] = {d \in Batch : Place(d) > Concurrency}]
      /\ thread' = [thread EXCEPT ![r] = [k \in Threads |-> FirstOf(k)]]
  BY DEF Claim
<1>3. /\ status' \in [Deliveries -> {"none", "PENDING", "SENDING", "SENT", "FAILED"}]
      /\ Fresh' /\ RowsFit'
      /\ \A c \in Deliveries : c \notin Batch => SameRow(c)
      /\ \A c \in Batch : status[c] = "PENDING" /\ Known("posting", c)'
  BY <1>2, ClaimedRows
<1>4. Batch \subseteq Deliveries
  BY DEF Batch
<1>5. ASSUME NEW k \in Threads
      PROVE  \/ FirstOf(k) = Off
             \/ \E d \in Batch : Place(d) = k /\ FirstOf(k) = Posting(d)
  BY DEF FirstOf
<1>6. \A k \in Threads : FirstOf(k) \in Thread
  BY <1>4, <1>5 DEF Posting, Thread
<1>7. thread' \in [Runs -> [Threads -> Thread]] /\ items' \in [Runs -> SUBSET Deliveries]
  BY <1>1, <1>2, <1>4, <1>6 DEF TypeOK
<1>8. /\ thread'[r] = [k \in Threads |-> FirstOf(k)]
      /\ items'[r] = {d \in Batch : Place(d) > Concurrency}
      /\ \A s \in Runs : s # r => thread'[s] = thread[s] /\ items'[s] = items[s]
  BY <1>1, <1>2 DEF TypeOK
<1>9. ASSUME NEW j \in 0..Concurrency, NEW c \in Deliveries, Holds(r, j, c)'
      PROVE  /\ c \in Batch
             /\ j = 0 => Place(c) > Concurrency
             /\ j # 0 => Place(c) = j
             /\ Step(r, j)' = "posting"
  <2>1. CASE j = 0
    BY <1>8, <1>9, <2>1 DEF Holds, Step
  <2>2. CASE j # 0
    <3>1. j \in Threads
      BY <2>2, LimitAssumption DEF Threads
    <3>2. thread'[r][j] = FirstOf(j) /\ FirstOf(j).d = c
      BY <1>8, <1>9, <2>2, <3>1 DEF Holds
    <3>3. FirstOf(j) # Off
      BY <3>2, LimitAssumption DEF Off
    <3>4. PICK d \in Batch : Place(d) = j /\ FirstOf(j) = Posting(d)
      BY <1>5, <3>1, <3>3
    <3>5. d = c /\ FirstOf(j).at = "posting"
      BY <3>2, <3>4 DEF Posting
    <3> QED BY <2>2, <3>2, <3>4, <3>5 DEF Step
  <2> QED BY <2>1, <2>2
<1>10. ASSUME NEW s \in Runs, s # r, NEW j \in 0..Concurrency, NEW c \in Deliveries, Holds(s, j, c)'
       PROVE  Holds(s, j, c) /\ c \notin Batch /\ Step(s, j)' = Step(s, j) /\ SameRow(c)
  <2>1. Holds(s, j, c) /\ Step(s, j)' = Step(s, j)
    BY <1>8, <1>10 DEF Holds, Step
  <2>2. c \notin Batch
    BY <1>3, <2>1, HeldIsClaimed
  <2> QED BY <1>3, <2>1, <2>2
<1>11. OneSender'
  <2> SUFFICES ASSUME NEW c \in Deliveries, NEW s \in Runs, NEW t \in Runs,
                      NEW i \in 0..Concurrency, NEW j \in 0..Concurrency,
                      Holds(s, i, c)', Holds(t, j, c)'
               PROVE  s = t /\ i = j
    BY DEF OneSender
  <2>1. CASE s = r /\ t = r
    BY <1>9, <2>1, LimitAssumption
  <2>2. CASE s # r /\ t # r
    BY <1>1, <1>10, <2>2 DEF OneSender
  <2>3. CASE (s = r /\ t # r) \/ (s # r /\ t = r)
    BY <1>9, <1>10, <2>3
  <2> QED BY <2>1, <2>2, <2>3
<1>12. Hands'
  <2> SUFFICES ASSUME NEW s \in Runs, NEW j \in 0..Concurrency, NEW c \in Deliveries, Holds(s, j, c)'
               PROVE  Known(Step(s, j), c)'
    BY DEF Hands
  <2>1. CASE s = r
    <3>1. c \in Batch /\ Step(s, j)' = "posting"
      BY <1>9, <2>1
    <3> QED BY <1>3, <3>1 DEF Known
  <2>2. CASE s # r
    <3>1. Known(Step(s, j), c) /\ Step(s, j)' = Step(s, j) /\ SameRow(c)
      BY <1>1, <1>10, <2>2 DEF Hands
    <3> QED BY <3>1 DEF Known, SameRow
  <2> QED BY <2>1, <2>2
<1> QED BY <1>1, <1>2, <1>3, <1>7, <1>11, <1>12 DEF Inv, TypeOK

-----------------------------------------------------------------------------
\* Nothing is inserted and nobody holds anything.
LEMMA InitInv == Init => Inv
<1> SUFFICES ASSUME Init PROVE Inv
  OBVIOUS
<1>1. MaxAttempts \in Nat /\ MaxAttempts > 0
  BY LimitAssumption
<1>2. TypeOK
  BY <1>1 DEF Init, TypeOK, Thread
<1>3. Fresh
  BY FanoutAssumption DEF Init, Fresh
<1>4. RowsFit
  BY <1>1 DEF Init, RowsFit, RowFits
<1>5. ASSUME NEW s \in Runs, NEW j \in 0..Concurrency, NEW c \in Deliveries
      PROVE  ~Holds(s, j, c)
  BY LimitAssumption DEF Init, Holds, Threads, Off
<1> QED BY <1>2, <1>3, <1>4, <1>5 DEF Inv, OneSender, Hands

\* Every step keeps the invariant.
LEMMA NextInv == Inv /\ [Next]_vars => Inv'
<1> SUFFICES ASSUME Inv, [Next]_vars PROVE Inv'
  OBVIOUS
<1>1. CASE \E e \in Events : Insert(e) \/ InsertFails(e)
  BY <1>1, InsertKeeps, InsertFailsKeeps
<1>2. CASE (\E r \in Runs : Claim(r)) \/ ClaimLost
  BY <1>2, ClaimKeeps, ClaimLostKeeps
<1>3. CASE \E r \in Runs, k \in Threads : ThreadStep(r, k)
  BY <1>3, PostKeeps, PostBreaksOffKeeps, MarkSentKeeps, MarkSentFailsKeeps, RecordFailureKeeps,
     RecordFailureFailsKeeps DEF ThreadStep
<1>4. CASE \E p \in Processes : Crash(p)
  BY <1>4, CrashKeeps
<1>5. CASE UNCHANGED vars
  <2>1. /\ next' = next /\ created' = created /\ status' = status /\ attempts' = attempts
        /\ received' = received /\ billed' = billed /\ items' = items /\ thread' = thread
    BY <1>5 DEF vars
  <2>2. OneSender' /\ Hands'
    BY <2>1, KeptInHands DEF Holds, Step, SameRow
  <2> QED BY <2>1, <2>2 DEF Inv, TypeOK, Fresh, RowsFit, RowFits
<1> QED BY <1>1, <1>2, <1>3, <1>4, <1>5 DEF Next, Quiet

\* The invariant holds in every behaviour.
LEMMA Invariant == Spec => []Inv
  BY InitInv, NextInv, PTL DEF Spec

(* The variables keep their types.                                         *)
THEOREM TypeCorrect == Spec => []TypeOK
  BY Invariant, PTL DEF Inv

(* Any number of processes with any number of overlapping runs and threads *)
(* never have one delivery in two hands.                                   *)
THEOREM OneSenderCorrect == Spec => []OneSender
  BY Invariant, PTL DEF Inv

(* However many answers are lost and processes die, no endpoint receives a *)
(* delivery more than MaxAttempts times.                                   *)
THEOREM PostsBoundedCorrect == Spec => []PostsBounded
<1>1. Inv => PostsBounded
  BY DEF Inv, RowsFit, RowFits, PostsBounded
<1> QED BY <1>1, Invariant, PTL

(* SENT and FAILED say what has happened.                                  *)
THEOREM OutcomeCorrect == Spec => []OutcomeIsTrue
<1>1. Inv => OutcomeIsTrue
  BY DEF Inv, RowsFit, RowFits, OutcomeIsTrue
<1> QED BY <1>1, Invariant, PTL

(* No delivery is billed twice, and none that is not SENT.                 *)
THEOREM BilledCorrect == Spec => []BilledOnce
<1>1. Inv => BilledOnce
  BY DEF Inv, RowsFit, RowFits, BilledOnce
<1> QED BY <1>1, Invariant, PTL

\* Only who holds a delivery, or claims a PENDING one, changes its status.
LEMMA EndedKept ==
  ASSUME Inv, Next, NEW d \in Deliveries, Ended(d)
  PROVE  status'[d] = status[d]
<1>1. TypeOK /\ Fresh /\ status[d] \in {"SENT", "FAILED"} /\ ~Held(d)
  BY DEF Inv, Ended
<1>2. ASSUME NEW e \in Events, Insert(e)
      PROVE  status'[d] = status[d]
  <2>1. next[e] \in DOMAIN Fanout[e]
    <3>1. Fanout[e] \in Seq(Deliveries) /\ next[e] \in Nat \ {0}
      BY <1>1, FanoutAssumption DEF TypeOK
    <3> QED BY <1>2, <3>1 DEF Insert
  <2>2. status[Fanout[e][next[e]]] = "none"
    <3>1. next[e] \in Nat
      BY <1>1 DEF TypeOK
    <3> QED BY <1>1, <2>1, <3>1 DEF Fresh
  <2> QED BY <1>1, <1>2, <2>2 DEF Insert, TypeOK
<1>3. ASSUME status' = MarkedSending
      PROVE  status'[d] = status[d]
  BY <1>1, <1>3 DEF MarkedSending, Batch, Claimable
<1>4. ASSUME NEW r \in Runs, NEW k \in Threads, ThreadStep(r, k)
      PROVE  status'[d] = status[d]
  <2>1. thread[r][k].at # "off"
    BY <1>4 DEF ThreadStep, Post, PostBreaksOff, MarkSent, MarkSentFails, RecordFailure, RecordFailureFails
  <2>2. k \in 0..Concurrency
    BY LimitAssumption DEF Threads
  <2>3. thread[r][k].d # d
    BY <1>1, <2>1, <2>2, ThreadHolds DEF Held
  <2>4. \/ status' = status
        \/ \E x : status' = [status EXCEPT ![thread[r][k].d] = x]
    BY <1>4 DEF ThreadStep, Post, PostBreaksOff, MarkSent, MarkSentFails, RecordFailure, RecordFailureFails,
                Failure, rows
  <2> QED BY <1>1, <2>3, <2>4 DEF TypeOK
<1>5. CASE UNCHANGED status
  BY <1>5
<1> QED
  BY <1>2, <1>3, <1>4, <1>5 DEF Next, InsertFails, Claim, ClaimLost, Crash, Quiet, rows, vars

(* What has ended is never changed: neither a late run nor a late failure  *)
(* touches a delivery that is SENT or FAILED and in nobody's hands.        *)
THEOREM EndsOnceCorrect == Spec => EndsOnce
<1>1. Inv /\ [Next]_vars => [\A d \in Deliveries : Ended(d) => status'[d] = status[d]]_vars
  BY EndedKept
<1> QED BY <1>1, Invariant, PTL DEF Spec, EndsOnce
=============================================================================
