----------------------- MODULE RequestSessionsProofs -----------------------
(***************************************************************************)
(* Proofs of the connections of requests: no connection has two holders,   *)
(* and work is done in the tenant of its request unless a request that was *)
(* overtaken by the end of its response disturbs it.                       *)
(***************************************************************************)
EXTENDS RequestSessions, SequenceTheorems, FiniteSetTheorems, TLAPS

-----------------------------------------------------------------------------
(* The inductive invariant.                                                *)

Parts == {"session", "handler", "hook"}

\* Where a request is tells what it has.
RequestFits(r) ==
  /\ req[r].session = None <=> req[r].at \in {"new", "connecting"}
  /\ req[r].tx = None <=> req[r].at # "inTx"
  /\ req[r].hookTx = None <=> req[r].hook # "inTx"
  /\ req[r].hook # "none" => req[r].at \in {"detached", "answered"}
  /\ req[r].at \in {"waiting", "inTx"} => req[r].todo > 0
  /\ req[r].hook \in {"waiting", "inTx"} => req[r].hookTodo > 0
  /\ req[r].response = "open" =>
       req[r].events = {} /\ ~req[r].released /\ req[r].at # "answered"
  /\ req[r].response = "finished" => req[r].at = "answered"
  /\ req[r].at \in {"new", "connecting"} => req[r].response = "open"

RequestsFit == \A r \in Requests : RequestFits(r)

\* Who stands in the queue is waiting, and stands there once.
Waits(w) ==
  \/ w[2] = "session" /\ req[w[1]].at = "connecting"
  \/ w[2] = "handler" /\ req[w[1]].at = "waiting"
  \/ w[2] = "hook" /\ req[w[1]].hook = "waiting"

QueueFits ==
  /\ \A i \in DOMAIN queue : Waits(queue[i])
  /\ \A i, j \in DOMAIN queue : queue[i] = queue[j] => i = j

\* Part w of request r holds connection c.
Has(r, w, c) ==
  \/ w = "session" /\ req[r].session = c /\ ~req[r].released
  \/ w = "handler" /\ req[r].tx = c
  \/ w = "hook" /\ req[r].hookTx = c

Idle(c) == c \in free \/ c > opened

HeldOnce ==
  \A c \in Clients :
    /\ \A r, x \in Requests, w, v \in Parts : Has(r, w, c) /\ Has(x, v, c) => r = x /\ w = v
    /\ Idle(c) => \A r \in Requests, w \in Parts : ~Has(r, w, c)
    /\ ~Idle(c) => \E r \in Requests, w \in Parts : Has(r, w, c)

\* Part w of request r works on connection c and relies on its tenant.
Relies(r, w, c) ==
  /\ Has(r, w, c)
  /\ w = "session" => req[r].at \in {"working", "waiting", "inTx", "detached"}

TenantsFit ==
  /\ \A r \in Requests, w \in Parts, c \in Clients : Relies(r, w, c) => InTenant(r, c)
  /\ ClearedUnlessOvertaken

Inv == TypeOK /\ RequestsFit /\ QueueFits /\ HeldOnce /\ TenantsFit

LEMMA InvHolds ==
  ASSUME Init
  PROVE  Inv
<1>1. TypeOK
  BY SizeAssumption, EmptySeq DEF Init, TypeOK, Request
<1>2. RequestsFit /\ QueueFits
  BY DEF Init, RequestsFit, RequestFits, QueueFits
<1>3. \A r \in Requests, w \in Parts, c \in Clients : ~Has(r, w, c)
  BY NoneAssumption DEF Init, Has, Clients, Parts
<1>4. HeldOnce
  <2>1. \A c \in Clients : Idle(c)
    BY SizeAssumption DEF Init, Idle, Clients
  <2> QED BY <1>3, <2>1 DEF HeldOnce
<1>5. TenantsFit
  BY <1>3 DEF Init, TenantsFit, Relies, ClearedUnlessOvertaken
<1> QED BY <1>1, <1>2, <1>4, <1>5 DEF Inv

-----------------------------------------------------------------------------
(* One request moves.                                                      *)

Moved(r, y) == y \in Request /\ req' = [req EXCEPT ![r] = y]

LEMMA OneMoves ==
  ASSUME TypeOK, NEW r \in Requests, NEW y, Moved(r, y)
  PROVE  /\ req' \in [Requests -> Request]
         /\ req'[r] = y
         /\ \A x \in Requests \ {r} : req'[x] = req[x]
BY DEF TypeOK, Moved

\* The others fit as before; the one that moved has to.
LEMMA OthersFit ==
  ASSUME TypeOK, RequestsFit, NEW r \in Requests, NEW y, Moved(r, y), RequestFits(r)'
  PROVE  RequestsFit'
BY OneMoves DEF RequestsFit, RequestFits

-----------------------------------------------------------------------------
(* The queue.                                                              *)

LEMMA QueueKept ==
  ASSUME TypeOK, QueueFits, queue' = queue, NEW r \in Requests, NEW y, Moved(r, y),
         req[r].at = "connecting" => y.at = "connecting",
         req[r].at = "waiting" => y.at = "waiting",
         req[r].hook = "waiting" => y.hook = "waiting"
  PROVE  QueueFits'
<1>1. \A i \in DOMAIN queue : queue[i] \in Waiter
  BY DEF TypeOK
<1> QED BY <1>1, OneMoves DEF QueueFits, Waits, Waiter

LEMMA QueueGrows ==
  ASSUME TypeOK, QueueFits, NEW r \in Requests, NEW y, Moved(r, y), NEW w \in Parts,
         Connect(r, w), ~Waits(<<r, w>>), Waits(<<r, w>>)',
         req[r].at = "connecting" => y.at = "connecting",
         req[r].at = "waiting" => y.at = "waiting",
         req[r].hook = "waiting" => y.hook = "waiting"
  PROVE  queue' \in Seq(Waiter) /\ QueueFits'
<1>1. /\ queue \in Seq(Waiter) /\ <<r, w>> \in Waiter
      /\ queue' = Append(queue, <<r, w>>)
      /\ \A i \in DOMAIN queue : queue[i] \in Waiter
  BY DEF TypeOK, Waiter, Parts, Connect
<1>2. /\ queue' \in Seq(Waiter)
      /\ DOMAIN queue' = DOMAIN queue \cup {Len(queue) + 1}
      /\ queue'[Len(queue) + 1] = <<r, w>>
      /\ \A i \in DOMAIN queue : queue'[i] = queue[i] /\ i # Len(queue) + 1
  BY <1>1
<1>3. \A i \in DOMAIN queue : queue[i] # <<r, w>>
  BY DEF QueueFits
<1>4. ASSUME NEW v \in Waiter, Waits(v) PROVE Waits(v)'
  BY <1>4, OneMoves DEF Waits, Waiter
<1>5. \A i \in DOMAIN queue' : Waits(queue[i])' \/ i = Len(queue) + 1
  BY <1>1, <1>2, <1>4 DEF QueueFits
<1>6. \A i \in DOMAIN queue' : Waits(queue[i])'
  BY <1>2, <1>5 DEF Waits
<1> QED BY <1>2, <1>3, <1>6 DEF QueueFits

LEMMA QueueServed ==
  ASSUME TypeOK, QueueFits, queue # <<>>, queue' = Tail(queue),
         NEW r \in Requests, NEW y, Moved(r, y), NEW w \in Parts, Head(queue) = <<r, w>>,
         w # "session" /\ req[r].at = "connecting" => y.at = "connecting",
         w # "handler" /\ req[r].at = "waiting" => y.at = "waiting",
         w # "hook" /\ req[r].hook = "waiting" => y.hook = "waiting"
  PROVE  queue' \in Seq(Waiter) /\ QueueFits'
<1>1. /\ queue \in Seq(Waiter)
      /\ \A i \in DOMAIN queue : queue[i] \in Waiter
  BY DEF TypeOK
<1>2. /\ queue' \in Seq(Waiter)
      /\ \A i \in DOMAIN queue' : queue'[i] = queue[i + 1] /\ i + 1 \in DOMAIN queue
      /\ queue[1] = <<r, w>> /\ 1 \in DOMAIN queue
      /\ DOMAIN queue' \subseteq Nat \ {0}
  BY <1>1
<1>3. \A i \in DOMAIN queue' : queue'[i] # <<r, w>>
  BY <1>2 DEF QueueFits
<1>4. \A i, j \in DOMAIN queue' : queue'[i] = queue'[j] => i = j
  BY <1>2 DEF QueueFits
<1>5. \A i \in DOMAIN queue' : queue'[i] \in Waiter /\ Waits(queue'[i])
  BY <1>1, <1>2 DEF QueueFits
<1>6. ASSUME NEW v \in Waiter, v # <<r, w>>, Waits(v) PROVE Waits(v)'
  BY <1>6, OneMoves DEF Waits, Waiter, Parts
<1> QED BY <1>2, <1>3, <1>4, <1>5, <1>6 DEF QueueFits

-----------------------------------------------------------------------------
(* The holders of the connections.                                         *)

Keeps ==
  /\ UNCHANGED <<opened, free>>
  /\ \A r \in Requests, w \in Parts, c \in Clients : Has(r, w, c)' <=> Has(r, w, c)

Takes(r, w, c) ==
  /\ \/ c \in free /\ opened' = opened
     \/ free = {} /\ c = opened + 1 /\ opened' = c
  /\ free' = free \ {c}
  /\ \A x \in Requests, v \in Parts, d \in Clients :
       Has(x, v, d)' <=> Has(x, v, d) \/ (x = r /\ v = w /\ d = c)

Gives(r, w, c) ==
  /\ Has(r, w, c)
  /\ free' = free \cup {c} /\ opened' = opened
  /\ \A x \in Requests, v \in Parts, d \in Clients :
       Has(x, v, d)' <=> Has(x, v, d) /\ ~(x = r /\ v = w /\ d = c)

LEMMA KeepsHolders ==
  ASSUME HeldOnce, Keeps
  PROVE  HeldOnce'
BY DEF HeldOnce, Keeps, Idle

LEMMA TakesHolders ==
  ASSUME TypeOK, HeldOnce, NEW r \in Requests, NEW w \in Parts, NEW c \in Clients, Takes(r, w, c)
  PROVE  HeldOnce' /\ opened' \in 0..PoolSize /\ free' \subseteq 1..opened'
<1>1. opened \in Nat /\ PoolSize \in Nat /\ free \subseteq 1..opened /\ Idle(c)
  BY SizeAssumption DEF TypeOK, Takes, Idle
<1>2. \A d \in Clients : Idle(d)' <=> Idle(d) /\ d # c
  BY <1>1 DEF Takes, Idle, Clients
<1>3. opened' \in 0..PoolSize /\ free' \subseteq 1..opened'
  BY <1>1 DEF Takes, Clients, TypeOK
<1> QED BY <1>1, <1>2, <1>3 DEF HeldOnce, Takes

LEMMA GivesHolders ==
  ASSUME TypeOK, HeldOnce, NEW r \in Requests, NEW w \in Parts, NEW c \in Clients, Gives(r, w, c)
  PROVE  HeldOnce' /\ free' \subseteq 1..opened'
<1>1. opened \in Nat /\ PoolSize \in Nat /\ free \subseteq 1..opened /\ ~Idle(c)
  BY SizeAssumption DEF TypeOK, Gives, HeldOnce
<1>2. \A d \in Clients : Idle(d)' <=> Idle(d) \/ d = c
  BY <1>1 DEF Gives, Idle, Clients
<1>3. free' \subseteq 1..opened'
  BY <1>1 DEF Gives, Idle, Clients
<1> QED BY <1>1, <1>2, <1>3 DEF HeldOnce, Gives

-----------------------------------------------------------------------------
(* The tenants.                                                            *)

\* Who has been overtaken remains so.
LEMMA OvertakenStays ==
  ASSUME TypeOK, RequestsFit, NEW r \in Requests, NEW y, Moved(r, y), NEW c \in Clients,
         req[r].session # None => y.session = req[r].session,
         req[r].released => y.released,
         req[r].response # "open" => y.response = req[r].response,
         Overtaken(c)
  PROVE  Overtaken(c)'
<1>1. PICK x \in Requests :
        /\ req[x].session = c /\ req[x].released
        /\ req[x].response = "aborted" \/ Kind[x] = "join"
  BY DEF Overtaken
<1>2. c # None
  BY NoneAssumption DEF Clients
<1>3. req[x].response # "open"
  BY <1>1 DEF RequestsFit, RequestFits
<1>4. /\ req'[x].session = c /\ req'[x].released
      /\ req'[x].response = "aborted" \/ Kind[x] = "join"
  BY <1>1, <1>2, <1>3, OneMoves
<1> QED BY <1>4 DEF Overtaken

LEMMA TenantsKept ==
  ASSUME TenantsFit, UNCHANGED current_tenant, free' \subseteq free,
         \A c \in Clients : Overtaken(c) => Overtaken(c)',
         \A r \in Requests, w \in Parts, c \in Clients : Relies(r, w, c)' => Relies(r, w, c),
         free \subseteq Clients
  PROVE  TenantsFit'
<1>1. \A r \in Requests, w \in Parts, c \in Clients : Relies(r, w, c)' => InTenant(r, c)'
  BY DEF TenantsFit, InTenant
<1>2. ClearedUnlessOvertaken'
  BY DEF TenantsFit, ClearedUnlessOvertaken
<1> QED BY <1>1, <1>2 DEF TenantsFit

LEMMA TenantSet ==
  ASSUME TypeOK, TenantsFit, NEW c \in Clients, NEW t, SetTenant(c, t),
         free' \ {c} \subseteq free,
         \A d \in Clients : Overtaken(d) => Overtaken(d)',
         \A r \in Requests, w \in Parts, d \in Clients \ {c} : Relies(r, w, d)' => Relies(r, w, d),
         \A r \in Requests, w \in Parts : Relies(r, w, c)' => Overtaken(c)' \/ t = Tenant[r],
         c \in free' => Overtaken(c)' \/ t = None
  PROVE  TenantsFit'
<1>1. /\ current_tenant'[c] = t
      /\ \A d \in Clients \ {c} : current_tenant'[d] = current_tenant[d]
      /\ free \subseteq Clients
  BY SizeAssumption DEF SetTenant, TypeOK, Clients
<1>2. ASSUME NEW r \in Requests, NEW w \in Parts, NEW d \in Clients, Relies(r, w, d)'
      PROVE  InTenant(r, d)'
  <2>1. CASE d = c
    BY <1>1, <1>2, <2>1 DEF InTenant
  <2>2. CASE d # c
    BY <1>1, <1>2, <2>2 DEF InTenant, TenantsFit
  <2> QED BY <2>1, <2>2
<1>3. ClearedUnlessOvertaken'
  BY <1>1 DEF TenantsFit, ClearedUnlessOvertaken
<1> QED BY <1>2, <1>3 DEF TenantsFit

\* A connection that is given back is reset, and nobody relies on it any more.
LEMMA TenantGivenBack ==
  ASSUME TypeOK, HeldOnce, TenantsFit, NEW r \in Requests, NEW w \in Parts, NEW c \in Clients,
         Gives(r, w, c), SetTenant(c, None),
         \A d \in Clients : Overtaken(d) => Overtaken(d)',
         \A x \in Requests, v \in Parts, d \in Clients \ {c} : Relies(x, v, d)' => Relies(x, v, d)
  PROVE  TenantsFit'
<1>1. \A x \in Requests, v \in Parts : ~Relies(x, v, c)'
  <2>1. \A x \in Requests, v \in Parts : ~Has(x, v, c)'
    BY DEF HeldOnce, Gives
  <2> QED BY <2>1 DEF Relies
<1>2. free' \ {c} \subseteq free
  BY DEF Gives
<1> QED BY <1>1, <1>2, TenantSet

\* A connection that is taken was idle: only who takes it relies on it.
LEMMA TenantTaken ==
  ASSUME TypeOK, HeldOnce, TenantsFit, NEW r \in Requests, NEW w \in Parts, NEW c \in Clients,
         Takes(r, w, c), SetTenant(c, Tenant[r]),
         \A d \in Clients : Overtaken(d) => Overtaken(d)',
         \A x \in Requests, v \in Parts, d \in Clients \ {c} : Relies(x, v, d)' => Relies(x, v, d)
  PROVE  TenantsFit'
<1>1. Idle(c)
  BY SizeAssumption DEF TypeOK, Takes, Idle
<1>2. \A x \in Requests, v \in Parts : Relies(x, v, c)' => x = r
  <2>1. \A x \in Requests, v \in Parts : Has(x, v, c)' => x = r
    BY <1>1 DEF HeldOnce, Takes
  <2> QED BY <2>1 DEF Relies
<1>3. free' \ {c} \subseteq free /\ c \notin free'
  BY DEF Takes
<1> QED BY <1>2, <1>3, TenantSet

\* Work on the connection in the context of a request changes the tenant of
\* another only after that connection was given back; who does so has been
\* overtaken.
LEMMA TenantOfContext ==
  ASSUME TypeOK, RequestsFit, HeldOnce, TenantsFit, Keeps,
         NEW r \in Requests, NEW t, NEW c \in Clients, req[r].session = c, SetTenant(c, t),
         req[r].at # "answered" \/ Kind[r] = "join",
         \A d \in Clients : Overtaken(d) => Overtaken(d)',
         \A x \in Requests, v \in Parts, d \in Clients :
           <<x, v>> # <<r, "session">> /\ Relies(x, v, d)' => Relies(x, v, d),
         Relies(r, "session", c)' => t = Tenant[r]
  PROVE  TenantsFit'
<1>1. free' = free /\ opened' = opened
  BY DEF Keeps
<1>2. \A x \in Requests, v \in Parts, d \in Clients \ {c} : Relies(x, v, d)' => Relies(x, v, d)
  <2>1. \A d \in Clients \ {c} : ~Relies(r, "session", d)'
    BY DEF Relies, Has, Keeps, Parts
  <2> QED BY <2>1
<1>3. CASE req[r].released
  <2>1. req[r].response = "aborted" \/ Kind[r] = "join"
    BY <1>3 DEF RequestsFit, RequestFits, TypeOK, Request
  <2>2. Overtaken(c)'
    <3>1. Overtaken(c)
      BY <1>3, <2>1 DEF Overtaken
    <3> QED BY <3>1
  <2> QED BY <1>1, <1>2, <2>2, TenantSet
<1>4. CASE ~req[r].released
  <2>1. Has(r, "session", c) /\ "session" \in Parts
    BY <1>4 DEF Has, Parts
  <2>2. c \notin free
    BY <1>1, <2>1 DEF HeldOnce, Idle
  <2>3. \A x \in Requests, v \in Parts : Has(x, v, c)' => x = r /\ v = "session"
    BY <1>1, <2>1 DEF HeldOnce, Keeps
  <2>4. \A x \in Requests, v \in Parts : Relies(x, v, c)' => t = Tenant[x]
    BY <2>3 DEF Relies
  <2> QED BY <1>1, <1>2, <2>2, <2>4, TenantSet
<1> QED BY <1>3, <1>4

-----------------------------------------------------------------------------
(* Steps that leave the tenants of the connections alone.                  *)

LEMMA InvPieces ==
  ASSUME Inv
  PROVE  /\ TypeOK /\ RequestsFit /\ QueueFits /\ HeldOnce /\ TenantsFit
         /\ \A r \in Requests : RequestFits(r) /\ req[r] \in Request
         /\ opened \in Nat /\ PoolSize \in Nat /\ free \subseteq Clients
BY SizeAssumption DEF Inv, TypeOK, RequestsFit, Clients

\* A step of one request that neither takes nor gives nor touches a connection.
LEMMA PlainStep ==
  ASSUME Inv, NEW r \in Requests, NEW y, Moved(r, y), RequestFits(r)',
         UNCHANGED <<opened, free, current_tenant>>,
         queue' \in Seq(Waiter), QueueFits',
         y.session = req[r].session, y.tx = req[r].tx, y.hookTx = req[r].hookTx,
         y.released <=> req[r].released,
         req[r].response # "open" => y.response = req[r].response,
         y.at \in {"working", "waiting", "inTx", "detached"} =>
           req[r].at \in {"working", "waiting", "inTx", "detached"}
  PROVE  Inv'
<1> USE InvPieces
<1>1. TypeOK'
  BY OneMoves DEF TypeOK
<1>2. RequestsFit'
  BY OthersFit
<1>3. Keeps
  BY OneMoves, NoneAssumption DEF Keeps, Has, Clients
<1>4. HeldOnce'
  BY <1>3, KeepsHolders
<1>5. \A c \in Clients : Overtaken(c) => Overtaken(c)'
  BY OvertakenStays
<1>6. \A x \in Requests, w \in Parts, c \in Clients : Relies(x, w, c)' => Relies(x, w, c)
  BY <1>3, OneMoves DEF Relies, Keeps
<1>7. TenantsFit'
  BY <1>5, <1>6, TenantsKept
<1> QED BY <1>1, <1>2, <1>4, <1>7 DEF Inv

LEMMA ArriveKeeps ==
  ASSUME Inv, NEW r \in Requests, Arrive(r)
  PROVE  Inv'
<1> DEFINE y == [req[r] EXCEPT !.at = "connecting"]
<1>1. /\ req[r] \in Request /\ RequestFits(r)
      /\ TypeOK /\ RequestsFit /\ QueueFits
  BY InvPieces
<1>2. req[r].at = "new"
  BY DEF Arrive
<1>3. Moved(r, y)
  BY <1>1 DEF Arrive, Moved, Request
<1>4. req' \in [Requests -> Request] /\ req'[r] = y
  BY <1>1, <1>3, OneMoves
<1>5. RequestFits(r)'
  BY <1>1, <1>2, <1>4 DEF RequestFits, Request
<1>6. queue' \in Seq(Waiter) /\ QueueFits'
  <2>1. ~Waits(<<r, "session">>) /\ Waits(<<r, "session">>)' /\ "session" \in Parts
    BY <1>1, <1>2, <1>4 DEF Waits, Parts, Request
  <2> QED BY <1>1, <1>2, <1>3, <2>1, QueueGrows DEF Arrive, Request
<1> QED BY <1>1, <1>2, <1>3, <1>5, <1>6, PlainStep DEF Arrive, Request, RequestFits

LEMMA BeginTxKeeps ==
  ASSUME Inv, NEW r \in Requests, BeginTx(r)
  PROVE  Inv'
<1> DEFINE y == [req[r] EXCEPT !.at = "waiting"]
<1>1. /\ req[r] \in Request /\ RequestFits(r)
      /\ TypeOK /\ RequestsFit /\ QueueFits
  BY InvPieces
<1>2. req[r].at = "working" /\ req[r].todo > 0
  BY DEF BeginTx, MayTransact
<1>3. Moved(r, y)
  BY <1>1 DEF BeginTx, Moved, Request
<1>4. req' \in [Requests -> Request] /\ req'[r] = y
  BY <1>1, <1>3, OneMoves
<1>5. RequestFits(r)'
  BY <1>1, <1>2, <1>4 DEF RequestFits, Request
<1>6. queue' \in Seq(Waiter) /\ QueueFits'
  <2>1. ~Waits(<<r, "handler">>) /\ Waits(<<r, "handler">>)' /\ "handler" \in Parts
    BY <1>1, <1>2, <1>4 DEF Waits, Parts, Request
  <2> QED BY <1>1, <1>2, <1>3, <2>1, QueueGrows DEF BeginTx, Request
<1> QED BY <1>1, <1>2, <1>3, <1>5, <1>6, PlainStep DEF BeginTx, Request, RequestFits

LEMMA HookBeginTxKeeps ==
  ASSUME Inv, NEW r \in Requests, HookBeginTx(r)
  PROVE  Inv'
<1> DEFINE y == [req[r] EXCEPT !.hook = "waiting"]
<1>1. /\ req[r] \in Request /\ RequestFits(r)
      /\ TypeOK /\ RequestsFit /\ QueueFits
  BY InvPieces
<1>2. req[r].hook = "working" /\ req[r].hookTodo > 0
  BY DEF HookBeginTx, MayTransact
<1>3. Moved(r, y)
  BY <1>1 DEF HookBeginTx, Moved, Request
<1>4. req' \in [Requests -> Request] /\ req'[r] = y
  BY <1>1, <1>3, OneMoves
<1>5. RequestFits(r)'
  BY <1>1, <1>2, <1>4 DEF RequestFits, Request
<1>6. queue' \in Seq(Waiter) /\ QueueFits'
  <2>1. ~Waits(<<r, "hook">>) /\ Waits(<<r, "hook">>)' /\ "hook" \in Parts
    BY <1>1, <1>2, <1>4 DEF Waits, Parts, Request
  <2> QED BY <1>1, <1>2, <1>3, <2>1, QueueGrows DEF HookBeginTx, Request
<1> QED BY <1>1, <1>2, <1>3, <1>5, <1>6, PlainStep DEF HookBeginTx, Request, RequestFits

LEMMA DetachKeeps ==
  ASSUME Inv, NEW r \in Requests, Detach(r)
  PROVE  Inv'
<1> DEFINE y == [req[r] EXCEPT !.at = "detached", !.hook = "started"]
<1>1. /\ req[r] \in Request /\ RequestFits(r)
      /\ TypeOK /\ RequestsFit /\ QueueFits
  BY InvPieces
<1>2. req[r].at = "working"
  BY DEF Detach
<1>3. Moved(r, y)
  BY <1>1 DEF Detach, Moved, Request
<1>4. req' \in [Requests -> Request] /\ req'[r] = y
  BY <1>1, <1>3, OneMoves
<1>5. RequestFits(r)'
  BY <1>1, <1>2, <1>4 DEF RequestFits, Request
<1>6. queue' \in Seq(Waiter) /\ QueueFits'
  BY <1>1, <1>2, <1>3, QueueKept DEF Detach, Request, RequestFits, TypeOK
<1> QED BY <1>1, <1>2, <1>3, <1>5, <1>6, PlainStep DEF Detach, Request, RequestFits

LEMMA HangUpKeeps ==
  ASSUME Inv, NEW r \in Requests, HangUp(r)
  PROVE  Inv'
<1> DEFINE y == [req[r] EXCEPT !.response = "aborted", !.events = {"close"}]
<1>1. /\ req[r] \in Request /\ RequestFits(r)
      /\ TypeOK /\ RequestsFit /\ QueueFits
  BY InvPieces
<1>2. req[r].at \notin {"new", "connecting", "answered"} /\ req[r].response = "open"
  BY DEF HangUp
<1>3. Moved(r, y)
  BY <1>1 DEF HangUp, Moved, Request
<1>4. req' \in [Requests -> Request] /\ req'[r] = y
  BY <1>1, <1>3, OneMoves
<1>5. RequestFits(r)'
  BY <1>1, <1>2, <1>4 DEF RequestFits, Request
<1>6. queue' \in Seq(Waiter) /\ QueueFits'
  BY <1>1, <1>2, <1>3, QueueKept DEF HangUp, Request, TypeOK
<1> QED BY <1>1, <1>2, <1>3, <1>5, <1>6, PlainStep DEF HangUp, Request, RequestFits

-----------------------------------------------------------------------------
(* Steps that set the tenant of the connection in the context.             *)

LEMMA ContextStep ==
  ASSUME Inv, NEW r \in Requests, NEW y, Moved(r, y), RequestFits(r)', QueueFits',
         UNCHANGED <<opened, free, queue>>,
         NEW c \in Clients, req[r].session = c,
         NEW t \in {Tenant[r], None}, SetTenant(c, t),
         req[r].at # "answered" \/ Kind[r] = "join",
         y.session = req[r].session, y.tx = req[r].tx, y.hookTx = req[r].hookTx,
         y.released <=> req[r].released,
         req[r].response # "open" => y.response = req[r].response,
         y.at # "answered" => t = Tenant[r]
  PROVE  Inv'
<1>1. /\ TypeOK /\ RequestsFit /\ QueueFits /\ HeldOnce /\ TenantsFit
      /\ free \subseteq Clients
  BY InvPieces
<1>2. /\ req' \in [Requests -> Request] /\ req'[r] = y
      /\ \A x \in Requests \ {r} : req'[x] = req[x]
  BY <1>1, OneMoves
<1>3. TypeOK'
  BY <1>1, <1>2 DEF TypeOK, SetTenant, Tenants
<1>4. RequestsFit'
  BY <1>1, OthersFit
<1>5. Keeps
  BY <1>2 DEF Keeps, Has
<1>6. HeldOnce'
  BY <1>1, <1>5, KeepsHolders
<1>7. \A d \in Clients : Overtaken(d) => Overtaken(d)'
  BY <1>1, OvertakenStays
<1>8. \A x \in Requests, v \in Parts, d \in Clients :
        <<x, v>> # <<r, "session">> /\ Relies(x, v, d)' => Relies(x, v, d)
  BY <1>2, <1>5 DEF Relies, Keeps
<1>9. Relies(r, "session", c)' => t = Tenant[r]
  BY <1>2 DEF Relies
<1>10. TenantsFit'
  BY <1>1, <1>5, <1>7, <1>8, <1>9, TenantOfContext
<1> QED BY <1>3, <1>4, <1>6, <1>10 DEF Inv

LEMMA BindKeeps ==
  ASSUME Inv, NEW r \in Requests, Bind(r)
  PROVE  Inv'
<1> DEFINE y == [req[r] EXCEPT !.at = "working"]
<1>1. /\ req[r] \in Request /\ RequestFits(r)
      /\ TypeOK /\ RequestsFit /\ QueueFits
  BY InvPieces
<1>2. req[r].at = "opened"
  BY DEF Bind
<1>3. Moved(r, y)
  BY <1>1 DEF Bind, Moved, Request
<1>4. req' \in [Requests -> Request] /\ req'[r] = y
  BY <1>1, <1>3, OneMoves
<1>5. RequestFits(r)'
  BY <1>1, <1>2, <1>4 DEF RequestFits, Request
<1>6. QueueFits'
  BY <1>1, <1>2, <1>3, QueueKept DEF Bind, Request
<1>7. PICK c \in Clients : req[r].session = c
  BY <1>1, <1>2 DEF RequestFits, Request
<1>8. SetTenant(c, Tenant[r])
  BY <1>7 DEF Bind, OpenTenant
<1> QED BY <1>1, <1>2, <1>3, <1>5, <1>6, <1>7, <1>8, ContextStep DEF Bind, Request

LEMMA AnswerKeeps ==
  ASSUME Inv, NEW r \in Requests, Answer(r)
  PROVE  Inv'
<1> DEFINE y == [req[r] EXCEPT
      !.at = "answered",
      !.response = IF @ = "open" THEN "finished" ELSE @,
      !.events = IF req[r].response = "open" THEN {"finish", "close"} ELSE @]
<1>1. /\ req[r] \in Request /\ RequestFits(r)
      /\ TypeOK /\ RequestsFit /\ QueueFits
  BY InvPieces
<1>2. req[r].at \in {"opened", "working", "detached"}
  BY DEF Answer
<1>3. Moved(r, y)
  BY <1>1 DEF Answer, Moved, Request
<1>4. req' \in [Requests -> Request] /\ req'[r] = y
  BY <1>1, <1>3, OneMoves
<1>5. RequestFits(r)'
  BY <1>1, <1>2, <1>4 DEF RequestFits, Request
<1>6. queue' \in Seq(Waiter) /\ QueueFits'
  BY <1>1, <1>2, <1>3, QueueKept DEF Answer, Request, TypeOK
<1>7. PICK c \in Clients : req[r].session = c
  BY <1>1, <1>2 DEF RequestFits, Request
<1>8. CASE Scoped(r) /\ req[r].at # "opened"
  <2>1. SetTenant(c, None)
    BY <1>7, <1>8 DEF Answer
  <2>2. /\ y.session = req[r].session /\ y.tx = req[r].tx /\ y.hookTx = req[r].hookTx
        /\ y.released = req[r].released /\ y.at = "answered"
        /\ req[r].response # "open" => y.response = req[r].response
        /\ UNCHANGED <<opened, free, queue>>
    BY <1>1 DEF Answer, Request
  <2> HIDE DEF y
  <2> QED BY <1>2, <1>3, <1>5, <1>6, <1>7, <2>1, <2>2, ContextStep
<1>9. CASE ~(Scoped(r) /\ req[r].at # "opened")
  BY <1>1, <1>2, <1>3, <1>5, <1>6, <1>9, PlainStep DEF Answer, Request
<1> QED BY <1>8, <1>9

LEMMA HookStartKeeps ==
  ASSUME Inv, NEW r \in Requests, HookStart(r)
  PROVE  Inv'
<1> DEFINE y == [req[r] EXCEPT !.hook = "working"]
<1>1. /\ req[r] \in Request /\ RequestFits(r)
      /\ TypeOK /\ RequestsFit /\ QueueFits
  BY InvPieces
<1>2. req[r].hook = "started"
  BY DEF HookStart
<1>3. Moved(r, y)
  BY <1>1 DEF HookStart, Moved, Request
<1>4. req' \in [Requests -> Request] /\ req'[r] = y
  BY <1>1, <1>3, OneMoves
<1>5. RequestFits(r)'
  BY <1>1, <1>2, <1>4 DEF RequestFits, Request
<1>6. queue' \in Seq(Waiter) /\ QueueFits'
  BY <1>1, <1>2, <1>3, QueueKept DEF HookStart, Request, TypeOK
<1>7. PICK c \in Clients : req[r].session = c
  BY <1>1, <1>2 DEF RequestFits, Request
<1>8. CASE Kind[r] = "join"
  <2>1. SetTenant(c, Tenant[r])
    BY <1>7, <1>8 DEF HookStart, HookSetsTenant
  <2> QED BY <1>1, <1>3, <1>5, <1>6, <1>7, <1>8, <2>1, ContextStep DEF HookStart, Request
<1>9. CASE Kind[r] # "join"
  BY <1>1, <1>2, <1>3, <1>5, <1>6, <1>9, PlainStep DEF HookStart, HookSetsTenant, Request
<1> QED BY <1>8, <1>9

LEMMA HookEndKeeps ==
  ASSUME Inv, NEW r \in Requests, HookEnd(r)
  PROVE  Inv'
<1> DEFINE y == [req[r] EXCEPT !.hook = "done"]
<1>1. /\ req[r] \in Request /\ RequestFits(r)
      /\ TypeOK /\ RequestsFit /\ QueueFits
  BY InvPieces
<1>2. req[r].hook = "working"
  BY DEF HookEnd
<1>3. Moved(r, y)
  BY <1>1 DEF HookEnd, Moved, Request
<1>4. req' \in [Requests -> Request] /\ req'[r] = y
  BY <1>1, <1>3, OneMoves
<1>5. RequestFits(r)'
  BY <1>1, <1>2, <1>4 DEF RequestFits, Request
<1>6. queue' \in Seq(Waiter) /\ QueueFits'
  BY <1>1, <1>2, <1>3, QueueKept DEF HookEnd, Request, TypeOK
<1>7. PICK c \in Clients : req[r].session = c
  BY <1>1, <1>2 DEF RequestFits, Request
<1>8. CASE Kind[r] = "join"
  <2>1. SetTenant(c, Tenant[r])
    BY <1>7, <1>8 DEF HookEnd, HookSetsTenant
  <2> QED BY <1>1, <1>3, <1>5, <1>6, <1>7, <1>8, <2>1, ContextStep DEF HookEnd, Request
<1>9. CASE Kind[r] # "join"
  BY <1>1, <1>2, <1>3, <1>5, <1>6, <1>9, PlainStep DEF HookEnd, HookSetsTenant, Request
<1> QED BY <1>8, <1>9

-----------------------------------------------------------------------------
(* Steps that give a connection back or take one.                          *)

LEMMA GiveStep ==
  ASSUME Inv, NEW r \in Requests, NEW y, Moved(r, y), RequestFits(r)', QueueFits',
         NEW w \in Parts, NEW c \in Clients, Gives(r, w, c), SetTenant(c, None),
         queue' = queue,
         y.session = req[r].session,
         req[r].released => y.released,
         req[r].response # "open" => y.response = req[r].response,
         y.at \in {"working", "waiting", "inTx", "detached"} =>
           req[r].at \in {"working", "waiting", "inTx", "detached"}
  PROVE  Inv'
<1>1. /\ TypeOK /\ RequestsFit /\ QueueFits /\ HeldOnce /\ TenantsFit
      /\ free \subseteq Clients
  BY InvPieces
<1>2. /\ req' \in [Requests -> Request] /\ req'[r] = y
      /\ \A x \in Requests \ {r} : req'[x] = req[x]
  BY <1>1, OneMoves
<1>3. HeldOnce' /\ free' \subseteq 1..opened'
  BY <1>1, GivesHolders
<1>4. TypeOK'
  BY <1>1, <1>2, <1>3 DEF TypeOK, SetTenant, Gives
<1>5. RequestsFit'
  BY <1>1, OthersFit
<1>6. \A d \in Clients : Overtaken(d) => Overtaken(d)'
  BY <1>1, OvertakenStays
<1>7. \A x \in Requests, v \in Parts, d \in Clients \ {c} : Relies(x, v, d)' => Relies(x, v, d)
  BY <1>2 DEF Relies, Gives
<1>8. TenantsFit'
  BY <1>1, <1>6, <1>7, TenantGivenBack
<1> QED BY <1>3, <1>4, <1>5, <1>8 DEF Inv

LEMMA EndTxKeeps ==
  ASSUME Inv, NEW r \in Requests, EndTx(r)
  PROVE  Inv'
<1> DEFINE y == [req[r] EXCEPT !.at = "working", !.tx = None, !.todo = @ - 1]
<1>1. /\ req[r] \in Request /\ RequestFits(r)
      /\ TypeOK /\ RequestsFit /\ QueueFits
  BY InvPieces
<1>2. req[r].at = "inTx"
  BY DEF EndTx
<1>3. Moved(r, y)
  <2>1. req[r].todo \in Nat /\ req[r].todo > 0
    BY <1>1, <1>2 DEF RequestFits, Request
  <2>2. req[r].todo - 1 \in Nat
    BY <2>1
  <2> QED BY <1>1, <2>2 DEF EndTx, Moved, Request
<1>4. /\ req' \in [Requests -> Request] /\ req'[r] = y
      /\ \A x \in Requests \ {r} : req'[x] = req[x]
  BY <1>1, <1>3, OneMoves
<1>5. RequestFits(r)'
  BY <1>1, <1>2, <1>4 DEF RequestFits, Request
<1>6. QueueFits'
  BY <1>1, <1>2, <1>3, QueueKept DEF EndTx, Request
<1>7. PICK c \in Clients : req[r].tx = c
  BY <1>1, <1>2 DEF RequestFits, Request
<1>8. Gives(r, "handler", c)
  BY <1>1, <1>4, <1>7, NoneAssumption DEF Gives, Has, Parts, EndTx, ResetAndRelease, Request, Clients
<1>9. SetTenant(c, None) /\ "handler" \in Parts
  BY <1>7 DEF EndTx, ResetAndRelease, Parts
<1>10. /\ y.session = req[r].session /\ y.response = req[r].response
       /\ y.released = req[r].released /\ queue' = queue
       /\ y.at \in {"working", "waiting", "inTx", "detached"} =>
            req[r].at \in {"working", "waiting", "inTx", "detached"}
  BY <1>1, <1>2 DEF EndTx, Request
<1> HIDE DEF y
<1> QED BY <1>3, <1>5, <1>6, <1>8, <1>9, <1>10, GiveStep

LEMMA HookEndTxKeeps ==
  ASSUME Inv, NEW r \in Requests, HookEndTx(r)
  PROVE  Inv'
<1> DEFINE y == [req[r] EXCEPT !.hook = "working", !.hookTx = None, !.hookTodo = @ - 1]
<1>1. /\ req[r] \in Request /\ RequestFits(r)
      /\ TypeOK /\ RequestsFit /\ QueueFits
  BY InvPieces
<1>2. req[r].hook = "inTx"
  BY DEF HookEndTx
<1>3. Moved(r, y)
  <2>1. req[r].hookTodo \in Nat /\ req[r].hookTodo > 0
    BY <1>1, <1>2 DEF RequestFits, Request
  <2>2. req[r].hookTodo - 1 \in Nat
    BY <2>1
  <2> QED BY <1>1, <2>2 DEF HookEndTx, Moved, Request
<1>4. /\ req' \in [Requests -> Request] /\ req'[r] = y
      /\ \A x \in Requests \ {r} : req'[x] = req[x]
  BY <1>1, <1>3, OneMoves
<1>5. RequestFits(r)'
  BY <1>1, <1>2, <1>4 DEF RequestFits, Request
<1>6. QueueFits'
  BY <1>1, <1>2, <1>3, QueueKept DEF HookEndTx, Request
<1>7. PICK c \in Clients : req[r].hookTx = c
  BY <1>1, <1>2 DEF RequestFits, Request
<1>8. Gives(r, "hook", c)
  BY <1>1, <1>4, <1>7, NoneAssumption DEF Gives, Has, Parts, HookEndTx, ResetAndRelease, Request, Clients
<1>9. SetTenant(c, None) /\ "hook" \in Parts
  BY <1>7 DEF HookEndTx, ResetAndRelease, Parts
<1>10. /\ y.session = req[r].session /\ y.response = req[r].response
       /\ y.released = req[r].released /\ queue' = queue
       /\ y.at \in {"working", "waiting", "inTx", "detached"} =>
            req[r].at \in {"working", "waiting", "inTx", "detached"}
  BY <1>1, <1>2 DEF HookEndTx, Request
<1> HIDE DEF y
<1> QED BY <1>3, <1>5, <1>6, <1>8, <1>9, <1>10, GiveStep

\* The first event gives the connection in the context back; a second finds
\* it released.
LEMMA OnEventKeeps ==
  ASSUME Inv, NEW r \in Requests, NEW e \in {"finish", "close"}, OnEvent(r, e)
  PROVE  Inv'
<1> DEFINE y == [req[r] EXCEPT !.events = @ \ {e}, !.released = TRUE]
<1>1. /\ req[r] \in Request /\ RequestFits(r)
      /\ TypeOK /\ RequestsFit /\ QueueFits
  BY InvPieces
<1>2. req[r].response # "open" /\ req[r].at \notin {"new", "connecting"}
  BY <1>1 DEF OnEvent, RequestFits
<1>3. Moved(r, y)
  BY <1>1 DEF OnEvent, Moved, Request
<1>4. /\ req' \in [Requests -> Request] /\ req'[r] = y
      /\ \A x \in Requests \ {r} : req'[x] = req[x]
  BY <1>1, <1>3, OneMoves
<1>5. RequestFits(r)'
  BY <1>1, <1>2, <1>4 DEF RequestFits, Request
<1>6. queue' \in Seq(Waiter) /\ QueueFits'
  BY <1>1, <1>2, <1>3, QueueKept DEF OnEvent, Request, TypeOK
<1>7. PICK c \in Clients : req[r].session = c
  BY <1>1, <1>2 DEF RequestFits, Request
<1>8. CASE req[r].released
  BY <1>1, <1>2, <1>3, <1>5, <1>6, <1>8, PlainStep DEF OnEvent, ReleasedAlready, Request
<1>9. CASE ~req[r].released
  <2>1. Gives(r, "session", c)
    BY <1>1, <1>4, <1>7, <1>9, NoneAssumption
    DEF Gives, Has, Parts, OnEvent, ReleasedAlready, ResetAndRelease, Request, Clients
  <2>2. SetTenant(c, None) /\ "session" \in Parts
    BY <1>7, <1>9 DEF OnEvent, ReleasedAlready, ResetAndRelease, Parts
  <2>3. /\ y.session = req[r].session /\ y.response = req[r].response
        /\ y.released /\ y.at = req[r].at /\ queue' = queue
    BY <1>1 DEF OnEvent, Request
  <2> HIDE DEF y
  <2> QED BY <1>3, <1>5, <1>6, <2>1, <2>2, <2>3, GiveStep
<1> QED BY <1>8, <1>9

LEMMA TakeStep ==
  ASSUME Inv, NEW r \in Requests, NEW y, Moved(r, y), RequestFits(r)',
         queue' \in Seq(Waiter), QueueFits',
         NEW w \in Parts, NEW c \in Clients, Takes(r, w, c),
         \/ SetTenant(c, Tenant[r])
         \/ UNCHANGED current_tenant /\ y.at = "opened" /\ w = "session",
         req[r].session # None => y.session = req[r].session,
         req[r].released => y.released,
         req[r].response # "open" => y.response = req[r].response,
         \A d \in Clients : Relies(r, "session", d)' => Relies(r, "session", d)
  PROVE  Inv'
<1>1. /\ TypeOK /\ RequestsFit /\ QueueFits /\ HeldOnce /\ TenantsFit
      /\ free \subseteq Clients
  BY InvPieces
<1>2. /\ req' \in [Requests -> Request] /\ req'[r] = y
      /\ \A x \in Requests \ {r} : req'[x] = req[x]
  BY <1>1, OneMoves
<1>3. HeldOnce' /\ opened' \in 0..PoolSize /\ free' \subseteq 1..opened'
  BY <1>1, TakesHolders
<1>4. TypeOK'
  BY <1>1, <1>2, <1>3 DEF TypeOK, SetTenant, Tenants
<1>5. RequestsFit'
  BY <1>1, OthersFit
<1>6. \A d \in Clients : Overtaken(d) => Overtaken(d)'
  BY <1>1, OvertakenStays
<1>7. \A x \in Requests, v \in Parts, d \in Clients :
        Relies(x, v, d)' => Relies(x, v, d) \/ (x = r /\ v = w /\ d = c)
  BY <1>2 DEF Relies, Takes
<1>8. CASE SetTenant(c, Tenant[r])
  BY <1>1, <1>3, <1>4, <1>5, <1>6, <1>7, <1>8, TenantTaken DEF Inv
<1>9. CASE UNCHANGED current_tenant /\ y.at = "opened" /\ w = "session"
  <2>1. \A x \in Requests, v \in Parts, d \in Clients : Relies(x, v, d)' => Relies(x, v, d)
    BY <1>7, <1>9
  <2>2. free' \subseteq free
    BY DEF Takes
  <2>3. TenantsFit'
    BY <1>1, <1>6, <1>9, <2>1, <2>2, TenantsKept
  <2> QED BY <1>3, <1>4, <1>5, <2>3 DEF Inv
<1> QED BY <1>8, <1>9

\* The first of the queue is one who waits.
LEMMA HeadWaits ==
  ASSUME Inv, queue # <<>>
  PROVE  /\ Head(queue) \in Waiter /\ Waits(Head(queue))
         /\ queue' = Tail(queue) => queue' \in Seq(Waiter)
<1>1. queue \in Seq(Waiter) /\ QueueFits
  BY DEF Inv, TypeOK
<1> QED BY <1>1 DEF QueueFits

LEMMA ServeKeeps ==
  ASSUME Inv, NEW c \in Clients, Serve(c)
  PROVE  Inv'
<1>1. /\ TypeOK /\ RequestsFit /\ QueueFits
      /\ queue # <<>> /\ queue' = Tail(queue)
  BY InvPieces DEF Serve
<1>2. Head(queue) \in Waiter /\ Waits(Head(queue))
  BY <1>1, HeadWaits
<1>3. PICK r \in Requests, w \in Parts : Head(queue) = <<r, w>>
  BY <1>2 DEF Waiter, Parts
<1>4. req[r] \in Request /\ RequestFits(r)
  BY InvPieces
<1>5. \A d \in Clients : d # None
  BY NoneAssumption DEF Clients
<1>9. /\ \/ c \in free /\ opened' = opened
         \/ free = {} /\ c = opened + 1 /\ opened' = c
      /\ free' = free \ {c}
  BY DEF Serve
<1>10. \/ /\ w = "session" /\ UNCHANGED current_tenant
          /\ req' = [req EXCEPT ![r].at = "opened", ![r].session = c]
       \/ /\ w = "handler" /\ SetTenant(c, Tenant[r])
          /\ req' = [req EXCEPT ![r].at = "inTx", ![r].tx = c]
       \/ /\ w = "hook" /\ SetTenant(c, Tenant[r])
          /\ req' = [req EXCEPT ![r].hook = "inTx", ![r].hookTx = c]
  BY <1>3 DEF Serve
<1>6. CASE w = "session"
  <2> DEFINE y == [req[r] EXCEPT !.at = "opened", !.session = c]
  <2>1. req[r].at = "connecting" /\ req[r].session = None
    BY <1>2, <1>3, <1>4, <1>6 DEF Waits, RequestFits
  <2>2. Moved(r, y) /\ UNCHANGED current_tenant
    BY <1>4, <1>6, <1>10 DEF Moved, Request
  <2>3. /\ req' \in [Requests -> Request] /\ req'[r] = y
        /\ \A x \in Requests \ {r} : req'[x] = req[x]
    BY <1>1, <2>2, OneMoves
  <2>4. RequestFits(r)'
    BY <1>4, <1>5, <2>1, <2>3 DEF RequestFits, Request
  <2>5. /\ req[r].released => y.released
        /\ req[r].response # "open" => y.response = req[r].response
        /\ y.at = "opened" /\ y.hook = req[r].hook
        /\ y.tx = req[r].tx /\ y.hookTx = req[r].hookTx /\ y.session = c
        /\ ~y.released
    BY <1>4, <2>1 DEF Request, RequestFits
  <2>6. queue' \in Seq(Waiter) /\ QueueFits'
    BY <1>1, <1>3, <1>6, <2>1, <2>2, <2>5, QueueServed
  <2>7. Takes(r, w, c)
    <3>1. \A x \in Requests \ {r}, v \in Parts, d \in Clients : Has(x, v, d)' <=> Has(x, v, d)
      BY <2>3 DEF Has
    <3>2. \A v \in Parts, d \in Clients : Has(r, v, d)' <=> Has(r, v, d) \/ (v = w /\ d = c)
      BY <1>4, <1>5, <1>6, <2>1, <2>3, <2>5 DEF Has, Parts
    <3> QED BY <1>9, <3>1, <3>2 DEF Takes
  <2>8. \A d \in Clients : ~Relies(r, "session", d)'
    BY <2>3, <2>5 DEF Relies
  <2> HIDE DEF y
  <2> QED BY <1>6, <2>1, <2>2, <2>4, <2>5, <2>6, <2>7, <2>8, TakeStep
<1>7. CASE w = "handler"
  <2> DEFINE y == [req[r] EXCEPT !.at = "inTx", !.tx = c]
  <2>1. req[r].at = "waiting" /\ req[r].tx = None
    BY <1>2, <1>3, <1>4, <1>7 DEF Waits, RequestFits
  <2>2. Moved(r, y) /\ SetTenant(c, Tenant[r])
    BY <1>4, <1>7, <1>10 DEF Moved, Request
  <2>3. /\ req' \in [Requests -> Request] /\ req'[r] = y
        /\ \A x \in Requests \ {r} : req'[x] = req[x]
    BY <1>1, <2>2, OneMoves
  <2>4. RequestFits(r)'
    BY <1>4, <1>5, <2>1, <2>3 DEF RequestFits, Request
  <2>5. /\ y.released = req[r].released /\ y.response = req[r].response
        /\ y.hook = req[r].hook
        /\ y.tx = c /\ y.hookTx = req[r].hookTx /\ y.session = req[r].session
    BY <1>4, <2>1 DEF Request, RequestFits
  <2>6. queue' \in Seq(Waiter) /\ QueueFits'
    BY <1>1, <1>3, <1>7, <2>1, <2>2, <2>5, QueueServed
  <2>7. Takes(r, w, c)
    <3>1. \A x \in Requests \ {r}, v \in Parts, d \in Clients : Has(x, v, d)' <=> Has(x, v, d)
      BY <2>3 DEF Has
    <3>2. \A v \in Parts, d \in Clients : Has(r, v, d)' <=> Has(r, v, d) \/ (v = w /\ d = c)
      BY <1>4, <1>5, <1>7, <2>1, <2>3, <2>5 DEF Has, Parts
    <3> QED BY <1>9, <3>1, <3>2 DEF Takes
  <2>8. \A d \in Clients : Relies(r, "session", d)' => Relies(r, "session", d)
    BY <2>1, <2>3, <2>5 DEF Relies, Has
  <2> HIDE DEF y
  <2> QED BY <2>2, <2>4, <2>5, <2>6, <2>7, <2>8, TakeStep
<1>8. CASE w = "hook"
  <2> DEFINE y == [req[r] EXCEPT !.hook = "inTx", !.hookTx = c]
  <2>1. req[r].hook = "waiting" /\ req[r].hookTx = None
    BY <1>2, <1>3, <1>4, <1>8 DEF Waits, RequestFits
  <2>2. Moved(r, y) /\ SetTenant(c, Tenant[r])
    BY <1>4, <1>8, <1>10 DEF Moved, Request
  <2>3. /\ req' \in [Requests -> Request] /\ req'[r] = y
        /\ \A x \in Requests \ {r} : req'[x] = req[x]
    BY <1>1, <2>2, OneMoves
  <2>4. RequestFits(r)'
    BY <1>4, <1>5, <2>1, <2>3 DEF RequestFits, Request
  <2>5. /\ y.released = req[r].released /\ y.response = req[r].response
        /\ y.at = req[r].at
        /\ y.tx = req[r].tx /\ y.hookTx = c /\ y.session = req[r].session
    BY <1>4, <2>1 DEF Request, RequestFits
  <2>6. queue' \in Seq(Waiter) /\ QueueFits'
    BY <1>1, <1>3, <1>8, <2>1, <2>2, <2>5, QueueServed
  <2>7. Takes(r, w, c)
    <3>1. \A x \in Requests \ {r}, v \in Parts, d \in Clients : Has(x, v, d)' <=> Has(x, v, d)
      BY <2>3 DEF Has
    <3>2. \A v \in Parts, d \in Clients : Has(r, v, d)' <=> Has(r, v, d) \/ (v = w /\ d = c)
      BY <1>4, <1>5, <1>8, <2>1, <2>3, <2>5 DEF Has, Parts
    <3> QED BY <1>9, <3>1, <3>2 DEF Takes
  <2>8. \A d \in Clients : Relies(r, "session", d)' => Relies(r, "session", d)
    BY <2>1, <2>3, <2>5 DEF Relies, Has
  <2> HIDE DEF y
  <2> QED BY <2>2, <2>4, <2>5, <2>6, <2>7, <2>8, TakeStep
<1> QED BY <1>6, <1>7, <1>8 DEF Parts

-----------------------------------------------------------------------------
(* The theorems.                                                           *)

LEMMA InvKept ==
  ASSUME Inv, [Next]_vars
  PROVE  Inv'
<1>1. CASE \E c \in Clients : Serve(c)
  BY <1>1, ServeKeeps
<1>2. ASSUME NEW r \in Requests, Arrive(r) \/ Handler(r) \/ HangUp(r) \/ Hook(r)
      PROVE  Inv'
  <2>1. CASE Arrive(r)
    BY <2>1, ArriveKeeps
  <2>2. CASE Handler(r)
    BY <2>2, BindKeeps, BeginTxKeeps, EndTxKeeps, DetachKeeps, AnswerKeeps, OnEventKeeps
    DEF Handler
  <2>3. CASE HangUp(r)
    BY <2>3, HangUpKeeps
  <2>4. CASE Hook(r)
    BY <2>4, HookStartKeeps, HookBeginTxKeeps, HookEndTxKeeps, HookEndKeeps DEF Hook
  <2> QED BY <1>2, <2>1, <2>2, <2>3, <2>4
<1>3. CASE UNCHANGED vars
  BY <1>3 DEF vars, Inv, TypeOK, RequestsFit, RequestFits, QueueFits, Waits, HeldOnce, Has, Idle,
              TenantsFit, Relies, InTenant, Overtaken, ClearedUnlessOvertaken
<1> QED BY <1>1, <1>2, <1>3 DEF Next, Quiet

THEOREM InvAlways == Spec => []Inv
<1>1. Init => Inv
  BY InvHolds
<1>2. Inv /\ [Next]_vars => Inv'
  BY InvKept
<1> QED BY <1>1, <1>2, PTL DEF Spec

(* The connections, the pool's queue and the requests have their types.    *)
THEOREM TypeCorrect == Spec => []TypeOK
<1>1. Inv => TypeOK
  BY DEF Inv
<1> QED BY <1>1, InvAlways, PTL

(* An idle connection has no holder and every other one exactly one: the   *)
(* request in whose context it is, or one transaction of it.  A response   *)
(* that finishes and closes does not release its connection twice.         *)
THEOREM OneHolderCorrect == Spec => []OneHolder
<1>1. ASSUME Inv PROVE OneHolder
  <2> SUFFICES ASSUME NEW c \in Clients
               PROVE  Cardinality(Holders(c)) = IF c \in free \/ c > opened THEN 0 ELSE 1
    BY DEF OneHolder
  <2>1. HeldOnce
    BY <1>1 DEF Inv
  <2>2. Holders(c) = {h \in Requests \X Parts : Has(h[1], h[2], c)}
    BY DEF Holders, Has, Parts
  <2>3. CASE Idle(c)
    <3>1. Holders(c) = {}
      BY <2>1, <2>2, <2>3 DEF HeldOnce
    <3> QED BY <2>3, <3>1, FS_EmptySet DEF Idle
  <2>4. CASE ~Idle(c)
    <3>1. PICK r \in Requests, w \in Parts : Has(r, w, c)
      BY <2>1, <2>4 DEF HeldOnce
    <3>2. \A x \in Requests, v \in Parts : Has(x, v, c) => x = r /\ v = w
      BY <2>1, <3>1 DEF HeldOnce
    <3>3. Holders(c) = {<<r, w>>}
      BY <2>2, <3>1, <3>2
    <3> QED BY <2>4, <3>3, FS_Singleton DEF Idle
  <2> QED BY <2>3, <2>4
<1> QED BY <1>1, InvAlways, PTL

(* A handler, and every transaction, runs on a connection that shows it    *)
(* the rows of its own business, unless a request whose response had ended *)
(* before its work did sets the tenant of a connection it has given back.  *)
THEOREM TenantCorrect == Spec => []WorkInTenant
<1>1. ASSUME Inv PROVE WorkInTenant
  <2>1. ASSUME NEW r \in Requests
        PROVE  /\ req[r] \in Request /\ RequestFits(r)
               /\ \A w \in Parts, c \in Clients : Relies(r, w, c) => InTenant(r, c)
    BY <1>1, InvPieces DEF TenantsFit
  <2>2. ASSUME NEW r \in Requests, ~req[r].released,
               req[r].at \in {"working", "waiting", "inTx", "detached"}
        PROVE  InTenant(r, req[r].session)
    <3>1. req[r].session \in Clients /\ Relies(r, "session", req[r].session)
      BY <2>1, <2>2 DEF Relies, Has, RequestFits, Request
    <3> QED BY <2>1, <3>1 DEF Parts
  <2>3. ASSUME NEW r \in Requests, req[r].at = "inTx"
        PROVE  InTenant(r, req[r].tx)
    <3>1. req[r].tx \in Clients /\ Relies(r, "handler", req[r].tx)
      BY <2>1, <2>3 DEF Relies, Has, RequestFits, Request
    <3> QED BY <2>1, <3>1 DEF Parts
  <2>4. ASSUME NEW r \in Requests, req[r].hook = "inTx"
        PROVE  InTenant(r, req[r].hookTx)
    <3>1. req[r].hookTx \in Clients /\ Relies(r, "hook", req[r].hookTx)
      BY <2>1, <2>4 DEF Relies, Has, RequestFits, Request
    <3> QED BY <2>1, <3>1 DEF Parts
  <2> QED BY <2>2, <2>3, <2>4 DEF WorkInTenant
<1> QED BY <1>1, InvAlways, PTL

(* A connection that carries a tenant while it is idle got it from such a  *)
(* request: every release has reset it.                                    *)
THEOREM ClearedCorrect == Spec => []ClearedUnlessOvertaken
<1>1. Inv => ClearedUnlessOvertaken
  BY DEF Inv, TenantsFit
<1> QED BY <1>1, InvAlways, PTL
=============================================================================
