-------------------------- MODULE RequestSessions --------------------------
(***************************************************************************)
(* Database connections of the API: the pool (db/pools.js), the connection *)
(* that a request keeps until its response has ended (middleware/          *)
(* pg-client.js), the second one that a transaction takes meanwhile        *)
(* (db/transactions.js), and the tenant that row level security reads from *)
(* the connection (app.current_tenant, set by db/session.js).              *)
(*                                                                         *)
(* An award and a join go on after their response: they start hooks that   *)
(* nobody awaits and that still hold the context of the request, with its  *)
(* connection.  A client may also hang up while its handler runs.          *)
(***************************************************************************)
EXTENDS Naturals, Sequences, FiniteSets

CONSTANTS
  PoolSize,       \* connections the pool may open (max in db/pools.js)
  Requests,       \* HTTP requests, each served once
  Kind,           \* Kind[r] is "staff", "award", "public" or "join"
  Tenant,         \* Tenant[r]: the business that request r is about
  Transactions,   \* transactions that a handler or its hooks may run
  None            \* no connection, no tenant

Kinds == {"staff", "award", "public", "join"}

ASSUME KindAssumption == Kind \in [Requests -> Kinds]
ASSUME SizeAssumption == PoolSize \in Nat /\ Transactions \in Nat
ASSUME TenantAssumption == \A r \in Requests : Tenant[r] # None
ASSUME NoneAssumption == None \notin 1..PoolSize

VARIABLES
  opened,         \* number of connections that the pool has opened
  free,           \* idle connections
  queue,          \* who waits in pool.connect(), in order
  current_tenant, \* app.current_tenant of each connection
  req             \* the requests

Clients == 1..PoolSize

vars == <<opened, free, queue, current_tenant, req>>

Tenants == {Tenant[r] : r \in Requests}
Waiter == Requests \X {"session", "handler", "hook"}

Request ==
  [at : {"new", "connecting", "opened", "working", "waiting", "inTx", "detached",
         "answered"},
   session : Clients \cup {None},        \* the client in the context of the request
   released : BOOLEAN,
   response : {"open", "finished", "aborted"},
   events : SUBSET {"finish", "close"},  \* of the response, not handled yet
   todo : Nat, tx : Clients \cup {None},
   hook : {"none", "started", "working", "waiting", "inTx", "done"},
   hookTodo : Nat, hookTx : Clients \cup {None}]

TypeOK ==
  /\ opened \in 0..PoolSize
  /\ free \subseteq 1..opened
  /\ queue \in Seq(Waiter)
  /\ current_tenant \in [Clients -> Tenants \cup {None}]
  /\ req \in [Requests -> Request]

Init ==
  /\ opened = 0
  /\ free = {}
  /\ queue = <<>>
  /\ current_tenant = [c \in Clients |-> None]
  /\ req = [r \in Requests |->
       [at |-> "new", session |-> None, released |-> FALSE, response |-> "open", events |-> {},
        todo |-> Transactions, tx |-> None,
        hook |-> "none", hookTodo |-> Transactions, hookTx |-> None]]

SetTenant(c, t) == current_tenant' = [current_tenant EXCEPT ![c] = t]

Detaching(r) == Kind[r] \in {"award", "join"}

\* Public routes open their tenant with withDbClientContext and close it again.
Scoped(r) == Kind[r] \in {"public", "join"}

-----------------------------------------------------------------------------
(* The pool.                                                               *)

Connect(r, who) == queue' = Append(queue, <<r, who>>)

\* pool.connect() resolves for the first in the queue, with an idle connection
\* or, when there is none, with a new one; BEGIN and set_config follow.
Serve(c) ==
  LET r == Head(queue)[1]
      who == Head(queue)[2]
  IN  /\ queue # <<>>
      /\ \/ c \in free /\ opened' = opened
         \/ free = {} /\ c = opened + 1 /\ opened' = c
      /\ free' = free \ {c}
      /\ queue' = Tail(queue)
      /\ \/ /\ who = "session"
            /\ req' = [req EXCEPT ![r].at = "opened", ![r].session = c]
            /\ UNCHANGED current_tenant
         \/ /\ who = "handler"
            /\ req' = [req EXCEPT ![r].at = "inTx", ![r].tx = c]
            /\ SetTenant(c, Tenant[r])
         \/ /\ who = "hook"
            /\ req' = [req EXCEPT ![r].hook = "inTx", ![r].hookTx = c]
            /\ SetTenant(c, Tenant[r])

ResetOnly(c) == SetTenant(c, None) /\ UNCHANGED free

ReleaseUnreset(c) == free' = free \cup {c} /\ UNCHANGED current_tenant

\* Reset the settings of the session and give the connection back.
ResetAndRelease(c) == SetTenant(c, None) /\ free' = free \cup {c}

-----------------------------------------------------------------------------
(* The handler of a request.                                               *)

Arrive(r) ==
  /\ req[r].at = "new"
  /\ req' = [req EXCEPT ![r].at = "connecting"]
  /\ Connect(r, "session")
  /\ UNCHANGED <<opened, free, current_tenant>>

TenantForgotten(r) == UNCHANGED current_tenant

OpenTenant(r) == SetTenant(req[r].session, Tenant[r])

\* tenantContext, or the beginning of withDbClientContext.
Bind(r) ==
  /\ req[r].at = "opened"
  /\ req' = [req EXCEPT ![r].at = "working"]
  /\ OpenTenant(r)
  /\ UNCHANGED <<opened, free, queue>>

MayAlwaysTransact(n) == n >= 0

MayTransact(n) == n > 0

BeginTx(r) ==
  /\ req[r].at = "working"
  /\ MayTransact(req[r].todo)
  /\ req' = [req EXCEPT ![r].at = "waiting"]
  /\ Connect(r, "handler")
  /\ UNCHANGED <<opened, free, current_tenant>>

\* COMMIT or ROLLBACK.
EndTx(r) ==
  /\ req[r].at = "inTx"
  /\ req' = [req EXCEPT ![r].at = "working", ![r].tx = None, ![r].todo = @ - 1]
  /\ ResetAndRelease(req[r].tx)
  /\ UNCHANGED <<opened, queue>>

\* void runPostAwardHooks(...); the hooks after a join.
Detach(r) ==
  /\ req[r].at = "working"
  /\ Detaching(r)
  /\ req' = [req EXCEPT ![r].at = "detached", ![r].hook = "started"]
  /\ UNCHANGED <<opened, free, queue, current_tenant>>

\* The handler returns or throws, or authentication has refused the request:
\* withDbClientContext restores what it found, and the response is sent,
\* whether the client is still there or not.
Answer(r) ==
  /\ req[r].at \in {"opened", "working", "detached"}
  /\ req' = [req EXCEPT ![r].at = "answered",
                        ![r].response = IF @ = "open" THEN "finished" ELSE @,
                        ![r].events = IF req[r].response = "open" THEN {"finish", "close"} ELSE @]
  /\ IF Scoped(r) /\ req[r].at # "opened"
       THEN SetTenant(req[r].session, None)
       ELSE UNCHANGED current_tenant
  /\ UNCHANGED <<opened, free, queue>>

\* The client hangs up; the handler is not told.
HangUp(r) ==
  /\ req[r].at \notin {"new", "connecting", "answered"}
  /\ req[r].response = "open"
  /\ req' = [req EXCEPT ![r].response = "aborted", ![r].events = {"close"}]
  /\ UNCHANGED <<opened, free, queue, current_tenant>>

NeverReleasedYet(r) == FALSE

ReleasedAlready(r) == req[r].released

\* releaseOnce, called for finish and then for close.
OnEvent(r, e) ==
  /\ e \in req[r].events
  /\ e = "close" => "finish" \notin req[r].events
  /\ req' = [req EXCEPT ![r].events = @ \ {e}, ![r].released = TRUE]
  /\ IF ReleasedAlready(r) THEN UNCHANGED <<free, current_tenant>>
                           ELSE ResetAndRelease(req[r].session)
  /\ UNCHANGED <<opened, queue>>

-----------------------------------------------------------------------------
(* The hooks of an award or a join.  Their transactions take the tenant    *)
(* from the context, which the end of the request does not change.  Those  *)
(* of a join run inside a withDbClientContext of their own, on the         *)
(* connection of the request.                                              *)

HookSetsTenant(r) ==
  IF Kind[r] = "join" THEN SetTenant(req[r].session, Tenant[r]) ELSE UNCHANGED current_tenant

HookStart(r) ==
  /\ req[r].hook = "started"
  /\ req' = [req EXCEPT ![r].hook = "working"]
  /\ HookSetsTenant(r)
  /\ UNCHANGED <<opened, free, queue>>

HookBeginTx(r) ==
  /\ req[r].hook = "working"
  /\ MayTransact(req[r].hookTodo)
  /\ req' = [req EXCEPT ![r].hook = "waiting"]
  /\ Connect(r, "hook")
  /\ UNCHANGED <<opened, free, current_tenant>>

HookEndTx(r) ==
  /\ req[r].hook = "inTx"
  /\ req' = [req EXCEPT ![r].hook = "working", ![r].hookTx = None, ![r].hookTodo = @ - 1]
  /\ ResetAndRelease(req[r].hookTx)
  /\ UNCHANGED <<opened, queue>>

\* withDbClientContext restores the tenant it found: that of the join around it.
HookEnd(r) ==
  /\ req[r].hook = "working"
  /\ req' = [req EXCEPT ![r].hook = "done"]
  /\ HookSetsTenant(r)
  /\ UNCHANGED <<opened, free, queue>>

-----------------------------------------------------------------------------
Handler(r) ==
  \/ Bind(r) \/ BeginTx(r) \/ EndTx(r) \/ Detach(r) \/ Answer(r)
  \/ \E e \in {"finish", "close"} : OnEvent(r, e)

Hook(r) == HookStart(r) \/ HookBeginTx(r) \/ HookEndTx(r) \/ HookEnd(r)

Served(r) == req[r].released /\ req[r].events = {} /\ req[r].hook \in {"none", "done"}

\* All requests are served and no more come.
Quiet == (\A r \in Requests : Served(r) /\ req[r].at = "answered") /\ UNCHANGED vars

Next ==
  \/ \E c \in Clients : Serve(c)
  \/ \E r \in Requests : Arrive(r) \/ Handler(r) \/ HangUp(r) \/ Hook(r)
  \/ Quiet

\* The event loop and the database go on: handlers and hooks do not hang, and
\* the pool serves its queue.  Nobody need send a request or hang up.
Fairness ==
  /\ WF_vars(\E c \in Clients : Serve(c))
  /\ \A r \in Requests : WF_vars(Handler(r)) /\ WF_vars(Hook(r))

Spec == Init /\ [][Next]_vars /\ Fairness

-----------------------------------------------------------------------------
(* A connection is idle or belongs to one session or one transaction: none *)
(* is released twice, by the end of the response and by its close, and     *)
(* none is forgotten.                                                      *)
Holders(c) ==
       {<<r, "session">> : r \in {x \in Requests : req[x].session = c /\ ~req[x].released}}
  \cup {<<r, "handler">> : r \in {x \in Requests : req[x].tx = c}}
  \cup {<<r, "hook">> : r \in {x \in Requests : req[x].hookTx = c}}

OneHolder ==
  \A c \in Clients :
    Cardinality(Holders(c)) = IF c \in free \/ c > opened THEN 0 ELSE 1

(* Work that still holds the connection it has given back may set the      *)
(* tenant of whoever has it now: the hooks of a join, and a handler whose  *)
(* client has hung up.                                                     *)
Overtaken(c) ==
  \E r \in Requests :
    /\ req[r].session = c
    /\ req[r].released
    /\ req[r].response = "aborted" \/ Kind[r] = "join"

(* Row level security shows a handler the rows of its own business only,   *)
(* and a transaction those of the business it was started for.             *)
InTenant(r, c) == Overtaken(c) \/ current_tenant[c] = Tenant[r]

WorkInTenant ==
  \A r \in Requests :
    /\ req[r].at \in {"working", "waiting", "inTx", "detached"} /\ ~req[r].released =>
         InTenant(r, req[r].session)
    /\ req[r].at = "inTx" => InTenant(r, req[r].tx)
    /\ req[r].hook = "inTx" => InTenant(r, req[r].hookTx)

(* No tenant is left on an idle connection but by such overtaken work.     *)
ClearedUnlessOvertaken ==
  \A c \in free : current_tenant[c] # None => Overtaken(c)

(* While fewer requests are in flight than the pool has connections, every *)
(* request is answered and gives its connections back, although each holds *)
(* one connection and waits for another.                                   *)
EveryRequestIsServed ==
  Cardinality(Requests) < PoolSize =>
    \A r \in Requests : req[r].at = "connecting" ~> Served(r)

-----------------------------------------------------------------------------
(* middleware/pg-client.js resets the settings of a connection before it   *)
(* gives it back, to "ensure session-scoped GUCs don't leak across pooled  *)
(* connections".  The hooks of a join, or a handler that goes on after its *)
(* client has hung up, set the tenant again afterwards.                    *)
ClearedOnRelease == \A c \in free : current_tenant[c] = None
=============================================================================
