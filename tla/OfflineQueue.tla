---------------------------- MODULE OfflineQueue ----------------------------
(***************************************************************************)
(* The sales that the staff app keeps while it is offline (public/idb.js,  *)
(* public/staff/index.js) and hands to POST /staff/sync later              *)
(* (staff-service).  The tabs of one browser share the queue, which is an  *)
(* object store of IndexedDB: each put, update (get and put) and delete is *)
(* one transaction, and between them tabs interleave, are closed and lose  *)
(* the network, before or after the server has done what they asked for.   *)
(***************************************************************************)
EXTENDS Naturals, FiniteSets

CONSTANTS
  Sales,     \* sales that will be registered; each has a fresh txId
  Tabs,      \* tabs with the staff app open
  MaxBatch   \* sales that one /staff/sync may hold, 200 in the code

VARIABLES
  queue,    \* status of each sale in the object store, "none" when not there
  sale,     \* what the page that registers each sale has come to
  fresh,    \* sales whose QR token has not expired
  applied,  \* sales the server has committed, by txId
  wire,     \* sales the server will still try although no tab waits for them
  tab       \* the sync that each tab is doing

offlineVars == <<queue, sale, fresh, applied, wire, tab>>

Quiet == [at |-> "open", batch |-> {}, left |-> {}, ok |-> {}]

QueueInit ==
  /\ queue = [s \in Sales |-> "none"]
  /\ sale = [s \in Sales |-> "new"]
  /\ fresh = Sales
  /\ applied = {}
  /\ wire = {}
  /\ tab = [t \in Tabs |-> Quiet]

Stored == {s \in Sales : queue[s] # "none"}

\* updateAward leaves alone what is no longer stored.
Updated(batch, status) ==
  [s \in Sales |-> IF s \in batch \cap Stored THEN status ELSE queue[s]]

\* deleteAward.
Deleted(s) == [queue EXCEPT ![s] = "none"]

-----------------------------------------------------------------------------
(* The server, for one sale: an expired QR token is refused before the     *)
(* txId is looked up, and plan limits and guards may refuse the sale, one  *)
(* that it has applied as well; else a txId already there is answered as   *)
(* before.                                                                 *)

Applies(s) == s \in fresh /\ applied' = applied \cup {s}

Refuses == UNCHANGED applied

-----------------------------------------------------------------------------
(* award(): the sale is posted with a fresh txId, and kept when the        *)
(* network fails.                                                          *)

SellOnline(s) ==
  /\ sale[s] = "new"
  /\ \/ Applies(s) /\ sale' = [sale EXCEPT ![s] = "done"]
     \/ Refuses /\ sale' = [sale EXCEPT ![s] = "refused"]
  /\ UNCHANGED <<queue, fresh, wire, tab>>

\* The network fails before or after the server has done it.
SellOffline(s) ==
  /\ sale[s] = "new"
  /\ sale' = [sale EXCEPT ![s] = "unsure"]
  /\ Applies(s) \/ Refuses
  /\ UNCHANGED <<queue, fresh, wire, tab>>

Keep(s) ==
  /\ sale[s] = "unsure"
  /\ queue' = [queue EXCEPT ![s] = "queued"]
  /\ sale' = [sale EXCEPT ![s] = "saved"]
  /\ UNCHANGED <<fresh, applied, wire, tab>>

\* The tab is closed before the sale is kept: nobody was told that it was.
Forget(s) ==
  /\ sale[s] = "unsure"
  /\ sale' = [sale EXCEPT ![s] = "refused"]
  /\ UNCHANGED <<queue, fresh, applied, wire, tab>>

-----------------------------------------------------------------------------
(* The sync button.                                                        *)

Becomes(t, work) == tab' = [tab EXCEPT ![t] = work]

ReadQueue(t) ==
  /\ tab[t].at = "open"
  /\ Stored # {}
  /\ Becomes(t, [Quiet EXCEPT !.at = "mark", !.batch = Stored])
  /\ UNCHANGED <<queue, sale, fresh, applied, wire>>

Mark(t) ==
  /\ tab[t].at = "mark"
  /\ queue' = Updated(tab[t].batch, "syncing")
  /\ Becomes(t, [tab[t] EXCEPT !.at = "sent", !.left = tab[t].batch])
  /\ UNCHANGED <<sale, fresh, applied, wire>>

Accepted(t) == Cardinality(tab[t].batch) <= MaxBatch

\* syncAwards takes the sales one by one, each in a transaction of its own.
ServeSale(t, s) ==
  /\ tab[t].at = "sent" /\ Accepted(t) /\ s \in tab[t].left
  /\ \/ Applies(s) /\ Becomes(t, [tab[t] EXCEPT !.left = @ \ {s}, !.ok = @ \cup {s}])
     \/ Refuses /\ Becomes(t, [tab[t] EXCEPT !.left = @ \ {s}])
  /\ UNCHANGED <<queue, sale, fresh, wire>>

Reply(t) ==
  /\ tab[t].at = "sent" /\ Accepted(t) /\ tab[t].left = {}
  /\ Becomes(t, [tab[t] EXCEPT !.at = "settle", !.left = tab[t].batch])
  /\ UNCHANGED <<queue, sale, fresh, applied, wire>>

\* The results one by one: what went well is deleted, the rest stays.
SettleAll(t, s) ==
  /\ tab[t].at = "settle" /\ s \in tab[t].left
  /\ queue' = Deleted(s)
  /\ Becomes(t, IF tab[t].left = {s} THEN Quiet ELSE [tab[t] EXCEPT !.left = @ \ {s}])
  /\ UNCHANGED <<sale, fresh, applied, wire>>

Settle(t, s) ==
  /\ tab[t].at = "settle" /\ s \in tab[t].left
  /\ queue' = IF s \in tab[t].ok THEN Deleted(s) ELSE Updated({s}, "failed")
  /\ Becomes(t, IF tab[t].left = {s} THEN Quiet ELSE [tab[t] EXCEPT !.left = @ \ {s}])
  /\ UNCHANGED <<sale, fresh, applied, wire>>

\* The network fails, or the batch is too long: whatever is "syncing" by now
\* is marked failed, what other tabs are sending as well.
SyncFails(t) ==
  /\ tab[t].at = "sent"
  /\ queue' = Updated({s \in Sales : queue[s] = "syncing"}, "failed")
  /\ wire' = IF Accepted(t) THEN wire \cup tab[t].left ELSE wire
  /\ Becomes(t, Quiet)
  /\ UNCHANGED <<sale, fresh, applied>>

\* The server goes on with a request whose client is gone, or dies.
ServeUnheard(s) ==
  /\ s \in wire
  /\ wire' = wire \ {s}
  /\ Applies(s) \/ Refuses
  /\ UNCHANGED <<queue, sale, fresh, tab>>

Close(t) ==
  /\ tab[t].at # "closed"
  /\ wire' = IF tab[t].at = "sent" /\ Accepted(t) THEN wire \cup tab[t].left ELSE wire
  /\ Becomes(t, [Quiet EXCEPT !.at = "closed"])
  /\ UNCHANGED <<queue, sale, fresh, applied>>

\* The app starts: requeueSyncingAwards.
OpenTab(t) ==
  /\ tab[t].at = "closed"
  /\ queue' = Updated({s \in Sales : queue[s] = "syncing"}, "queued")
  /\ Becomes(t, Quiet)
  /\ UNCHANGED <<sale, fresh, applied, wire>>

Expire(s) ==
  /\ s \in fresh
  /\ fresh' = fresh \ {s}
  /\ UNCHANGED <<queue, sale, applied, wire, tab>>

QueueNext ==
  \/ \E s \in Sales :
       SellOnline(s) \/ SellOffline(s) \/ Keep(s) \/ Forget(s) \/ ServeUnheard(s) \/ Expire(s)
  \/ \E t \in Tabs :
       \/ ReadQueue(t) \/ Mark(t) \/ Reply(t) \/ SyncFails(t) \/ Close(t) \/ OpenTab(t)
       \/ \E s \in Sales : ServeSale(t, s) \/ Settle(t, s)

QueueSpec == QueueInit /\ [][QueueNext]_offlineVars

-----------------------------------------------------------------------------
(* Properties.                                                             *)

(* What the cashier was told is saved is in the queue until the server has *)
(* applied it, whatever tabs sync it at the same time, are closed half-way *)
(* or miss the answer.  (Whether the server applies it before its QR token *)
(* expires is another matter: then the sale stays in the queue, failed.)   *)
AcceptedIsKept ==
  \A s \in Sales : sale[s] = "saved" => queue[s] # "none" \/ s \in applied
=============================================================================
