---------------------------- MODULE PaymentEvents ----------------------------
(***************************************************************************)
(* Webhooks of the payment providers (payment-webhook-service).  A delivery*)
(* registers its event, asks the external-award service to award it, and   *)
(* writes the outcome, in three separate database transactions; the owner  *)
(* resolves by hand what could not be mapped to a customer.  Deliveries of *)
(* one event and resolutions run at the same time, and any of the          *)
(* statements may fail, also after it has taken effect.                    *)
(***************************************************************************)
EXTENDS Naturals, Sequences, FiniteSets

CONSTANTS
  Payments,     \* provider and providerEventId of the events
  Handlers,     \* deliveries and resolutions served at the same time
  Guests,       \* customers that a delivery or the owner may name
  Payloads,     \* what the provider says of an event, see Payload
  Absent,
  MaxAwarded    \* bound on the awards

\* A payload: payment.approved or not, whether it names the business, and the
\* customer it names, or Absent.
Payload == [approved : BOOLEAN, slug : BOOLEAN, guest : Guests \cup {Absent}]

\* A row of payment_webhook_events: linked_transaction_id is 0 where it is NULL.
EventRow ==
  [status : {"RECEIVED", "APPLIED", "IGNORED", "PENDING_MAPPING", "FAILED"},
   linked : Nat, slug : BOOLEAN]

PaymentAssumption == Payloads \subseteq Payload /\ Absent \notin EventRow

VARIABLES
  events,     \* rows of payment_webhook_events, Absent where there is none
  awarded,    \* rows of transactions with source 'external', in their order
  members,    \* customers the business knows
  accepting,  \* program_json.external_awards.enabled
  handler     \* what each request is doing

paymentVars == <<events, awarded, members, accepting, handler>>

NoWork == [at |-> "idle", event |-> Absent, payload |-> Absent, guest |-> Absent, manual |-> FALSE,
           row |-> 0, outcome |-> "none"]

PaymentInit ==
  /\ events = [e \in Payments |-> Absent]
  /\ awarded = <<>>
  /\ members = {}
  /\ accepting = TRUE
  /\ handler = [h \in Handlers |-> NoWork]

Goes(h, at) == handler' = [handler EXCEPT ![h].at = at]
Ends(h) == handler' = [handler EXCEPT ![h] = NoWork]

\* setEventStatus overwrites whatever the row says by now.
SetStatus(e, status) == events' = [events EXCEPT ![e].status = status]

-----------------------------------------------------------------------------
(* processPaymentWebhook.                                                  *)

\* The award carries this external event id and this meta.
AwardKey(e)      == e
UnprefixedKey(e) == <<"unprefixed", e>>
ResolvedKey(e)   == e

\* The event is registered, or its row is found; finished events end here.
Receive(h, e, p) ==
  LET row == IF events[e] = Absent
             THEN [status |-> "RECEIVED", linked |-> 0, slug |-> p.slug]
             ELSE events[e]
  IN  /\ handler[h].at = "idle"
      /\ events' = [events EXCEPT ![e] = row]
      /\ IF row.status \in {"APPLIED", "IGNORED"}
           THEN UNCHANGED handler
           ELSE handler' = [handler EXCEPT ![h] =
                  [NoWork EXCEPT !.at = "sort", !.event = e, !.payload = p, !.guest = p.guest]]
      /\ UNCHANGED <<awarded, members, accepting>>

\* Not approved, or not enough in it to award anything.
Park(h) ==
  LET p == handler[h].payload
  IN  /\ handler[h].at = "sort"
      /\ ~p.approved \/ ~p.slug \/ p.guest = Absent
      /\ SetStatus(handler[h].event, IF p.approved THEN "PENDING_MAPPING" ELSE "IGNORED")
      /\ Ends(h)
      /\ UNCHANGED <<awarded, members, accepting>>

\* resolvePaymentWebhookEventForBusiness, whatever the status of the event.
Resolve(h, e, g) ==
  /\ handler[h].at = "idle"
  /\ events[e] # Absent
  /\ events[e].slug
  /\ handler' = [handler EXCEPT ![h] =
       [NoWork EXCEPT !.at = "award", !.event = e, !.guest = g, !.manual = TRUE]]
  /\ UNCHANGED <<events, awarded, members, accepting>>

-----------------------------------------------------------------------------
(* awardFromExternalEventTrusted, under a lock on the external event id.   *)

KeyOf(job) == IF job.manual THEN ResolvedKey(job.event) ELSE AwardKey(job.event)

AwardsWith(key) == {i \in DOMAIN awarded : awarded[i].key = key}

\* The fingerprint covers the customer and the meta, and resolved_manually is
\* part of the meta.
SameRequest(award, job) == award.guest = job.guest /\ award.manual = job.manual

AskAward(h) ==
  /\ handler[h].at = "sort"
  /\ LET p == handler[h].payload IN p.approved /\ p.slug /\ p.guest # Absent
  /\ Goes(h, "award")
  /\ UNCHANGED <<events, awarded, members, accepting>>

Award(h) ==
  LET job == handler[h]
  IN  /\ job.at = "award"
      /\ accepting /\ job.guest \in members
      /\ AwardsWith(KeyOf(job)) = {}
      /\ Len(awarded) < MaxAwarded
      /\ awarded' = Append(awarded, [event |-> job.event, key |-> KeyOf(job),
                                     guest |-> job.guest, manual |-> job.manual])
      /\ \/ handler' = [handler EXCEPT ![h].at = "record", ![h].row = Len(awarded) + 1]
         \/ handler' = [handler EXCEPT ![h].at = "catch", ![h].outcome = "FAILED"]
      /\ UNCHANGED <<events, members, accepting>>

AwardAgain(h) ==
  LET job == handler[h]
  IN  /\ job.at = "award"
      /\ accepting /\ job.guest \in members
      /\ \E i \in AwardsWith(KeyOf(job)) :
           /\ SameRequest(awarded[i], job)
           /\ handler' = [handler EXCEPT ![h].at = "record", ![h].row = i]
      /\ UNCHANGED <<events, awarded, members, accepting>>

\* External awards are off, nobody knows the customer, another payload used
\* the id, or the database does not answer.
AwardFails(h) ==
  LET job == handler[h]
  IN  /\ job.at = "award"
      /\ handler' = [handler EXCEPT ![h].at = "catch",
           ![h].outcome = IF accepting /\ job.guest \notin members
                          THEN "PENDING_MAPPING" ELSE "FAILED"]
      /\ UNCHANGED <<events, awarded, members, accepting>>

-----------------------------------------------------------------------------
(* The outcome.  The delivery has named the business, which the row may    *)
(* not have known before.                                                  *)

AppliedRow(job) ==
  [events[job.event] EXCEPT !.status = "APPLIED", !.linked = job.row, !.slug = TRUE]

FailedRow(job) == [events[job.event] EXCEPT !.status = job.outcome, !.slug = TRUE]

Record(h) ==
  LET job == handler[h]
  IN  /\ job.at = "record"
      /\ events' = [events EXCEPT ![job.event] = AppliedRow(job)]
      /\ Ends(h)
      /\ UNCHANGED <<awarded, members, accepting>>

\* The update to APPLIED fails, or its answer is lost: to the catch as well.
RecordFails(h) ==
  LET job == handler[h]
  IN  /\ job.at = "record"
      /\ handler' = [handler EXCEPT ![h].at = "catch", ![h].outcome = "FAILED"]
      /\ \/ UNCHANGED events
         \/ events' = [events EXCEPT ![job.event] = AppliedRow(job)]
      /\ UNCHANGED <<awarded, members, accepting>>

\* The catch writes the failure; a resolution has no catch.
Catch(h) ==
  LET job == handler[h]
  IN  /\ job.at = "catch"
      /\ IF job.manual
           THEN UNCHANGED events
           ELSE events' = [events EXCEPT ![job.event] = FailedRow(job)]
      /\ Ends(h)
      /\ UNCHANGED <<awarded, members, accepting>>

\* The process dies, or a statement outside the try fails.
Abandon(h) ==
  /\ handler[h].at # "idle"
  /\ Ends(h)
  /\ UNCHANGED <<events, awarded, members, accepting>>

\* The customer joins; the owner switches external awards on or off.
Join(g) ==
  /\ g \notin members
  /\ members' = members \cup {g}
  /\ UNCHANGED <<events, awarded, accepting, handler>>

Toggle ==
  /\ accepting' = ~accepting
  /\ UNCHANGED <<events, awarded, members, handler>>

PaymentNext ==
  \/ \E h \in Handlers, e \in Payments, p \in Payloads : Receive(h, e, p)
  \/ \E h \in Handlers, e \in Payments, g \in Guests : Resolve(h, e, g)
  \/ \E h \in Handlers :
       \/ Park(h) \/ AskAward(h) \/ Award(h) \/ AwardAgain(h) \/ AwardFails(h)
       \/ Record(h) \/ RecordFails(h) \/ Catch(h) \/ Abandon(h)
  \/ \E g \in Guests : Join(g)
  \/ Toggle

PaymentSpec == PaymentInit /\ [][PaymentNext]_paymentVars

-----------------------------------------------------------------------------
(* Properties.                                                             *)

(* A payment is awarded at most once, whatever its deliveries and the      *)
(* owner's resolutions do at the same time and however often they fail     *)
(* half-way: both lead to the same external event id.                      *)
PaidOnce == \A i, k \in DOMAIN awarded : awarded[i].event = awarded[k].event => i = k

(* An event that says APPLIED names the award that it led to, and a link   *)
(* once made stays right although late failures overwrite the status.      *)
AppliedIsAwarded ==
  \A e \in Payments : events[e] # Absent =>
    /\ events[e].status = "APPLIED" => events[e].linked # 0
    /\ events[e].linked # 0 => /\ events[e].linked \in DOMAIN awarded
                               /\ awarded[events[e].linked].event = e

PaymentsSound == PaidOnce /\ AppliedIsAwarded
=============================================================================
