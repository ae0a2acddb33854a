------------------------ MODULE MCWebhookDeliveries ------------------------
(* Small instances of WebhookDeliveries for TLC. *)
EXTENDS WebhookDeliveries, TLC

CONSTANTS api, worker, awarded

\* One event that three endpoints want.
ThreeEndpoints == awarded :> <<"d1", "d2", "d3">>
=============================================================================
