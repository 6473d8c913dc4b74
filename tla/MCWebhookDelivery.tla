------------------------- MODULE MCWebhookDelivery -------------------------
(***************************************************************************)
(* Small instances of WebhookDelivery for TLC.                             *)
(***************************************************************************)
EXTENDS WebhookDelivery, TLC

(* One event of each type; the subscriptions ask for one type.             *)
MCTypeOf == [e \in Events |-> e]
MCAsked == [s \in Subscriptions |-> {"activity.done"}]

=============================================================================
