----------------------- MODULE MCWebhookSubscriptions -----------------------
(***************************************************************************)
(* Small instances of WebhookSubscriptions for TLC.                        *)
(***************************************************************************)
EXTENDS WebhookSubscriptions, TLC

Symmetry == Permutations(Tasks) \cup Permutations(Requests)

=============================================================================
