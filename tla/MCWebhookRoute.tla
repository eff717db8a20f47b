--------------------------- MODULE MCWebhookRoute ---------------------------
(***************************************************************************)
(* Small instances of WebhookRoute.  Requests, deliveries, heads, workers  *)
(* and job ids are interchangeable.                                        *)
(***************************************************************************)
EXTENDS WebhookRoute, TLC

WebSymmetry ==
  Permutations(JobId) \cup Permutations(Key) \cup Permutations(Worker)
    \cup Permutations(Client) \cup Permutations(Delivery)
=============================================================================
