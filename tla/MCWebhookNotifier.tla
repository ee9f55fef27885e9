------------------------- MODULE MCWebhookNotifier --------------------------
(***************************************************************************)
(* Two calls, which compete for the limiter.                               *)
(***************************************************************************)
EXTENDS WebhookNotifier

CONSTANTS c1, c2

MCCalls == {c1, c2}
=============================================================================
