------------------------- MODULE MCWebhookLifecycle -------------------------
(* WebhookLifecycle for TLC: names of DSPAs as interchangeable model values. *)
EXTENDS WebhookLifecycle, TLC

CONSTANTS d1, d2, d3

TwoDSPAs == {d1, d2}
ThreeDSPAs == {d1, d2, d3}

\* Sound for the invariants only; the liveness run does without it.
Symmetry == Permutations(DSPAs)
=============================================================================
