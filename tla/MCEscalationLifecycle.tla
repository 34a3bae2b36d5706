------------------------- MODULE MCEscalationLifecycle -------------------------
(* Three candidates with a rewrite each, of which one is unsound, and two   *)
(* starts of the worker: enough for a proof under way, two items behind it  *)
(* and a pill, for a restart after a stop, and for a restart beside a       *)
(* worker that join did not wait for.                                       *)
EXTENDS EscalationLifecycle

CONSTANTS k1, k2, k3, smaller, w1, w2

MCEquivalent == {k1, k2} \X {smaller}
=============================================================================
