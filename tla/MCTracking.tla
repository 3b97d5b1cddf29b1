----------------------------- MODULE MCTracking -----------------------------
(* One page and an order that changes twice. *)
EXTENDS Tracking

CONSTANTS s1, s2, l1, l2
=============================================================================
