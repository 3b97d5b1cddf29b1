---------------------------- MODULE MCCourierApp ----------------------------
(* CourierApp on a small instance. *)
EXTENDS CourierApp

CONSTANTS o1, l1, own
=============================================================================
