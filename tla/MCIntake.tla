------------------------------ MODULE MCIntake ------------------------------
(* Customers, the store and the API on small instances. *)
EXTENDS Connector, TLC

CONSTANTS u1, u2, store, q1, q2, q3, e1, e2, p1, p2, p3, c1, w1, w2

\* Nothing tells quote ids, customers, requests or PHP processes apart.
Interchangeable == Permutations(Quotes) \cup Permutations(Customers) \cup Permutations(Procs) \cup Permutations(Workers)
=============================================================================
