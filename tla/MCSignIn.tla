------------------------------ MODULE MCSignIn ------------------------------
(* SignIn on small instances: two pages, and enough codes for a new one.   *)
EXTENDS SignIn, TLC

CONSTANTS k1, k2, k3, k4, a, b
=============================================================================
