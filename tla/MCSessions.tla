----------------------------- MODULE MCSessions -----------------------------
(* Sessions on small instances: one browser with two requests.             *)
EXTENDS Sessions, TLC

CONSTANTS k1, k2, k3, k4, one, r1, r2

OneOwner == [r \in Requests |-> one]
Customers == [b \in Browsers |-> "customer"]
Staff     == [b \in Browsers |-> "staff"]
Some == [r \in Requests |-> IF r = r1 THEN {"call", "signIn", "logout"} ELSE {"me"}]
OnlyCalls == [r \in Requests |-> {"call", "signIn"}]
=============================================================================
