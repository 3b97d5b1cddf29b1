------------------------------ MODULE MCTariff ------------------------------
(* Tariff on small instances.  The numbers of the fare are those the form   *)
(* starts with, but for the surge; OverKm and OverSurge hold what doubles   *)
(* make of the products that occur here.                                    *)
EXTENDS Tariff, TLC

CONSTANTS r1, r2, r3, z1, z2

Default == [base |-> 50000, included |-> 1000, perKm |-> 15000, minimum |-> 50000, surge |-> 110]

MCFares     == {Default}
MCCovers    == z1 :> Ends @@ z2 :> {"pickup"}
MCOverKm    == {<<134, 15000>>, <<135, 15000>>}
MCOverSurge == {<<50000, 110>>}
MCSymmetry  == Permutations(Rules)
=============================================================================
