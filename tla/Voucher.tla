------------------------------ MODULE Voucher -------------------------------
(***************************************************************************)
(* What a locked quote promises: it is made once, it is open until it      *)
(* either becomes the price of exactly one order or is gone, and it never  *)
(* comes back from there.                                                  *)
(***************************************************************************)
CONSTANT Quotes

VARIABLE voucher        \* Quotes -> "unmade", "open", "used" or "gone"

Init == voucher = [q \in Quotes |-> "unmade"]

Becomes(q, from, to) ==
  /\ voucher[q] = from
  /\ voucher' = [voucher EXCEPT ![q] = to]

Make(q) == Becomes(q, "unmade", "open")
Use(q)  == Becomes(q, "open", "used")
Lose(q) == Becomes(q, "open", "gone")

Next == \E q \in Quotes : Make(q) \/ Use(q) \/ Lose(q)

Spec == Init /\ [][Next]_voucher
=============================================================================
