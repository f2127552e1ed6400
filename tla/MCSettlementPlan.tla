--------------------------- MODULE MCSettlementPlan ---------------------------
(* Balances of either sign around the hundredth at which amounts are dropped. *)
EXTENDS SettlementPlan

Uneven == {-16, -9, -5, -3, -1, 0, 1, 4, 7, 12, 15}
===============================================================================
