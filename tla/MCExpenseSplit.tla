---------------------------- MODULE MCExpenseSplit ----------------------------
(* The rounding of ExpenseSplit over all bills of a few payers and weights: *)
(* a bill arrives, its rows are computed.                                    *)
EXTENDS ExpenseSplit

CONSTANTS
  People,
  Totals,
  Weights,
  Payers   \* how many entries the list of payers has

VARIABLES bill, rows

(* A weight below zero is a credit. *)
SomeWeights == {-3, 0, 1, 2, 7}

NoRows == [paid |-> <<>>, ratio |-> <<>>]

(* Who the payers are makes no difference to the rows. *)
Bills ==
  {b \in [amount : Totals, payers : {[i \in 1 .. n |-> n] : n \in Payers},
          weights : [People -> Weights]] :
     Splittable(b)}

Init == bill \in Bills /\ rows = NoRows

Split ==
  /\ rows = NoRows
  /\ rows' = [paid |-> PaidRows(bill), ratio |-> RatioRows(bill)]
  /\ UNCHANGED bill

Spec == Init /\ [][Split]_<<bill, rows>>

-----------------------------------------------------------------------------

(* What the payers are taken to have paid misses the total by no more than *)
(* half a hundredth for each of them, and the little that rounding to four *)
(* decimals before may add.                                                *)
PaidNearTotal ==
  rows # NoRows =>
    200 * Distance(SumFunction(rows.paid), bill.amount)
      <= 101 * Cardinality(DOMAIN bill.payers)

(* The ratios miss 1 by no more than half a ten-thousandth for each        *)
(* beneficiary, so the shares of a bill miss its total by as little.       *)
SharesNearTotal ==
  rows # NoRows =>
    2 * Distance(SumFunction(rows.ratio), 10000) <= Cardinality(People)
=============================================================================
