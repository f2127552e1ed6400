----------------------------- MODULE ExpenseSplit -----------------------------
(***************************************************************************)
(* How an expense is split: what each payer is taken to have paid and      *)
(* which share each beneficiary bears.  The service computes in floating   *)
(* point; a result reaches the database as a text of four decimals and is  *)
(* rounded again to the scale of its column.                               *)
(*                                                                         *)
(* Amounts are in hundredths, shares in ten-thousandths of a hundredth.    *)
(* A value that lies exactly between two decimals is rounded up, which may *)
(* differ from the program; nothing stated here depends on it.             *)
(***************************************************************************)
EXTENDS Integers, FiniteSets, Functions

Distance(m, n) == IF m < n THEN n - m ELSE m - n

(* The decimal nearest to n/d, for d > 0. *)
Rounded(n, d) == (2 * n + d) \div (2 * d)

(* Every payer is taken to have paid everything. *)
PaidInFull(total, n) == total

(* paid_amount NUMERIC(14,2) of each of n payers: "%.4f", then two places. *)
PaidAmount(total, n) == Rounded(Rounded(100 * total, n), 100)

(* A ratio with the scale of an amount. *)
RatioOfTwoPlaces(weight, totalWeight) == 100 * Rounded(100 * weight, totalWeight)

(* split_ratio NUMERIC(10,4), in ten-thousandths. *)
SplitRatio(weight, totalWeight) == Rounded(10000 * weight, totalWeight)

(* The rows of a bill, one for each entry of its two lists: payers[i] is   *)
(* the participant of an entry, weights[i] the weight of a beneficiary.    *)
(* Only the sum of the weights must be positive.                           *)
PaidRows(bill) ==
  [i \in DOMAIN bill.payers |->
     PaidAmount(bill.amount, Cardinality(DOMAIN bill.payers))]

RatioRows(bill) ==
  LET totalWeight == SumFunction(bill.weights)
  IN [i \in DOMAIN bill.weights |-> SplitRatio(bill.weights[i], totalWeight)]

(* A bill the rows can be computed for. *)
Splittable(bill) == DOMAIN bill.payers # {} /\ SumFunction(bill.weights) > 0

(* A share as the balance queries compute it: total_amount * split_ratio. *)
ShareOf(total, ratio) == total * ratio

PaidUnits(amount) == 10000 * amount
=============================================================================
