---------------------------- MODULE SettlementPlan ----------------------------
(***************************************************************************)
(* The settlement plan of an event summary: as long as somebody owes and   *)
(* somebody is owed, the greatest debtor pays the greatest creditor as     *)
(* much as the smaller of the two amounts.  Amounts below a hundredth are  *)
(* dropped on the way.                                                     *)
(*                                                                         *)
(* Amounts are whole numbers of a unit that is smaller than a hundredth;   *)
(* the rounding of the floating point differences is left out.  Equal      *)
(* amounts are met in the order of a Go map, that is in any order.         *)
(***************************************************************************)
EXTENDS Integers, FiniteSets, FiniteSetsExt, Sequences

CONSTANTS
  Participants,  \* participants of the event
  Balances,      \* the final balances that may occur, in units
  Cent           \* how many units make a hundredth

ASSUME SPAssumption ==
  /\ IsFiniteSet(Participants)
  /\ Balances \subseteq Int
  /\ Cent \in Nat \ {0}

VARIABLES
  balance,    \* balance[p]: paid - share + sent - received
  debtors,    \* debtors[p]: what p still owes; 0 for no entry in the map
  creditors,  \* creditors[p]: what p is still owed; 0 for no entry
  plan        \* the suggested payments

planVars == <<balance, debtors, creditors, plan>>

Payment == [from : Participants, to : Participants, amount : Nat]

PlanTypeOK ==
  /\ balance \in [Participants -> Balances]
  /\ debtors \in [Participants -> Nat]
  /\ creditors \in [Participants -> Nat]
  /\ plan \in Seq(Payment)

Entries(m) == {p \in Participants : m[p] > 0}

DebtOf(b)   == IF b < 0 THEN -b ELSE 0
CreditOf(b) == IF b > 0 THEN b ELSE 0

(* The balances are sorted into two maps; who is at 0 is in none. *)
PlanInit ==
  /\ balance \in [Participants -> Balances]
  /\ debtors = [p \in Participants |-> DebtOf(balance[p])]
  /\ creditors = [p \in Participants |-> CreditOf(balance[p])]
  /\ plan = <<>>

Greatest(m, p) == m[p] > 0 /\ \A q \in Participants : m[q] <= m[p]

(* The greater of the two amounts. *)
WholeDebt(a, b) == IF a > b THEN a ELSE b

Smaller(a, b) == IF a < b THEN a ELSE b

(* delete(m, p) after the first payment. *)
KeptNever(rest) == 0

(* delete(m, p) when less than a hundredth is left. *)
Kept(rest) == IF rest < Cent THEN 0 ELSE rest

(* A payment takes away a hundredth at most. *)
ReducedByCent(m, p, amount) == [m EXCEPT ![p] = Kept(@ - Smaller(amount, Cent))]

(* Only a suggested payment is taken away. *)
ReducedIfSuggested(m, p, amount) ==
  IF amount > Cent THEN [m EXCEPT ![p] = Kept(@ - amount)] ELSE m

Reduced(m, p, amount) == [m EXCEPT ![p] = Kept(@ - amount)]

(* One turn of the loop. *)
Suggest(d, c) ==
  LET amount == Smaller(debtors[d], creditors[c]) IN
  /\ Greatest(debtors, d) /\ Greatest(creditors, c)
  /\ plan' = IF amount > Cent
               THEN Append(plan, [from |-> d, to |-> c, amount |-> amount])
               ELSE plan
  /\ debtors' = Reduced(debtors, d, amount)
  /\ creditors' = Reduced(creditors, c, amount)
  /\ UNCHANGED balance

PlanNext == \E d, c \in Participants : Suggest(d, c)

Done == Entries(debtors) = {} \/ Entries(creditors) = {}

PlanSpec == PlanInit /\ [][PlanNext]_planVars
PlanFairSpec == PlanSpec /\ WF_planVars(PlanNext)

-----------------------------------------------------------------------------
(* Properties *)

Sum(f(_)) == MapThenSumSet(f, Participants)

PaysIn(p) ==
  MapThenSumSet(LAMBDA i : IF plan[i].from = p THEN plan[i].amount ELSE 0,
                DOMAIN plan)
GetsIn(p) ==
  MapThenSumSet(LAMBDA i : IF plan[i].to = p THEN plan[i].amount ELSE 0,
                DOMAIN plan)

(* Nobody is told to pay more than he owes or promised more than he is     *)
(* owed, however often the loop picks him: at any turn, what the plan says *)
(* and what is still in the map do not exceed the balance.                 *)
NobodyOverpays ==
  \A p \in Participants :
    /\ PaysIn(p) + debtors[p] <= DebtOf(balance[p])
    /\ GetsIn(p) + creditors[p] <= CreditOf(balance[p])

(* The plan has fewer payments than participants who are not settled: each *)
(* turn takes somebody out of a map, and the last turn takes out two if    *)
(* the balances cancel.                                                    *)
PlanIsShort ==
  LET unsettled == Cardinality({p \in Participants : balance[p] # 0})
  IN Len(plan) <= (IF unsettled = 0 THEN 0 ELSE unsettled - 1)

(* When the balances cancel, following the plan settles the event: nobody  *)
(* is left with as much as a hundredth for each participant.               *)
PlanSettles ==
  (Done /\ Sum(LAMBDA p : balance[p]) = 0) =>
    \A p \in Participants :
      LET left == balance[p] + PaysIn(p) - GetsIn(p)
      IN left < Cent * Cardinality(Participants)
         /\ -left < Cent * Cardinality(Participants)

(* The loop ends. *)
Terminates == <>Done
=============================================================================
