------------------------------ MODULE ExpenseForm ------------------------------
(***************************************************************************)
(* The dialog in which a member enters an expense or edits it, and what    *)
(* the server stores of the answer.  The dialog is part of the activity    *)
(* page, which hands it a fresh list of participants each time it renders, *)
(* and the effects of the dialog run whenever that list is another one.    *)
(*                                                                         *)
(* Amounts are whole numbers, as the form keeps digits only; a percentage  *)
(* is a number of parts of which the Whole has so many that every number   *)
(* of people can have equal ones.                                          *)
(***************************************************************************)
EXTENDS ExpenseSplit

CONSTANTS
  People,        \* participants of the event, who do not change
  Me,            \* the participant whose browser this is
  Totals,        \* amounts that are typed in
  ExactAmounts,  \* exact amounts that are typed in
  Percents,      \* percentages that are typed in, also negative ones
  Whole,         \* 100 percent
  NoExpense      \* no expense yet

ASSUME EFAssumption ==
  /\ IsFiniteSet(People) /\ Me \in People
  /\ Totals \subseteq Nat /\ ExactAmounts \subseteq Nat
  /\ NoExpense \notin [payer : People]

ASSUME PercentAssumption ==
  /\ \A x \in Percents : x \in Int /\ x <= Whole
  /\ Whole \in Nat \ {0} /\ Whole % 10000 = 0
  /\ \A n \in 1 .. Cardinality(People) : Whole % n = 0

VARIABLES
  dialog,  \* "closed", "create" or "edit"
  form,    \* what the dialog shows
  chosen,  \* who the user last saw selected when he selected
  bill     \* the expense as the server has it

formVars == <<dialog, form, chosen, bill>>

SplitTypes == {"equal", "exact", "percentage"}

(* A sum of percentages may be off by 0.01 percent. *)
Tolerance == Whole \div 10000

Blank == [p \in People |-> 0]

(* What the effects put into the dialog: the initial payer and everybody,  *)
(* or the rows of the expense with its shares turned back into amounts.    *)
StartPayer(b) == IF b = NoExpense THEN Me ELSE b.payer

StartSelected(b) == IF b = NoExpense THEN People ELSE DOMAIN b.ratio

(* parseMoney does not see the minus of a negative amount. *)
AmountOf(b, p) ==
  Distance(Rounded(b.amount * b.ratio[p], SumFunction(b.ratio)), 0)

Amounted(b) == b # NoExpense /\ SumFunction(b.ratio) > 0

(* The amounts cut off to whole numbers. *)
CutStartExact(b) ==
  [p \in People |->
     IF Amounted(b) /\ p \in StartSelected(b)
     THEN (b.amount * b.ratio[p]) \div SumFunction(b.ratio) ELSE 0]

StartExact(b) ==
  [p \in People |->
     IF Amounted(b) /\ p \in StartSelected(b) THEN AmountOf(b, p) ELSE 0]

(* The split type is not stored.  Ratios that differ by one unit pass for   *)
(* equal or not as binary fractions have it.                                *)
TypesOf(b) ==
  LET apart(n) == \E p, q \in DOMAIN b.ratio : b.ratio[p] >= b.ratio[q] + n
  IN {t \in {"equal", "exact"} :
        /\ t = "equal" => ~apart(2)
        /\ t = "exact" => apart(1)}

Opened(b, type, amount) ==
  [payer |-> StartPayer(b), amount |-> amount, type |-> type,
   selected |-> StartSelected(b), exact |-> StartExact(b), percent |-> Blank]

Untouched == \E t \in TypesOf(bill) : form = Opened(bill, t, bill.amount)

EditedBill == IF dialog = "edit" THEN bill ELSE NoExpense

FormInit ==
  /\ dialog = "closed"
  /\ bill = NoExpense
  /\ form = Opened(NoExpense, "equal", 0)
  /\ chosen = People

OpenDialog(kind, f) ==
  /\ dialog = "closed"
  /\ dialog' = kind
  /\ form' = f
  /\ chosen' = f.selected
  /\ UNCHANGED bill

OpenCreate == OpenDialog("create", Opened(NoExpense, "equal", 0))

(* handleEditExpense: the details are fetched before the form appears. *)
OpenEdit ==
  /\ bill # NoExpense
  /\ \E t \in TypesOf(bill) : OpenDialog("edit", Opened(bill, t, bill.amount))

Close ==
  /\ dialog # "closed"
  /\ dialog' = "closed"
  /\ form' = Opened(NoExpense, "equal", 0)
  /\ chosen' = People
  /\ UNCHANGED bill

-----------------------------------------------------------------------------

(* What the user does in the dialog. *)
Edit(f) ==
  /\ dialog # "closed"
  /\ form' = f
  /\ UNCHANGED <<dialog, chosen, bill>>

TypeAmount == \E a \in Totals : Edit([form EXCEPT !.amount = a])

PickPayer == \E p \in People : Edit([form EXCEPT !.payer = p])

(* Who is taken off loses the exact amount, but not the percentage. *)
Toggle(p) ==
  /\ dialog # "closed"
  /\ form' = IF p \in form.selected
             THEN [form EXCEPT !.selected = @ \ {p}, !.exact[p] = 0]
             ELSE [form EXCEPT !.selected = @ \cup {p}]
  /\ chosen' = form'.selected
  /\ UNCHANGED <<dialog, bill>>

EqualPercents ==
  [p \in People |->
     IF p \in form.selected THEN Whole \div Cardinality(form.selected) ELSE 0]

ChooseType ==
  \/ \E t \in {"equal", "exact"} : Edit([form EXCEPT !.type = t])
  \/ Edit([form EXCEPT !.type = "percentage", !.percent = EqualPercents])

TypeExact ==
  /\ form.type = "exact"
  /\ \E p \in form.selected : \E a \in ExactAmounts : Edit([form EXCEPT !.exact[p] = a])

TypePercent ==
  /\ form.type = "percentage"
  /\ \E p \in form.selected : \E x \in Percents :
       Edit([form EXCEPT !.percent[p] = x])

-----------------------------------------------------------------------------

(* The page renders: a query brings new data, a toast comes or goes, also  *)
(* the one of a submission that was refused or has failed.  The effects of *)
(* the dialog see another list and start over.                             *)
Rerender ==
  Edit([form EXCEPT !.payer = StartPayer(EditedBill),
                    !.selected = StartSelected(EditedBill),
                    !.exact = StartExact(EditedBill)])

(* The checks of handleSubmit before it calls the server. *)
ValidWithoutSum == form.amount > 0 /\ form.selected # {}

Valid ==
  /\ form.amount > 0
  /\ form.selected # {}
  /\ form.type = "exact" => SumFunctionOnSet(form.exact, form.selected) = form.amount
  /\ form.type = "percentage" =>
       Distance(SumFunction(form.percent), Whole) <= Tolerance

Weights ==
  [p \in form.selected |->
     CASE form.type = "equal" -> 1
       [] form.type = "exact" -> form.exact[p]
       [] OTHER -> form.percent[p]]

Answer == [payers |-> <<form.payer>>, weights |-> Weights]

(* The server stores payer, total and ratios; "how" is for the properties.  *)
Submit ==
  /\ dialog # "closed"
  /\ Valid
  /\ Splittable(Answer)
  /\ bill' = [payer |-> form.payer, amount |-> form.amount,
              ratio |-> RatioRows(Answer), how |-> form.type]
  /\ dialog' = "closed"
  /\ form' = Opened(NoExpense, "equal", 0)
  /\ chosen' = People

FormNext ==
  \/ OpenCreate
  \/ OpenEdit
  \/ Close
  \/ TypeAmount
  \/ PickPayer
  \/ \E p \in People : Toggle(p)
  \/ ChooseType
  \/ TypeExact
  \/ TypePercent
  \/ Rerender
  \/ Submit

FormSpec == FormInit /\ [][FormNext]_formVars

-----------------------------------------------------------------------------

(* Parts of a whole with four decimals. *)
RatioRange == 0 .. 10000

Percentages == {x \in Int : x <= Whole}

FormTypeOK ==
  /\ dialog \in {"closed", "create", "edit"}
  /\ form \in [payer : People, amount : Totals \cup {0}, type : SplitTypes,
               selected : SUBSET People, exact : [People -> Nat],
               percent : [People -> Percentages]]
  /\ chosen \subseteq People
  /\ bill # NoExpense =>
       /\ bill.payer \in People /\ bill.amount \in Totals \ {0}
       /\ bill.how \in SplitTypes
       /\ DOMAIN bill.ratio \subseteq People
       /\ bill.ratio \in [DOMAIN bill.ratio ->
                           IF bill.how = "percentage" THEN Int ELSE RatioRange]

(* An expense entered in equal parts or by amounts comes back from the     *)
(* server as it was entered: the dialog that edits it passes its own       *)
(* checks, and saving it at once stores the same rows again.               *)
ReopenedAsEntered ==
  dialog = "edit" /\ Untouched /\ bill.how # "percentage" =>
    /\ Valid
    /\ form.payer = bill.payer
    /\ RatioRows(Answer) = bill.ratio

(* The ratio r says "part out of whole", as near as four decimals can. *)
IsPart(r, part, whole) == 2 * Distance(whole * r, 10000 * part) <= whole

(* An expense that is sent charges those who are selected and nobody else, *)
(* each with the part the dialog shows for him of what it shows for all of *)
(* them: one of so many, his amount out of the total, his percentage out   *)
(* of theirs.  Their percentages are 100 together, but for the tolerance,  *)
(* unless somebody was taken off who has one: the dialog keeps it in the   *)
(* sum, and those who stay bear it for him, see PercentagesCharged.        *)
SharesAsAsked ==
  [][bill' # bill =>
       /\ DOMAIN bill'.ratio = form.selected
       /\ form.type = "equal" =>
            LET n == Cardinality(form.selected)
            IN \A p \in form.selected : IsPart(bill'.ratio[p], 1, n)
       /\ form.type = "exact" =>
            \A p \in form.selected :
              IsPart(bill'.ratio[p], form.exact[p], form.amount)
       /\ form.type = "percentage" =>
            LET all == SumFunctionOnSet(form.percent, form.selected)
            IN /\ \A p \in form.selected :
                    IsPart(bill'.ratio[p], form.percent[p], all)
               /\ (\A p \in People \ form.selected : form.percent[p] = 0)
                    => Distance(all, Whole) <= Tolerance]_formVars

(* "The bill will be split evenly between selected participants": those    *)
(* whom the user has selected, not those the last rendering selected.      *)
SplitAsChosen == [][bill' # bill => DOMAIN bill'.ratio = chosen]_formVars

(* "Sum of percentages must equal 100%": an expense that is sent charges   *)
(* everybody the percentage the dialog shows.  Violated: the dialog adds   *)
(* up the percentages of those who were taken off as well.                 *)
PercentagesCharged ==
  [][bill' # bill /\ form.type = "percentage" =>
       \A p \in form.selected :
         IsPart(bill'.ratio[p], form.percent[p], Whole)]_formVars
=============================================================================
