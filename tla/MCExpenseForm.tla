---------------------------- MODULE MCExpenseForm ----------------------------
(* Two or three participants; amounts of a few units, at which four         *)
(* decimals of a ratio are enough to find every whole amount again.         *)
EXTENDS ExpenseForm

CONSTANTS ann, ben, cam

(* 100 percent, and so little below 0 that a sum with it is accepted. *)
SomePercents == {60000, -3}
=============================================================================
