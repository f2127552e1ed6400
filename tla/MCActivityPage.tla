---------------------------- MODULE MCActivityPage ----------------------------
(* Small instances of ActivityPage: cleo, who created the event, dora and   *)
(* the guest gus.                                                           *)
EXTENDS ActivityPage, TLC

CONSTANTS cleo, dora, gus, p1, p2, q1, q2

OnePageEach == (p1 :> dora) @@ (p2 :> cleo)
OnlyDora    == p1 :> dora

Treat(payer, amount, for) ==
  [payer |-> payer, amount |-> amount,
   share |-> [m \in Members |-> IF m = for THEN amount ELSE 0]]

Lunch  == Treat(cleo, 4, dora)
Ticket == Treat(cleo, 3, gus)

Meals == {Lunch}
LunchAndTicket == {Lunch, Ticket}
Nothing == {}

RequestSymmetry == Permutations(Requests)
=============================================================================
