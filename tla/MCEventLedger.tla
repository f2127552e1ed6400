---------------------------- MODULE MCEventLedger ----------------------------
(* Small instances of EventLedger: the creator alice and bob with accounts, *)
(* the guest gus, and a few calls to given endpoints.                       *)
EXTENDS EventLedger, TLC

CONSTANTS c1, c2, c3, c4, c5, alice, bob, carol, pa, pb, pg

TwoFounders   == (pa :> alice) @@ (pb :> bob)
ThreeFounders == (pa :> alice) @@ (pb :> bob) @@ (pg :> None)

Bill(amount, payers, bearers, weights) ==
  [amount |-> amount, payers |-> payers, bearers |-> bearers, weights |-> weights]

(* The first two split without rounding; the second names bob twice, and   *)
(* its negative weight credits alice.                                      *)
Dinner == Bill(2000, <<pa>>, <<pa, pb>>, <<1, 1>>)
Taxi   == Bill(3000, <<pa, pb, pb>>, <<pa, pb, pb>>, <<-1, 2, 4>>)
Ticket == Bill(1000, <<pb>>, <<pb>>, <<1>>)
Gift   == Bill(1000, <<pg>>, <<pa>>, <<1>>)
Noone  == Bill(1000, <<>>, <<pa>>, <<1>>)

RaceBills   == {Dinner, Taxi}
WrongBills  == {Dinner, Taxi, Noone}
TicketBills == {Ticket, Dinner}
OddBills    == {Gift, Ticket, Dinner}

(* Creating, updating, deleting and a removal at once. *)
Bookkeeping == (c1 :> "spend") @@ (c2 :> "revise") @@ (c3 :> "revise")
               @@ (c4 :> "kick") @@ (c5 :> "erase")

(* Joining twice, leaving, being kicked, a guest. *)
Membership == (c1 :> "join") @@ (c2 :> "join") @@ (c3 :> "leave")
              @@ (c4 :> "kick") @@ (c5 :> "addGuest")

BillsAndMembers == {Bookkeeping, Membership}

(* Expenses and the removals that lock their rows. *)
Removals == {(c1 :> "spend") @@ (c2 :> "revise") @@ (c3 :> "kick")
             @@ (c4 :> "leave")}

SpendAndLeave == {(c1 :> "spend") @@ (c2 :> "leave")}
SpendAndRemove == {(c1 :> "spend") @@ (c2 :> o) : o \in {"leave", "kick"}}
=============================================================================
