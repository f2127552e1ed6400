---------------------------- MODULE MCClientSession ----------------------------
(* A few requests of one tab or two. *)
EXTENDS ClientSession, TLC

CONSTANTS t1, t2, r1, r2, r3, l1, l2

OneTab == [r \in Requests |-> t1]

TwoTabs == (r1 :> t1) @@ (r2 :> t1) @@ (r3 :> t2)
=============================================================================
