------------------------------ MODULE MCSessions ------------------------------
(* One account and a few calls to fixed endpoints. *)
EXTENDS Sessions, TLC

CONSTANTS c1, c2, c3, c4, c5, c6

Day == (c1 :> "login") @@ (c2 :> "refresh") @@ (c3 :> "refresh")
       @@ (c4 :> "logout") @@ (c5 :> "change") @@ (c6 :> "change")

DaySymmetry == Permutations({c2, c3}) \cup Permutations({c5, c6})

Refreshes == (c1 :> "login") @@ (c2 :> "refresh") @@ (c3 :> "refresh")
=============================================================================
