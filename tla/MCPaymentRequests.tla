-------------------------- MODULE MCPaymentRequests --------------------------
(* Small instances of PaymentRequests: members alice and bob with accounts, *)
(* the guest gus, and a few calls to fixed endpoints.                       *)
EXTENDS PaymentRequests, TLC

CONSTANTS c1, c2, c3, c4, c5, c6, alice, bob, gus

(* One request, two confirmations and a cancellation of it, a removal. *)
GuestRace == (c1 :> "create") @@ (c2 :> "confirm") @@ (c3 :> "confirm")
        @@ (c4 :> "cancel") @@ (c5 :> "delete")

GuestSymmetry == Permutations({c2, c3})

(* The same with a settlement entered directly. *)
Race == GuestRace @@ (c6 :> "settle")

RaceSymmetry == Permutations({c2, c3}) \cup Permutations({alice, bob})

DirectAmounts == {-1, 0, 5}

(* A direct settlement beside a request, a confirmation and a removal. *)
Direct == (c1 :> "create") @@ (c2 :> "confirm") @@ (c3 :> "settle")
          @@ (c4 :> "delete")
=============================================================================
