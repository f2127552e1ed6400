---------------------------- MODULE MCRegistration ----------------------------
(* One address and a few calls to fixed endpoints. *)
EXTENDS Registration, TLC

CONSTANTS c1, c2, c3, c4, c5, c6

(* A request, two resends and two confirmations. *)
SignUp == (c1 :> "request") @@ (c2 :> "resend") @@ (c3 :> "resend")
          @@ (c4 :> "confirm") @@ (c5 :> "confirm")

SignUpSymmetry == Permutations({c2, c3}) \cup Permutations({c4, c5})

Resends == [c \in {c1, c2, c3, c4, c5, c6} |-> "resend"]

ResendSymmetry == Permutations({c1, c2, c3, c4, c5, c6})

Rivals == (c1 :> "request") @@ (c2 :> "resend") @@ (c3 :> "request")
=============================================================================
