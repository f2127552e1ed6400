--------------------------- MODULE PaymentContract ---------------------------
(***************************************************************************)
(* What the payment requests of one event promise to its members, with no  *)
(* handlers, transactions or locks: a request is proposed once, its        *)
(* receiver confirms or cancels it at most once, and the ledger receives   *)
(* one entry, with the terms of the request, in the very step that         *)
(* confirms it.                                                            *)
(*                                                                         *)
(* PaymentRequests implements this specification.                          *)
(***************************************************************************)

CONSTANTS
  Requests,   \* identities of the payment requests
  Terms,      \* who pays whom how much
  Entries,    \* identities of the ledger entries
  None        \* no terms: the request is not in the book

VARIABLES
  status,     \* status[r]: "none", "pending", "confirmed" or "canceled"
  terms,      \* terms[r]: the terms r was proposed with
  ledger      \* ledger[r]: the entries made on behalf of r

cvars == <<status, terms, ledger>>

Init ==
  /\ status = [r \in Requests |-> "none"]
  /\ terms  = [r \in Requests |-> None]
  /\ ledger = [r \in Requests |-> {}]

Propose(r, t) ==
  /\ status[r] = "none"
  /\ status' = [status EXCEPT ![r] = "pending"]
  /\ terms'  = [terms EXCEPT ![r] = t]
  /\ UNCHANGED ledger

(* The decision and its ledger entry are one step. *)
Confirm(r, e) ==
  /\ status[r] = "pending"
  /\ status' = [status EXCEPT ![r] = "confirmed"]
  /\ ledger' = [ledger EXCEPT ![r] = {[entry |-> e, terms |-> terms[r]]}]
  /\ UNCHANGED terms

Cancel(r) ==
  /\ status[r] = "pending"
  /\ status' = [status EXCEPT ![r] = "canceled"]
  /\ UNCHANGED <<terms, ledger>>

Unpaid == {r \in Requests : status[r] \in {"pending", "canceled"}}

(* A party leaves the event and takes along requests that were never paid. *)
Withdraw(R) ==
  /\ status' = [r \in Requests |-> IF r \in R THEN "none" ELSE status[r]]
  /\ terms'  = [r \in Requests |-> IF r \in R THEN None ELSE terms[r]]
  /\ UNCHANGED ledger

(* The event is deleted with everything that belongs to it. *)
CloseBook ==
  /\ status' = [r \in Requests |-> "none"]
  /\ terms'  = [r \in Requests |-> None]
  /\ ledger' = [r \in Requests |-> {}]

Next ==
  \/ \E r \in Requests : \E t \in Terms : Propose(r, t)
  \/ \E r \in Requests : \E e \in Entries : Confirm(r, e)
  \/ \E r \in Requests : Cancel(r)
  \/ \E R \in SUBSET Unpaid : Withdraw(R)
  \/ CloseBook

Spec == Init /\ [][Next]_cvars
=============================================================================
