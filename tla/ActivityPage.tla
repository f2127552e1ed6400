------------------------------ MODULE ActivityPage ------------------------------
(***************************************************************************)
(* The activity page in the browsers of the members of one event.  A page  *)
(* acts on two cached answers of the server: the summary with balances and *)
(* repayment plan, and the list of payment requests.  It renews them when  *)
(* it thinks that they have changed.                                       *)
(*                                                                         *)
(* A call of a page reaches the server at once and its answer later; a     *)
(* fetch is asked, served and landed.  The server decides a request in one *)
(* step, which PaymentRequests implements.  With three members all debtors *)
(* owe to one creditor or one debtor to all creditors, so the greedy plan  *)
(* is what Plan says.                                                      *)
(***************************************************************************)
EXTENDS Integers, FiniteSets, Functions

CONSTANTS
  Members,   \* participants of the event
  Guests,    \* those without an account
  Creator,   \* who may remove others
  Pages,     \* open pages
  Owner,     \* Owner[p]: the member who is logged in on the page p
  Bills,     \* expenses that may be entered: payer, amount, share
  Entered,   \* those that are there from the start
  Requests,  \* identities of payment requests
  None       \* no request, no plan item, nobody

ASSUME APAssumption ==
  /\ Cardinality(Members) <= 3 /\ None \notin Members
  /\ Guests \subseteq Members /\ Creator \in Members \ Guests
  /\ Owner \in [Pages -> Members \ Guests]
  /\ Entered \subseteq Bills /\ IsFiniteSet(Bills) /\ IsFiniteSet(Requests)
  /\ \A b \in Bills : /\ b.payer \in Members /\ b.amount \in Nat
                      /\ b.share \in [Members -> Nat]
                      /\ SumFunction(b.share) = b.amount

VARIABLES
  members, expenses, requests,  \* tables of the server
  eraser,                       \* eraser[b]: the member who deleted the expense b
  cache,                        \* cache[p][k]: what the page shows
  fetch,                        \* fetch[p][k]: "idle", "asked" or "served"
  coming,                       \* coming[p][k]: the answer under way
  answers,                      \* answers[p]: calls that were carried out
  modal,                        \* modal[p]: the payment being made
  sending, awaited,             \* qrSending, and the fetches it waits for
  doubt                         \* doubt[p]: a call of the page has failed

server == <<members, expenses, requests, eraser>>
queries == <<cache, fetch, coming>>
payment == <<modal, sending, awaited>>
vars == <<members, expenses, requests, eraser, cache, fetch, coming,
          answers, modal, sending, awaited, doubt>>

Keys == {"summary", "requests"}

-----------------------------------------------------------------------------

(* GET summary and GET payment requests. *)
Payments ==
  {[of |-> r, payer |-> requests[r].payer, receiver |-> requests[r].receiver,
    amount |-> requests[r].amount] :
     r \in {r \in Requests : requests[r] # None /\ requests[r].status = "confirmed"}}

View(k) ==
  IF k = "summary"
  THEN [members |-> members, expenses |-> expenses, paid |-> Payments]
  ELSE requests

TotalPaid(v, m) ==
  SumFunction([b \in {b \in v.expenses : b.payer = m} |-> b.amount])

TotalBenefit(v, m) == SumFunction([b \in v.expenses |-> b.share[m]])

Settled(v, m) ==
    SumFunction([x \in {x \in v.paid : x.payer = m} |-> x.amount])
  - SumFunction([x \in {x \in v.paid : x.receiver = m} |-> x.amount])

Balance(v, m) == TotalPaid(v, m) - TotalBenefit(v, m) + Settled(v, m)

Lesser(a, b) == IF a < b THEN a ELSE b

Plan(v) ==
  {[from |-> d, to |-> c, amount |-> Lesser(-Balance(v, d), Balance(v, c))] :
     d \in {m \in v.members : Balance(v, m) < 0},
     c \in {m \in v.members : Balance(v, m) > 0}}

Init ==
  /\ members = Members
  /\ expenses = Entered
  /\ requests = [r \in Requests |-> None]
  /\ eraser = [b \in Bills |-> None]
  /\ cache = [p \in Pages |-> [k \in Keys |-> View(k)]]
  /\ fetch = [p \in Pages |-> [k \in Keys |-> "idle"]]
  /\ coming = [p \in Pages |-> [k \in Keys |-> None]]
  /\ answers = [p \in Pages |-> {}]
  /\ modal = [p \in Pages |-> None]
  /\ sending = [p \in Pages |-> FALSE]
  /\ awaited = [p \in Pages |-> {}]
  /\ doubt = [p \in Pages |-> FALSE]

-----------------------------------------------------------------------------

(* Queries.  A fetch that is under way is good enough. *)
AskIdle(p, K) ==
  LET idle == {k \in K : fetch[p][k] = "idle"}
  IN /\ fetch' = [fetch EXCEPT ![p] = [k \in Keys |-> IF k \in idle THEN "asked" ELSE @[k]]]
     /\ UNCHANGED coming

(* A fetch that is started anew forgets the one that was under way, also   *)
(* for those who wait for it.                                              *)
Ask(p, K) ==
  /\ fetch' = [fetch EXCEPT ![p] = [k \in Keys |-> IF k \in K THEN "asked" ELSE @[k]]]
  /\ coming' = [coming EXCEPT ![p] = [k \in Keys |-> IF k \in K THEN None ELSE @[k]]]

(* The window gets the focus: what is not being fetched is fetched. *)
Focus(p) ==
  LET K == {k \in Keys : fetch[p][k] = "idle"}
  IN /\ K # {}
     /\ Ask(p, K)
     /\ UNCHANGED <<server, cache, answers, payment, doubt>>

(* handleRefresh *)
Refresh(p) ==
  /\ Ask(p, Keys)
  /\ awaited' = [awaited EXCEPT ![p] = {}]
  /\ UNCHANGED <<server, cache, answers, modal, sending, doubt>>

Serve(p, k) ==
  /\ fetch[p][k] = "asked"
  /\ fetch' = [fetch EXCEPT ![p][k] = "served"]
  /\ coming' = [coming EXCEPT ![p][k] = View(k)]
  /\ UNCHANGED <<server, cache, answers, payment, doubt>>

FetchEnds(p, k) ==
  /\ fetch' = [fetch EXCEPT ![p][k] = "idle"]
  /\ coming' = [coming EXCEPT ![p][k] = None]
  /\ awaited' = [awaited EXCEPT ![p] = @ \ {k}]
  /\ UNCHANGED <<server, answers, modal, sending>>

Land(p, k) ==
  /\ fetch[p][k] = "served"
  /\ cache' = [cache EXCEPT ![p][k] = coming[p][k]]
  /\ FetchEnds(p, k)
  /\ UNCHANGED doubt

FetchFails(p, k) ==
  /\ fetch[p][k] = "asked"
  /\ doubt' = [doubt EXCEPT ![p] = TRUE]
  /\ FetchEnds(p, k)
  /\ UNCHANGED cache

-----------------------------------------------------------------------------

(* What the server does with a call of the member m. *)
Propose(r, item) ==
  /\ requests[r] = None
  /\ {item.from, item.to} \subseteq members
  /\ requests' = [requests EXCEPT ![r] =
       [payer |-> item.from, receiver |-> item.to,
        amount |-> item.amount, status |-> "pending"]]
  /\ UNCHANGED <<members, expenses, eraser>>

Settle(m, r, status) ==
  /\ requests[r] # None
  /\ requests[r].receiver = m /\ requests[r].status = "pending"
  /\ requests' = [requests EXCEPT ![r].status = status]
  /\ UNCHANGED <<members, expenses, eraser>>

Enter(m, b) ==
  /\ b \notin expenses /\ eraser[b] = None
  /\ {m, b.payer} \subseteq members
  /\ \A o \in Members \ members : b.share[o] = 0
  /\ expenses' = expenses \cup {b}
  /\ UNCHANGED <<members, requests, eraser>>

Erase(m, b) ==
  /\ b \in expenses /\ m \in members
  /\ expenses' = expenses \ {b}
  /\ eraser' = [eraser EXCEPT ![b] = m]
  /\ UNCHANGED <<members, requests>>

(* The balance of the expenses is asked of members with an account only,   *)
(* and a settlement keeps its parties.                                     *)
Expel(m) ==
  /\ m \in members
  /\ m \notin Guests =>
       TotalPaid(View("summary"), m) = TotalBenefit(View("summary"), m)
  /\ \A x \in Payments : m \notin {x.payer, x.receiver}
  /\ members' = members \ {m}
  /\ requests' = [r \in Requests |->
       IF requests[r] # None /\ m \in {requests[r].payer, requests[r].receiver}
       THEN None ELSE requests[r]]
  /\ UNCHANGED <<expenses, eraser>>

(* Members whose pages are not in the model call the server too. *)
Elsewhere ==
  /\ \E m \in members \ (Guests \cup {Owner[p] : p \in Pages}) :
       \/ \E r \in Requests : \E item \in Plan(View("summary")) :
            item.from = m /\ Propose(r, item)
       \/ \E r \in Requests : \E status \in {"confirmed", "canceled"} :
            Settle(m, r, status)
       \/ \E b \in Bills : Enter(m, b) \/ Erase(m, b)
  /\ UNCHANGED <<queries, answers, payment, doubt>>

-----------------------------------------------------------------------------

(* A confirmation that leaves the summary as it is. *)
RequestsOnly(act) ==
  CASE act \in {"pay", "remove"} -> Keys
    [] act \in {"confirm", "cancel"} -> {"requests"}
    [] act = "erase"  -> {"summary"}
    [] act = "spend"  -> {}

(* What a page does when a call has been answered with success. *)
Invalidated(act) ==
  CASE act \in {"pay", "confirm", "remove"} -> Keys
    [] act = "cancel" -> {"requests"}
    [] act = "erase"  -> {"summary"}
    [] act = "spend"  -> {}

(* A call is carried out; its answer arrives later or gets lost. *)
Called(p, act, on) ==
  \/ /\ answers' = [answers EXCEPT ![p] = @ \cup {[act |-> act, on |-> on]}]
     /\ UNCHANGED doubt
  \/ /\ doubt' = [doubt EXCEPT ![p] = TRUE]
     /\ UNCHANGED answers

Answered(p, a) ==
  /\ a \in answers[p]
  /\ answers' = [answers EXCEPT ![p] = @ \ {a}]
  /\ Ask(p, Invalidated(a.act))
  /\ IF a.act = "pay"
     THEN /\ modal' = [modal EXCEPT ![p] = None]
          /\ awaited' = [awaited EXCEPT ![p] = Keys]
     ELSE /\ awaited' = [awaited EXCEPT ![p] = @ \ Invalidated(a.act)]
          /\ UNCHANGED modal
  /\ UNCHANGED <<server, cache, sending, doubt>>

(* hasPendingOutgoing *)
PendingOutgoing(p, item) ==
  \E r \in Requests : LET q == cache[p]["requests"][r]
                      IN /\ q # None
                         /\ q.payer = Owner[p] /\ q.status = "pending"
                         /\ q.receiver = item.to /\ q.amount = item.amount

(* "Pay now" opens the QR code of an item of the plan. *)
PayNow(p, item) ==
  /\ modal[p] = None
  /\ item \in Plan(cache[p]["summary"])
  /\ item.from = Owner[p]
  /\ ~PendingOutgoing(p, item)
  /\ modal' = [modal EXCEPT ![p] = item]
  /\ UNCHANGED <<server, queries, answers, sending, awaited, doubt>>

CloseModal(p) ==
  /\ modal[p] # None
  /\ modal' = [modal EXCEPT ![p] = None]
  /\ UNCHANGED <<server, queries, answers, sending, awaited, doubt>>

(* "I have paid".  A page whose call was refused or whose answer got lost  *)
(* stays as it is.                                                         *)
MarkPaid(p, r) ==
  /\ modal[p] # None /\ ~sending[p]
  /\ Propose(r, modal[p])
  /\ Called(p, "pay", r)
  /\ sending' = [sending EXCEPT ![p] = answers' # answers]
  /\ UNCHANGED <<queries, modal, awaited>>

(* Both invalidations have ended, with new data or without. *)
Sent(p) ==
  /\ sending[p] /\ awaited[p] = {}
  /\ \A a \in answers[p] : a.act # "pay"
  /\ sending' = [sending EXCEPT ![p] = FALSE]
  /\ UNCHANGED <<server, queries, answers, modal, awaited, doubt>>

(* The receiver confirms or cancels a request his page shows as pending. *)
ShownPending(p, r) ==
  LET q == cache[p]["requests"][r]
  IN q # None /\ q.receiver = Owner[p] /\ q.status = "pending"

ConfirmRequest(p, r) ==
  /\ ShownPending(p, r)
  /\ Settle(Owner[p], r, "confirmed")
  /\ Called(p, "confirm", r)
  /\ UNCHANGED <<queries, payment>>

CancelRequest(p, r) ==
  /\ ShownPending(p, r)
  /\ Settle(Owner[p], r, "canceled")
  /\ Called(p, "cancel", r)
  /\ UNCHANGED <<queries, payment>>

CreateExpense(p, b) ==
  /\ Enter(Owner[p], b)
  /\ Called(p, "spend", b)
  /\ UNCHANGED <<queries, payment>>

DeleteExpense(p, b) ==
  /\ Erase(Owner[p], b)
  /\ Called(p, "erase", b)
  /\ UNCHANGED <<queries, payment>>

(* handleRemoveParticipant looks at the summary that is shown. *)
SeemsUninvolved(p, m) ==
  LET v == cache[p]["summary"]
  IN m \in v.members =>
       TotalPaid(v, m) = 0 /\ TotalBenefit(v, m) = 0 /\ Balance(v, m) = 0

RemoveParticipant(p, m) ==
  /\ Owner[p] = Creator /\ m # Owner[p]
  /\ SeemsUninvolved(p, m)
  /\ Expel(m)
  /\ Called(p, "remove", m)
  /\ UNCHANGED <<queries, payment>>

PageSteps(p) ==
  \/ Focus(p) \/ Refresh(p) \/ CloseModal(p) \/ Sent(p)
  \/ \E k \in Keys : Serve(p, k) \/ Land(p, k) \/ FetchFails(p, k)
  \/ \E a \in answers[p] : Answered(p, a)
  \/ \E item \in Plan(cache[p]["summary"]) : PayNow(p, item)
  \/ \E r \in Requests : MarkPaid(p, r) \/ ConfirmRequest(p, r) \/ CancelRequest(p, r)
  \/ \E b \in Bills : CreateExpense(p, b) \/ DeleteExpense(p, b)
  \/ \E m \in Members : RemoveParticipant(p, m)

Next == Elsewhere \/ \E p \in Pages : PageSteps(p)

Spec == Init /\ [][Next]_vars

-----------------------------------------------------------------------------

RequestType == [payer : Members, receiver : Members, amount : Nat \ {0},
                status : {"pending", "confirmed", "canceled"}]
PaymentType == [of : Requests, payer : Members, receiver : Members,
                amount : Nat \ {0}]
ItemType    == [from : Members, to : Members, amount : Nat \ {0}]
SummaryType == [members : SUBSET Members, expenses : SUBSET Bills,
                paid : SUBSET PaymentType]

AnswerType(k) ==
  IF k = "summary" THEN SummaryType ELSE [Requests -> RequestType \cup {None}]

ServerTypeOK ==
  /\ members \in SUBSET Members /\ expenses \in SUBSET Bills
  /\ requests \in AnswerType("requests")
  /\ eraser \in [Bills -> Members \cup {None}]

(* An answer is under way for as long as the fetch is served. *)
QueriesTypeOK ==
  /\ fetch \in [Pages -> [Keys -> {"idle", "asked", "served"}]]
  /\ \A p \in Pages : \A k \in Keys :
       /\ cache[p][k] \in AnswerType(k)
       /\ fetch[p][k] = "served" => coming[p][k] \in AnswerType(k)
       /\ fetch[p][k] # "served" => coming[p][k] = None

CallsTypeOK ==
  /\ answers \in [Pages -> SUBSET
       [act : {"pay", "confirm", "cancel", "spend", "erase", "remove"},
        on : Requests \cup Bills \cup Members]]
  /\ modal \in [Pages -> ItemType \cup {None}]
  /\ sending \in [Pages -> BOOLEAN] /\ awaited \in [Pages -> SUBSET Keys]
  /\ doubt \in [Pages -> BOOLEAN]

TypeOK == ServerTypeOK /\ QueriesTypeOK /\ CallsTypeOK

(* Nothing is under way on the page and none of its calls has failed. *)
Quiet(p) ==
  /\ \A k \in Keys : fetch[p][k] = "idle"
  /\ answers[p] = {} /\ ~sending[p] /\ ~doubt[p]

OnlyPage(p) == \A o \in Pages \ {p} : Owner[o] # Owner[p]

(* A page that has come to rest shows what its user has done to requests:  *)
(* those he made are there while they are pending, so that they are not    *)
(* offered again, and those he decided are not shown as pending, however   *)
(* its fetches and his calls have overlapped.                              *)
OwnRequestsShown ==
  \A p \in Pages : Quiet(p) /\ OnlyPage(p) =>
    \A r \in Requests : requests[r] # None =>
      LET q == requests[r]  shown == cache[p]["requests"][r]
      IN /\ q.payer = Owner[p] => shown # None
         /\ q.receiver = Owner[p] /\ q.status # "pending" => ~ShownPending(p, r)

(* The balances of such a page count the payments its user has confirmed   *)
(* and no longer the expenses he has deleted.                              *)
OwnChangesCounted ==
  \A p \in Pages : Quiet(p) /\ OnlyPage(p) =>
    LET v == cache[p]["summary"]
    IN /\ \A x \in Payments : x.receiver = Owner[p] => x \in v.paid
       /\ \A b \in Bills : eraser[b] = Owner[p] => b \notin v.expenses

(* "Cannot remove ... because they are part of existing expenses." *)
RemovedUninvolved ==
  [][\A m \in members \ members' :
       TotalPaid(View("summary"), m) = 0 /\ TotalBenefit(View("summary"), m) = 0]_vars

(* "You owe this amount": a payment that is confirmed was due. *)
PaymentsDue ==
  [][\A x \in Payments' \ Payments :
       x.amount <= -Balance(View("summary"), x.payer)]_vars
=============================================================================
