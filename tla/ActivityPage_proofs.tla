-------------------------- MODULE ActivityPage_proofs --------------------------
(***************************************************************************)
(* Proofs about ActivityPage, for any event and any number of pages.       *)
(* What a user has done is either shown by the newest answer his page has  *)
(* received (Newest), or something is still to come that will show it: a   *)
(* fetch that is not served yet, or the answer of the call itself, which   *)
(* starts one.                                                             *)
(*                                                                         *)
(* The second part is about types.  It begins with the sums of the library *)
(* as Amounts_proofs has them for its own modules.                         *)
(***************************************************************************)
EXTENDS ActivityPage, TLAPS, FiniteSetTheorems, WellFoundedInduction, FiniteSetsExt

Acts == {"pay", "confirm", "cancel", "spend", "erase", "remove"}

(* Of the tables, only what the proofs look into. *)
Recorded(q) == q = [payer |-> q.payer, receiver |-> q.receiver,
                    amount |-> q.amount, status |-> q.status]

Shaped ==
  /\ DOMAIN requests = Requests
  /\ \A r \in Requests : requests[r] # None => Recorded(requests[r])
  /\ DOMAIN eraser = Bills
  /\ DOMAIN cache = Pages /\ \A p \in Pages : DOMAIN cache[p] = Keys
  /\ DOMAIN coming = Pages /\ \A p \in Pages : DOMAIN coming[p] = Keys
  /\ fetch \in [Pages -> [Keys -> {"idle", "asked", "served"}]]
  /\ answers \in [Pages -> SUBSET [act : Acts, on : Requests \cup Bills \cup Members]]
  /\ DOMAIN modal = Pages /\ DOMAIN awaited = Pages
  /\ doubt \in [Pages -> BOOLEAN]

(* The answer of the server that the page has, or is about to have. *)
Newest(p, k) == IF fetch[p][k] = "served" THEN coming[p][k] ELSE cache[p][k]

(* A call of p about x whose answer has not come, or a failure of p. *)
Owed(p, acts, x) == doubt[p] \/ \E a \in answers[p] : a.act \in acts /\ a.on = x

(* A call like these renews k when it is answered, or k is about to be.    *)
Open(p, k, acts, x) == Owed(p, acts, x) \/ fetch[p][k] = "asked"

PendingFor(q, m) == q # None /\ q.receiver = m /\ q.status = "pending"

ProposalsKnown(p) ==
  \A r \in Requests : requests[r] # None /\ requests[r].payer = Owner[p] =>
    Open(p, "requests", {"pay"}, r) \/ Newest(p, "requests")[r] # None

DecisionsKnown(p) ==
  \A r \in Requests :
    requests[r] # None /\ requests[r].receiver = Owner[p]
        /\ requests[r].status # "pending" =>
      \/ Open(p, "requests", {"confirm", "cancel"}, r)
      \/ ~PendingFor(Newest(p, "requests")[r], Owner[p])

PaymentOf(r) == [of |-> r, payer |-> requests[r].payer, receiver |-> requests[r].receiver,
                 amount |-> requests[r].amount]

PaymentsKnown(p) ==
  \A r \in Requests :
    requests[r] # None /\ requests[r].receiver = Owner[p]
        /\ requests[r].status = "confirmed" =>
      Open(p, "summary", {"confirm"}, r) \/ PaymentOf(r) \in Newest(p, "summary").paid

ErasuresKnown(p) ==
  \A b \in Bills : eraser[b] = Owner[p] =>
    Open(p, "summary", {"erase"}, b) \/ b \notin Newest(p, "summary").expenses

Known(p) ==
  ProposalsKnown(p) /\ DecisionsKnown(p) /\ PaymentsKnown(p) /\ ErasuresKnown(p)

(* A page offers only what its user owes; what is deleted stays deleted. *)
ModalOwn == \A p \in Pages : modal[p] # None => modal[p].from = Owner[p]
ErasedGone == \A b \in Bills : eraser[b] # None => b \notin expenses

IInv ==
  /\ Shaped /\ ModalOwn /\ ErasedGone
  /\ \A p \in Pages : OnlyPage(p) => Known(p)

-----------------------------------------------------------------------------

LEMMA InitInvariant == Init => IInv
<1> SUFFICES ASSUME Init PROVE IInv
  OBVIOUS
<1>1. Shaped
  BY DEF Init, Shaped, Keys
<1>2. ModalOwn /\ ErasedGone
  BY DEF Init, ModalOwn, ErasedGone
<1>3. ASSUME NEW p \in Pages PROVE Known(p)
  <2>1. Owner[p] \in Members
    BY APAssumption
  <2>2. ProposalsKnown(p) /\ DecisionsKnown(p) /\ PaymentsKnown(p)
    BY DEF Init, ProposalsKnown, DecisionsKnown, PaymentsKnown
  <2>4. ErasuresKnown(p)
    BY <2>1, APAssumption DEF Init, ErasuresKnown
  <2> QED
    BY <2>2, <2>4 DEF Known
<1> QED
  BY <1>1, <1>2, <1>3 DEF IInv

(* A page other than q keeps what it has, or nothing of it changes. *)
SameAnswers(p) ==
  /\ fetch'[p] = fetch[p] /\ cache'[p] = cache[p] /\ coming'[p] = coming[p]
  /\ answers[p] \subseteq answers'[p]
  /\ doubt[p] => doubt'[p]

(* The tables change without the page taking notice: it need not know of   *)
(* what others do, and its own calls leave an answer to come.              *)
LEMMA TablesChange ==
  ASSUME NEW p \in Pages, Known(p), SameAnswers(p),
         \A r \in Requests : requests'[r] # None =>
           /\ requests'[r].payer = Owner[p] =>
                \/ requests[r] # None /\ requests[r].payer = Owner[p]
                \/ Owed(p, {"pay"}, r)'
           /\ requests'[r].receiver = Owner[p] /\ requests'[r].status # "pending" =>
                \/ requests[r] = requests'[r]
                \/ Owed(p, {"confirm", "cancel"}, r)'
           /\ requests'[r].receiver = Owner[p] /\ requests'[r].status = "confirmed" =>
                \/ requests[r] = requests'[r]
                \/ Owed(p, {"confirm"}, r)',
         \A b \in Bills : eraser'[b] = Owner[p] =>
           eraser[b] = Owner[p] \/ Owed(p, {"erase"}, b)'
  PROVE  Known(p)'
<1>1. \A acts, x : Owed(p, acts, x) => Owed(p, acts, x)'
  BY DEF Owed, SameAnswers
<1>2. \A k, acts, x : Open(p, k, acts, x) => Open(p, k, acts, x)'
  BY <1>1 DEF Open, SameAnswers
<1>3. \A k : Newest(p, k)' = Newest(p, k)
  BY DEF Newest, SameAnswers
<1>4. \A k, acts, x : Owed(p, acts, x)' => Open(p, k, acts, x)'
  BY DEF Open
<1>5. ProposalsKnown(p)'
  BY <1>2, <1>3, <1>4 DEF Known, ProposalsKnown
<1>6. DecisionsKnown(p)'
  BY <1>2, <1>3, <1>4 DEF Known, DecisionsKnown, PendingFor
<1>7. PaymentsKnown(p)'
  BY <1>2, <1>3, <1>4 DEF Known, PaymentsKnown, PaymentOf
<1>8. ErasuresKnown(p)'
  BY <1>2, <1>3, <1>4 DEF Known, ErasuresKnown
<1> QED
  BY <1>5, <1>6, <1>7, <1>8 DEF Known

(* Of each key a fetch is still to be served, or the page has or will have *)
(* what the server has now, or it has what it had, and no answer that      *)
(* would renew it has been taken.                                          *)
LEMMA FetchesMove ==
  ASSUME NEW p \in Pages, Known(p), ErasedGone, UNCHANGED server,
         doubt[p] => doubt'[p],
         \A k \in Keys :
           \/ fetch'[p][k] = "asked"
           \/ doubt'[p]
           \/ Newest(p, k)' = View(k)
           \/ /\ Newest(p, k)' = Newest(p, k)
              /\ fetch[p][k] # "asked"
              /\ \A a \in answers[p] \ answers'[p] : k \notin Invalidated(a.act)
  PROVE  Known(p)'
<1>1. ASSUME NEW k \in Keys, NEW acts, NEW x,
             \A act \in acts : k \in Invalidated(act), Open(p, k, acts, x)
      PROVE  \/ Open(p, k, acts, x)'
             \/ Newest(p, k)' = View(k)
  BY <1>1 DEF Open, Owed
<1>2. ASSUME NEW k \in Keys, NEW acts, NEW x
      PROVE  \/ Open(p, k, acts, x)'
             \/ Newest(p, k)' = View(k)
             \/ Newest(p, k)' = Newest(p, k)
  BY <1>2 DEF Open, Owed
<1>3. "requests" \in Keys /\ "summary" \in Keys
  BY DEF Keys
<1>4. \A act \in {"pay", "confirm", "cancel"} : "requests" \in Invalidated(act)
  BY DEF Invalidated, Keys
<1>5. \A act \in {"confirm", "erase"} : "summary" \in Invalidated(act)
  BY DEF Invalidated, Keys
<1>6. ProposalsKnown(p)'
  <2> SUFFICES ASSUME NEW r \in Requests, requests[r] # None, requests[r].payer = Owner[p],
                      ~Open(p, "requests", {"pay"}, r)'
               PROVE  Newest(p, "requests")'[r] # None
    BY DEF ProposalsKnown, server
  <2>1. CASE Newest(p, "requests")' = View("requests")
    BY <2>1 DEF View
  <2>2. CASE Newest(p, "requests")' # View("requests")
    <3>1. ~Open(p, "requests", {"pay"}, r)
      BY <1>1, <1>3, <1>4, <2>2
    <3>2. Newest(p, "requests")' = Newest(p, "requests")
      BY <1>2, <1>3, <2>2
    <3> QED
      BY <3>1, <3>2 DEF Known, ProposalsKnown
  <2> QED
    BY <2>1, <2>2
<1>7. DecisionsKnown(p)'
  <2> SUFFICES ASSUME NEW r \in Requests, requests[r] # None,
                      requests[r].receiver = Owner[p], requests[r].status # "pending",
                      ~Open(p, "requests", {"confirm", "cancel"}, r)'
               PROVE  ~PendingFor(Newest(p, "requests")'[r], Owner[p])
    BY DEF DecisionsKnown, PendingFor, server
  <2>1. CASE Newest(p, "requests")' = View("requests")
    BY <2>1 DEF View, PendingFor
  <2>2. CASE Newest(p, "requests")' # View("requests")
    <3>1. ~Open(p, "requests", {"confirm", "cancel"}, r)
      BY <1>1, <1>3, <1>4, <2>2
    <3>2. Newest(p, "requests")' = Newest(p, "requests")
      BY <1>2, <1>3, <2>2
    <3> QED
      BY <3>1, <3>2 DEF Known, DecisionsKnown
  <2> QED
    BY <2>1, <2>2
<1>8. PaymentsKnown(p)'
  <2> SUFFICES ASSUME NEW r \in Requests, requests[r] # None,
                      requests[r].receiver = Owner[p], requests[r].status = "confirmed",
                      ~Open(p, "summary", {"confirm"}, r)'
               PROVE  PaymentOf(r) \in Newest(p, "summary")'.paid
    BY DEF PaymentsKnown, PaymentOf, server
  <2>1. CASE Newest(p, "summary")' = View("summary")
    BY <2>1 DEF View, Payments, PaymentOf
  <2>2. CASE Newest(p, "summary")' # View("summary")
    <3>1. ~Open(p, "summary", {"confirm"}, r)
      BY <1>1, <1>3, <1>5, <2>2
    <3>2. Newest(p, "summary")' = Newest(p, "summary")
      BY <1>2, <1>3, <2>2
    <3> QED
      BY <3>1, <3>2 DEF Known, PaymentsKnown
  <2> QED
    BY <2>1, <2>2
<1>9. ErasuresKnown(p)'
  <2>0. Owner[p] # None
    BY APAssumption
  <2> SUFFICES ASSUME NEW b \in Bills, eraser[b] = Owner[p],
                      ~Open(p, "summary", {"erase"}, b)'
               PROVE  b \notin Newest(p, "summary")'.expenses
    BY DEF ErasuresKnown, server
  <2>1. CASE Newest(p, "summary")' = View("summary")
    BY <2>0, <2>1 DEF View, ErasedGone
  <2>2. CASE Newest(p, "summary")' # View("summary")
    <3>1. ~Open(p, "summary", {"erase"}, b)
      BY <1>1, <1>3, <1>5, <2>2
    <3>2. Newest(p, "summary")' = Newest(p, "summary")
      BY <1>2, <1>3, <2>2
    <3> QED
      BY <3>1, <3>2 DEF Known, ErasuresKnown
  <2> QED
    BY <2>1, <2>2
<1> QED
  BY <1>6, <1>7, <1>8, <1>9 DEF Known

-----------------------------------------------------------------------------
(* What a call of the member m does to the tables, but for a removal. *)
Operated(m) ==
  \/ \E r \in Requests : \E item : item.from = m /\ Propose(r, item)
  \/ \E r \in Requests : \E status : Settle(m, r, status)
  \/ \E b \in Bills : Enter(m, b) \/ Erase(m, b)

LEMMA TablesShaped ==
  ASSUME Shaped, ErasedGone, NEW m, Operated(m) \/ Expel(m)
  PROVE  /\ DOMAIN requests' = Requests
         /\ \A r \in Requests : requests'[r] # None => Recorded(requests'[r])
         /\ DOMAIN eraser' = Bills
         /\ ErasedGone'
<1>1. CASE \E r \in Requests : \E item : item.from = m /\ Propose(r, item)
  BY <1>1 DEF Shaped, ErasedGone, Propose, Recorded
<1>2. CASE \E r \in Requests : \E status : Settle(m, r, status)
  <2>1. PICK r, status : r \in Requests /\ Settle(m, r, status)
    BY <1>2
  <2>2. Recorded(requests[r])
    BY <2>1 DEF Shaped, Settle
  <2>3. requests'[r] = [payer |-> requests[r].payer, receiver |-> requests[r].receiver,
                        amount |-> requests[r].amount, status |-> status]
    BY <2>1, <2>2 DEF Settle, Recorded, Shaped
  <2> QED
    BY <2>1, <2>3 DEF Shaped, ErasedGone, Settle, Recorded
<1>3. CASE \E b \in Bills : Enter(m, b) \/ Erase(m, b)
  BY <1>3 DEF Shaped, ErasedGone, Enter, Erase
<1>4. CASE Expel(m)
  BY <1>4 DEF Shaped, ErasedGone, Expel
<1> QED
  BY <1>1, <1>2, <1>3, <1>4 DEF Operated

(* What somebody else than the user o has done is no concern of his.       *)
Foreign(o) ==
  /\ \A r \in Requests : requests'[r] # None =>
       /\ requests'[r].payer = o => requests[r] # None /\ requests[r].payer = o
       /\ requests'[r].receiver = o /\ requests'[r].status # "pending" =>
            requests[r] = requests'[r]
  /\ \A b \in Bills : eraser'[b] = o => eraser[b] = o

LEMMA OthersForeign ==
  ASSUME Shaped, NEW m, NEW o, (m # o /\ Operated(m)) \/ Expel(m)
  PROVE  Foreign(o)
<1>1. CASE m # o /\ \E r \in Requests : \E item : item.from = m /\ Propose(r, item)
  BY <1>1 DEF Shaped, Foreign, Propose
<1>2. CASE m # o /\ \E r \in Requests : \E status : Settle(m, r, status)
  <2>1. PICK r, status : r \in Requests /\ Settle(m, r, status)
    BY <1>2
  <2>2. Recorded(requests[r])
    BY <2>1 DEF Shaped, Settle
  <2>3. requests'[r] = [payer |-> requests[r].payer, receiver |-> requests[r].receiver,
                        amount |-> requests[r].amount, status |-> status]
    BY <2>1, <2>2 DEF Settle, Recorded, Shaped
  <2> QED
    BY <1>2, <2>1, <2>2, <2>3 DEF Shaped, Foreign, Settle
<1>3. CASE m # o /\ \E b \in Bills : Enter(m, b) \/ Erase(m, b)
  BY <1>3 DEF Shaped, Foreign, Enter, Erase
<1>4. CASE Expel(m)
  BY <1>4 DEF Shaped, Foreign, Expel
<1> QED
  BY <1>1, <1>2, <1>3, <1>4 DEF Operated

(* A step of page q that calls the server. *)
Calls(q) ==
  \/ \E r \in Requests : MarkPaid(q, r) \/ ConfirmRequest(q, r) \/ CancelRequest(q, r)
  \/ \E b \in Bills : CreateExpense(q, b) \/ DeleteExpense(q, b)
  \/ \E m \in Members : RemoveParticipant(q, m)

LEMMA CallOperates ==
  ASSUME ModalOwn, NEW q \in Pages, Calls(q)
  PROVE  /\ Operated(Owner[q]) \/ \E m \in Members : Expel(m)
         /\ UNCHANGED <<cache, fetch, coming, modal, awaited>>
         /\ \E act \in Acts, on \in Requests \cup Bills \cup Members : Called(q, act, on)
<1>1. CASE \E r \in Requests : MarkPaid(q, r)
  BY <1>1 DEF MarkPaid, ModalOwn, Operated, Acts, queries
<1>2. CASE \E r \in Requests : ConfirmRequest(q, r) \/ CancelRequest(q, r)
  BY <1>2 DEF ConfirmRequest, CancelRequest, Operated, Acts, queries, payment
<1>3. CASE \E b \in Bills : CreateExpense(q, b) \/ DeleteExpense(q, b)
  BY <1>3 DEF CreateExpense, DeleteExpense, Operated, Acts, queries, payment
<1>4. CASE \E m \in Members : RemoveParticipant(q, m)
  BY <1>4 DEF RemoveParticipant, Acts, queries, payment
<1> QED
  BY <1>1, <1>2, <1>3, <1>4 DEF Calls

LEMMA CalledSame ==
  ASSUME Shaped, NEW q \in Pages, NEW act \in Acts,
         NEW on \in Requests \cup Bills \cup Members, Called(q, act, on),
         UNCHANGED <<cache, fetch, coming>>
  PROVE  /\ answers' \in [Pages -> SUBSET [act : Acts, on : Requests \cup Bills \cup Members]]
         /\ doubt' \in [Pages -> BOOLEAN]
         /\ \A p \in Pages : SameAnswers(p)
         /\ \A acts : act \in acts => Owed(q, acts, on)'
<1>1. [act |-> act, on |-> on] \in [act : Acts, on : Requests \cup Bills \cup Members]
  OBVIOUS
<1>2. CASE /\ answers' = [answers EXCEPT ![q] = @ \cup {[act |-> act, on |-> on]}]
           /\ UNCHANGED doubt
  <2>1. answers'[q] = answers[q] \cup {[act |-> act, on |-> on]}
    BY <1>2 DEF Shaped
  <2>2. ASSUME NEW acts, act \in acts PROVE Owed(q, acts, on)'
    <3> DEFINE a == [act |-> act, on |-> on]
    <3>1. a \in answers'[q] /\ a.act \in acts /\ a.on = on
      BY <2>1, <2>2
    <3> QED
      BY <3>1 DEF Owed
  <2> QED
    BY <1>1, <1>2, <2>1, <2>2 DEF Shaped, SameAnswers
<1>3. CASE /\ doubt' = [doubt EXCEPT ![q] = TRUE]
           /\ UNCHANGED answers
  BY <1>3 DEF Shaped, SameAnswers, Owed
<1> QED
  BY <1>2, <1>3 DEF Called

LEMMA CallPreserves ==
  ASSUME IInv, NEW q \in Pages, Calls(q)
  PROVE  IInv'
<1> USE DEF IInv
<1>1. PICK act \in Acts, on \in Requests \cup Bills \cup Members : Called(q, act, on)
  BY CallOperates
<1>2. /\ Operated(Owner[q]) \/ \E m \in Members : Expel(m)
      /\ UNCHANGED <<cache, fetch, coming, modal, awaited>>
  BY CallOperates
<1>3. Owner[q] \in Members
  BY APAssumption
<1>4. /\ answers' \in [Pages -> SUBSET [act : Acts, on : Requests \cup Bills \cup Members]]
      /\ doubt' \in [Pages -> BOOLEAN]
      /\ \A p \in Pages : SameAnswers(p)
  BY <1>1, <1>2, CalledSame
<1>5. /\ DOMAIN requests' = Requests
      /\ \A r \in Requests : requests'[r] # None => Recorded(requests'[r])
      /\ DOMAIN eraser' = Bills
      /\ ErasedGone'
  BY <1>2, <1>3, TablesShaped
<1>6. Shaped'
  BY <1>2, <1>4, <1>5 DEF Shaped, Recorded
<1>7. ModalOwn'
  BY <1>2 DEF ModalOwn
<1>8. ASSUME NEW p \in Pages, OnlyPage(p), Foreign(Owner[p])
      PROVE  Known(p)'
  BY <1>4, <1>8, TablesChange DEF Foreign
<1>9. ASSUME NEW p \in Pages, OnlyPage(p), p # q
      PROVE  Known(p)'
  <2>1. Foreign(Owner[p])
    BY <1>2, <1>9, OthersForeign DEF OnlyPage
  <2> QED
    BY <1>8, <1>9, <2>1
<1>10. ASSUME OnlyPage(q) PROVE Known(q)'
  <2>1. CASE \E r \in Requests : MarkPaid(q, r)
    <3>1. PICK r \in Requests : MarkPaid(q, r)
      BY <2>1
    <3>2. Owed(q, {"pay"}, r)'
      BY <1>2, <3>1, CalledSame DEF MarkPaid, Acts
    <3> QED
      BY <1>4, <1>10, <3>1, <3>2, TablesChange DEF MarkPaid, Propose, Shaped
  <2>2. ASSUME NEW r \in Requests, NEW status, NEW a \in {"confirm", "cancel"},
               Settle(Owner[q], r, status), Called(q, a, r),
               a = "cancel" => status = "canceled"
        PROVE  Known(q)'
    <3>1. Owed(q, {"confirm", "cancel"}, r)'
      BY <1>2, <2>2, CalledSame DEF Acts
    <3>2. a = "confirm" => Owed(q, {"confirm"}, r)'
      BY <1>2, <2>2, CalledSame DEF Acts
    <3>3. Recorded(requests[r])
      BY <2>2 DEF Shaped, Settle
    <3>4. requests'[r] = [payer |-> requests[r].payer, receiver |-> requests[r].receiver,
                          amount |-> requests[r].amount, status |-> status]
      BY <2>2, <3>3 DEF Settle, Recorded, Shaped
    <3>5. /\ \A s \in Requests : s # r => requests'[s] = requests[s]
          /\ UNCHANGED eraser /\ requests[r] # None
      BY <2>2 DEF Settle, Shaped
    <3> QED
      BY <1>4, <1>10, <2>2, <3>1, <3>2, <3>4, <3>5, TablesChange
  <2>3. CASE \E r \in Requests : ConfirmRequest(q, r) \/ CancelRequest(q, r)
    BY <2>2, <2>3 DEF ConfirmRequest, CancelRequest
  <2>4. CASE \E b \in Bills : CreateExpense(q, b)
    BY <1>4, <1>10, <2>4, TablesChange DEF CreateExpense, Enter
  <2>5. CASE \E b \in Bills : DeleteExpense(q, b)
    <3>1. PICK b \in Bills : DeleteExpense(q, b)
      BY <2>5
    <3>2. Owed(q, {"erase"}, b)'
      BY <1>2, <3>1, CalledSame DEF DeleteExpense, Acts
    <3> QED
      BY <1>4, <1>10, <3>1, <3>2, TablesChange DEF DeleteExpense, Erase, Shaped
  <2>6. CASE \E m \in Members : RemoveParticipant(q, m)
    <3>1. Foreign(Owner[q])
      BY <2>6, OthersForeign DEF RemoveParticipant
    <3> QED
      BY <1>8, <1>10, <3>1
  <2> QED
    BY <2>1, <2>3, <2>4, <2>5, <2>6 DEF Calls
<1> QED
  BY <1>5, <1>6, <1>7, <1>9, <1>10 DEF OnlyPage

(* A step that only moves the fetches of the page q, and what it is told. *)
Moves(q) ==
  \/ Focus(q) \/ Refresh(q)
  \/ \E k \in Keys : Serve(q, k) \/ Land(q, k) \/ FetchFails(q, k)
  \/ \E a \in answers[q] : Answered(q, a)

LEMMA MovesShaped ==
  ASSUME IInv, NEW q \in Pages, Moves(q)
  PROVE  /\ Shaped' /\ ModalOwn' /\ ErasedGone'
         /\ UNCHANGED server
         /\ \A p \in Pages : p # q => SameAnswers(p)
         /\ doubt[q] => doubt'[q]
<1> USE DEF IInv, Shaped, ModalOwn, ErasedGone, SameAnswers
<1>1. ASSUME NEW K \in SUBSET Keys, Ask(q, K)
      PROVE  /\ fetch' \in [Pages -> [Keys -> {"idle", "asked", "served"}]]
             /\ DOMAIN coming' = Pages /\ \A p \in Pages : DOMAIN coming'[p] = Keys
             /\ \A p \in Pages : p # q => fetch'[p] = fetch[p] /\ coming'[p] = coming[p]
  BY <1>1 DEF Ask
<1>2. CASE Focus(q)
  BY <1>1, <1>2 DEF Focus, server, payment, Recorded
<1>3. CASE Refresh(q)
  BY <1>1, <1>3 DEF Refresh, server, Recorded
<1>4. CASE \E k \in Keys : Serve(q, k)
  BY <1>4 DEF Serve, server, payment, Recorded
<1>5. CASE \E k \in Keys : Land(q, k)
  BY <1>5 DEF Land, FetchEnds, server, Recorded
<1>6. CASE \E k \in Keys : FetchFails(q, k)
  BY <1>6 DEF FetchFails, FetchEnds, server, Recorded
<1>7. CASE \E a \in answers[q] : Answered(q, a)
  <2>1. PICK a \in answers[q] : Answered(q, a)
    BY <1>7
  <2>2. Invalidated(a.act) \in SUBSET Keys
    BY DEF Invalidated, Keys, Acts
  <2>3. Ask(q, Invalidated(a.act))
    BY <2>1 DEF Answered
  <2>4. CASE a.act = "pay"
    BY <1>1, <2>1, <2>2, <2>3, <2>4 DEF Answered, server, Recorded
  <2>5. CASE a.act # "pay"
    BY <1>1, <2>1, <2>2, <2>3, <2>5 DEF Answered, server, Recorded
  <2> QED
    BY <2>4, <2>5
<1> QED
  BY <1>2, <1>3, <1>4, <1>5, <1>6, <1>7 DEF Moves

LEMMA MovesKnown ==
  ASSUME IInv, NEW q \in Pages, Moves(q), NEW k \in Keys
  PROVE  \/ fetch'[q][k] = "asked"
         \/ doubt'[q]
         \/ Newest(q, k)' = View(k)
         \/ /\ Newest(q, k)' = Newest(q, k)
            /\ fetch[q][k] # "asked"
            /\ \A a \in answers[q] \ answers'[q] : k \notin Invalidated(a.act)
<1> USE DEF IInv, Shaped
<1>1. ASSUME NEW K \in SUBSET Keys, Ask(q, K), UNCHANGED cache
      PROVE  \/ fetch'[q][k] = "asked"
             \/ k \notin K /\ fetch[q][k] # "asked" /\ Newest(q, k)' = Newest(q, k)
  BY <1>1 DEF Ask, Newest
<1>2. CASE Focus(q) \/ Refresh(q)
  BY <1>1, <1>2 DEF Focus, Refresh
<1>3. CASE \E j \in Keys : Serve(q, j)
  BY <1>3 DEF Serve, Newest
<1>4. CASE \E j \in Keys : Land(q, j)
  BY <1>4 DEF Land, FetchEnds, Newest
<1>5. CASE \E j \in Keys : FetchFails(q, j)
  BY <1>5 DEF FetchFails
<1>6. CASE \E a \in answers[q] : Answered(q, a)
  <2>1. PICK a \in answers[q] : Answered(q, a)
    BY <1>6
  <2>2. Invalidated(a.act) \in SUBSET Keys
    BY DEF Invalidated, Keys, Acts
  <2>3. Ask(q, Invalidated(a.act)) /\ UNCHANGED cache
    BY <2>1 DEF Answered
  <2>4. answers[q] \ answers'[q] \subseteq {a}
    BY <2>1 DEF Answered
  <2> QED
    BY <1>1, <2>2, <2>3, <2>4
<1> QED
  BY <1>2, <1>3, <1>4, <1>5, <1>6 DEF Moves

LEMMA MovesPreserve ==
  ASSUME IInv, NEW q \in Pages, Moves(q)
  PROVE  IInv'
<1>1. /\ Shaped' /\ ModalOwn' /\ ErasedGone'
      /\ UNCHANGED server
      /\ \A p \in Pages : p # q => SameAnswers(p)
      /\ doubt[q] => doubt'[q]
  BY MovesShaped
<1>2. ASSUME NEW p \in Pages, OnlyPage(p), p # q
      PROVE  Known(p)'
  BY <1>1, <1>2, TablesChange DEF IInv, server
<1>3. ASSUME OnlyPage(q)
      PROVE  Known(q)'
  BY <1>1, <1>3, MovesKnown, FetchesMove DEF IInv
<1> QED
  BY <1>1, <1>2, <1>3 DEF IInv, OnlyPage

(* The rest of a page's steps is about the payment being made. *)
LEMMA PaymentPreserves ==
  ASSUME IInv, NEW q \in Pages,
         CloseModal(q) \/ Sent(q) \/ \E item : PayNow(q, item)
  PROVE  IInv'
<1>1. UNCHANGED <<server, queries, answers, awaited, doubt>>
  BY DEF CloseModal, Sent, PayNow
<1>2. Shaped' /\ ModalOwn' /\ ErasedGone'
  BY <1>1 DEF IInv, Shaped, ModalOwn, ErasedGone, CloseModal, Sent, PayNow, server, queries,
    Recorded
<1>3. \A p \in Pages : Known(p) => Known(p)'
  BY <1>1, TablesChange DEF SameAnswers, server, queries
<1> QED
  BY <1>2, <1>3 DEF IInv, OnlyPage

LEMMA ElsewherePreserves ==
  ASSUME IInv, Elsewhere
  PROVE  IInv'
<1>1. PICK m \in members \ (Guests \cup {Owner[p] : p \in Pages}) : Operated(m)
  BY DEF Elsewhere, Operated
<1>2. UNCHANGED <<queries, answers, payment, doubt>>
  BY DEF Elsewhere
<1>3. \A p \in Pages : Foreign(Owner[p]) /\ SameAnswers(p)
  BY <1>1, <1>2, OthersForeign DEF IInv, SameAnswers, queries
<1>4. Shaped' /\ ModalOwn' /\ ErasedGone'
  BY <1>1, <1>2, TablesShaped
  DEF IInv, Shaped, ModalOwn, queries, payment, Recorded
<1>5. \A p \in Pages : Known(p) => Known(p)'
  BY <1>3, TablesChange DEF Foreign
<1> QED
  BY <1>4, <1>5 DEF IInv, OnlyPage

LEMMA NextPreserves == IInv /\ [Next]_vars => IInv'
<1> SUFFICES ASSUME IInv, [Next]_vars PROVE IInv'
  OBVIOUS
<1>1. CASE UNCHANGED vars
  <2>1. \A p \in Pages : SameAnswers(p)
    BY <1>1 DEF vars, SameAnswers
  <2>2. Shaped' /\ ModalOwn' /\ ErasedGone'
    BY <1>1 DEF IInv, Shaped, ModalOwn, ErasedGone, vars, Recorded
  <2>3. \A p \in Pages : Known(p) => Known(p)'
    BY <1>1, <2>1, TablesChange DEF vars
  <2> QED
    BY <2>2, <2>3 DEF IInv, OnlyPage
<1>2. ASSUME NEW q \in Pages, PageSteps(q) PROVE IInv'
  BY <1>2, MovesPreserve, PaymentPreserves, CallPreserves DEF PageSteps, Moves, Calls
<1> QED
  BY <1>1, <1>2, ElsewherePreserves DEF Next

LEMMA Invariant == Spec => []IInv
  BY InitInvariant, NextPreserves, PTL DEF Spec

(* A page at rest that is the only one of its member shows the requests he *)
(* has made, and none he has decided as pending.                           *)
THEOREM RequestsShown == Spec => []OwnRequestsShown
<1>1. IInv => OwnRequestsShown
  <2> SUFFICES ASSUME IInv, NEW p \in Pages, Quiet(p), OnlyPage(p), NEW r \in Requests,
                      requests[r] # None
               PROVE  /\ requests[r].payer = Owner[p] => cache[p]["requests"][r] # None
                      /\ requests[r].receiver = Owner[p] /\ requests[r].status # "pending" =>
                           ~ShownPending(p, r)
    BY DEF OwnRequestsShown
  <2>1. /\ \A acts : ~Open(p, "requests", acts, r)
        /\ Newest(p, "requests") = cache[p]["requests"]
    BY DEF Quiet, Open, Owed, Newest, Keys
  <2> QED
    BY <2>1 DEF IInv, Known, ProposalsKnown, DecisionsKnown, PendingFor, ShownPending
<1> QED
  BY <1>1, Invariant, PTL

(* The summary of such a page counts the payments its member has confirmed *)
(* and none of the expenses he has deleted.                                *)
THEOREM ChangesCounted == Spec => []OwnChangesCounted
<1>1. IInv => OwnChangesCounted
  <2> SUFFICES ASSUME IInv, NEW p \in Pages, Quiet(p), OnlyPage(p)
               PROVE  /\ \A x \in Payments : x.receiver = Owner[p] =>
                           x \in cache[p]["summary"].paid
                      /\ \A b \in Bills : eraser[b] = Owner[p] =>
                           b \notin cache[p]["summary"].expenses
    BY DEF OwnChangesCounted
  <2>1. /\ \A acts, x : ~Open(p, "summary", acts, x)
        /\ Newest(p, "summary") = cache[p]["summary"]
    BY DEF Quiet, Open, Owed, Newest, Keys
  <2> QED
    BY <2>1 DEF IInv, Known, PaymentsKnown, ErasuresKnown, Payments, PaymentOf
<1> QED
  BY <1>1, Invariant, PTL

-----------------------------------------------------------------------------
(* Sums, as the library folds them. *)
Some(s) == CHOOSE x \in s : TRUE

SumOf(f, S) == MapThenSumSet(LAMBDA x : f[x], S)

(* g is the function by which the library folds f over the subsets of S. *)
Folds(g, f, S) ==
  g = [s \in SUBSET S |-> IF s = {} THEN 0 ELSE f[Some(s)] + g[s \ {Some(s)}]]

(* A nonempty set of subsets of a finite set has a smallest one. *)
LEMMA SmallestSet ==
  ASSUME NEW S, IsFiniteSet(S), NEW D, D \subseteq SUBSET S, D # {}
  PROVE  \E s \in D : \A t \in D : t \subseteq s => t = s
<1>1. IsWellFoundedOn(StrictSubsetOrdering(S), SUBSET S)
  BY FS_StrictSubsetOrderingWellFounded, FS_FiniteSubsetsOfFinite
<1>2. PICK s \in D : \A t \in D : ~ (<<t, s>> \in StrictSubsetOrdering(S))
  <2> HIDE DEF StrictSubsetOrdering, IsWellFoundedOn
  <2> QED
    BY <1>1, WFMin
<1> QED
  BY <1>2 DEF StrictSubsetOrdering

(* The definition of the library, and its equation. *)
LEMMA FoldedSet ==
  ASSUME NEW S, NEW f PROVE SumOf(f, S) = (CHOOSE g : Folds(g, f, S))[S]
BY DEF SumOf, MapThenSumSet, MapThenFoldSet, Folds, Some

LEMMA SomeIn == ASSUME NEW s, s # {} PROVE Some(s) \in s
BY DEF Some

LEMMA FoldsAt ==
  ASSUME NEW S, NEW f, NEW g, Folds(g, f, S), NEW s \in SUBSET S
  PROVE  g[s] = IF s = {} THEN 0 ELSE f[Some(s)] + g[s \ {Some(s)}]
BY DEF Folds

(* Folds of one function over two sets agree where both are defined. *)
LEMMA FoldsAgree ==
  ASSUME NEW S, IsFiniteSet(S), NEW f, NEW g, NEW h, NEW T,
         Folds(g, f, S), Folds(h, f, T), S \subseteq T
  PROVE  g[S] = h[S]
<1> DEFINE D == {s \in SUBSET S : g[s] # h[s]}
<1>1. SUFFICES ASSUME D # {} PROVE FALSE
  OBVIOUS
<1>2. PICK s \in D : \A t \in D : t \subseteq s => t = s
  <2> D \subseteq SUBSET S
    OBVIOUS
  <2> HIDE DEF D
  <2> QED
    BY <1>1, SmallestSet
<1>3. s \in SUBSET S /\ s \in SUBSET T /\ g[s] # h[s]
  OBVIOUS
<1>4. s # {}
  BY <1>3, FoldsAt
<1>5. g[s \ {Some(s)}] = h[s \ {Some(s)}]
  BY <1>2, <1>3, <1>4, SomeIn
<1> QED
  BY <1>3, <1>4, <1>5, FoldsAt

(* A smallest set without a fold would have one: put together the sums of  *)
(* its subsets.                                                            *)
LEMMA FoldsExist ==
  ASSUME NEW S, IsFiniteSet(S), NEW f PROVE \E g : Folds(g, f, S)
<1> DEFINE D == {s \in SUBSET S : ~ \E g : Folds(g, f, s)}
<1>1. SUFFICES ASSUME D # {} PROVE FALSE
  OBVIOUS
<1>2. PICK s \in D : \A t \in D : t \subseteq s => t = s
  <2> D \subseteq SUBSET S
    OBVIOUS
  <2> HIDE DEF D
  <2> QED
    BY <1>1, SmallestSet
<1> DEFINE h == [t \in SUBSET s |->
                   IF t = {} THEN 0 ELSE f[Some(t)] + SumOf(f, t \ {Some(t)})]
<1>3. ASSUME NEW t \in SUBSET s, t # {} PROVE h[t \ {Some(t)}] = SumOf(f, t \ {Some(t)})
  <2> DEFINE u == t \ {Some(t)}
  <2>1. u \in SUBSET s /\ u # s /\ IsFiniteSet(u)
    BY <1>3, SomeIn, FS_Subset
  <2>2. \E g : Folds(g, f, u)
    BY <1>2, <2>1
  <2> HIDE DEF u, h, D
  <2>3. PICK g : Folds(g, f, u) /\ SumOf(f, u) = g[u]
    BY <2>2, FoldedSet
  <2>4. CASE u = {}
    BY <2>1, <2>3, <2>4, FoldsAt DEF h, u
  <2>5. CASE u # {}
    <3> DEFINE v == u \ {Some(u)}
    <3>1. v \in SUBSET s /\ v # s /\ IsFiniteSet(v) /\ v \subseteq u
      BY <2>1, <2>5, SomeIn, FS_Subset
    <3>2. PICK k : Folds(k, f, v) /\ SumOf(f, v) = k[v]
      <4>1. \E k : Folds(k, f, v)
        BY <1>2, <3>1 DEF D
      <4> HIDE DEF v
      <4> QED
        BY <4>1, FoldedSet
    <3>3. k[v] = g[v]
      <4> HIDE DEF v
      <4> QED
        BY <2>3, <3>1, <3>2, FoldsAgree
    <3>4. g[u] = f[Some(u)] + g[v]
      BY <2>3, <2>5, FoldsAt
    <3>5. h[u] = f[Some(u)] + SumOf(f, v)
      BY <2>1, <2>5 DEF h
    <3> QED
      BY <2>3, <3>2, <3>3, <3>4, <3>5 DEF u
  <2> QED
    BY <2>4, <2>5 DEF u
<1>4. Folds(h, f, s)
  <2>1. \A t \in SUBSET s :
          h[t] = IF t = {} THEN 0 ELSE f[Some(t)] + h[t \ {Some(t)}]
    BY <1>3
  <2> QED
    BY <2>1 DEF Folds
<1> QED
  BY <1>2, <1>4

(* The equation of the fold: take one element out. *)
LEMMA SumEquation ==
  ASSUME NEW S, IsFiniteSet(S), NEW f
  PROVE  SumOf(f, S) = IF S = {} THEN 0 ELSE f[Some(S)] + SumOf(f, S \ {Some(S)})
<1>1. PICK g : Folds(g, f, S) /\ SumOf(f, S) = g[S]
  BY FoldsExist, FoldedSet
<1>2. CASE S = {}
  BY <1>1, <1>2, FoldsAt
<1>3. CASE S # {}
  <2> DEFINE T == S \ {Some(S)}
  <2>1. IsFiniteSet(T) /\ T \subseteq S
    BY FS_Subset
  <2> HIDE DEF T
  <2>2. PICK h : Folds(h, f, T) /\ SumOf(f, T) = h[T]
    BY <2>1, FoldsExist, FoldedSet
  <2>3. h[T] = g[T]
    BY <1>1, <2>1, <2>2, FoldsAgree
  <2> QED
    BY <1>1, <1>3, <2>2, <2>3, FoldsAt DEF T
<1> QED
  BY <1>2, <1>3

(* A sum of naturals is natural, one of integers an integer. *)
LEMMA SumType ==
  ASSUME NEW S, IsFiniteSet(S), NEW f, NEW N \in {Nat, Int}, \A x \in S : f[x] \in N
  PROVE  SumOf(f, S) \in N
<1> DEFINE D == {s \in SUBSET S : SumOf(f, s) \notin N}
<1>1. SUFFICES ASSUME D # {} PROVE FALSE
  OBVIOUS
<1>2. PICK s \in D : \A t \in D : t \subseteq s => t = s
  <2> D \subseteq SUBSET S
    OBVIOUS
  <2> HIDE DEF D
  <2> QED
    BY <1>1, SmallestSet
<1>3. s \in SUBSET S /\ IsFiniteSet(s)
  BY FS_Subset
<1>4. s # {}
  BY <1>3, SumEquation
<1>5. SumOf(f, s \ {Some(s)}) \in N /\ f[Some(s)] \in N
  BY <1>2, <1>3, <1>4, SomeIn
<1>6. SumOf(f, s) = f[Some(s)] + SumOf(f, s \ {Some(s)})
  BY <1>3, <1>4, SumEquation
<1>7. SumOf(f, s) \in N
  <2> HIDE DEF D
  <2> QED
    BY <1>5, <1>6
<1> QED
  BY <1>7

-----------------------------------------------------------------------------
(* Types: every call enters amounts that the plan of a summary suggests,   *)
(* which are natural as they are made of finite sums.                      *)

LEMMA SumInt ==
  ASSUME NEW f, IsFiniteSet(DOMAIN f), \A x \in DOMAIN f : f[x] \in Int
  PROVE  SumFunction(f) \in Int
<1>1. PICK S : S = DOMAIN f
  OBVIOUS
<1>2. IsFiniteSet(S) /\ \A x \in S : f[x] \in Int
  BY <1>1
<1>3. SumOf(f, S) \in Int
  BY <1>2, SumType
<1>4. SumFunction(f) = SumOf(f, S)
  BY <1>1 DEF SumFunction, SumFunctionOnSet, FoldFunctionOnSet, SumOf, MapThenSumSet
<1> QED
  BY <1>3, <1>4

FiniteSummary(v) == v \in SummaryType /\ IsFiniteSet(v.paid)

LEMMA BalanceInt ==
  ASSUME NEW v, FiniteSummary(v), NEW m \in Members
  PROVE  Balance(v, m) \in Int
<1>1. v.expenses \subseteq Bills /\ v.paid \subseteq PaymentType
  BY DEF FiniteSummary, SummaryType
<1>2. \A b \in Bills : b.amount \in Int /\ b.share[m] \in Int
  BY APAssumption
<1>3. \A x \in PaymentType : x.amount \in Int
  BY DEF PaymentType
<1>4. TotalPaid(v, m) \in Int
  <2> DEFINE S == {b \in v.expenses : b.payer = m}
             f == [b \in S |-> b.amount]
  <2>1. IsFiniteSet(S)
    BY <1>1, FS_Subset, APAssumption
  <2>2. DOMAIN f = S /\ \A x \in S : f[x] \in Int
    BY <1>1, <1>2
  <2>3. TotalPaid(v, m) = SumFunction(f)
    BY DEF TotalPaid
  <2> HIDE DEF f, S
  <2> QED
    BY <2>1, <2>2, <2>3, SumInt
<1>5. TotalBenefit(v, m) \in Int
  <2> DEFINE S == v.expenses
             f == [b \in S |-> b.share[m]]
  <2>1. IsFiniteSet(S)
    BY <1>1, FS_Subset, APAssumption
  <2>2. DOMAIN f = S /\ \A x \in S : f[x] \in Int
    BY <1>1, <1>2
  <2>3. TotalBenefit(v, m) = SumFunction(f)
    BY DEF TotalBenefit
  <2> HIDE DEF f, S
  <2> QED
    BY <2>1, <2>2, <2>3, SumInt
<1>6. Settled(v, m) \in Int
  <2> DEFINE S == {x \in v.paid : x.payer = m}
             T == {x \in v.paid : x.receiver = m}
             f == [x \in S |-> x.amount]
             g == [x \in T |-> x.amount]
  <2>1. IsFiniteSet(S) /\ IsFiniteSet(T)
    BY FS_Subset DEF FiniteSummary
  <2>2. /\ DOMAIN f = S /\ \A x \in S : f[x] \in Int
        /\ DOMAIN g = T /\ \A x \in T : g[x] \in Int
    BY <1>1, <1>3
  <2>3. Settled(v, m) = SumFunction(f) - SumFunction(g)
    BY DEF Settled
  <2> HIDE DEF f, g, S, T
  <2>4. SumFunction(f) \in Int
    BY <2>1, <2>2, SumInt
  <2>5. SumFunction(g) \in Int
    BY <2>1, <2>2, SumInt
  <2> QED
    BY <2>3, <2>4, <2>5
<1> QED
  BY <1>4, <1>5, <1>6 DEF Balance

LEMMA PlanTyped ==
  ASSUME NEW v, FiniteSummary(v), NEW item \in Plan(v)
  PROVE  item \in ItemType
<1>1. PICK d \in v.members, c \in v.members :
        /\ Balance(v, d) < 0 /\ Balance(v, c) > 0
        /\ item = [from |-> d, to |-> c, amount |-> Lesser(-Balance(v, d), Balance(v, c))]
  BY DEF Plan
<1>2. d \in Members /\ c \in Members
  BY DEF FiniteSummary, SummaryType
<1>3. Balance(v, d) \in Int /\ Balance(v, c) \in Int
  BY <1>2, BalanceInt
<1>4. Lesser(-Balance(v, d), Balance(v, c)) \in Nat \ {0}
  BY <1>1, <1>3 DEF Lesser
<1> QED
  BY <1>1, <1>2, <1>4 DEF ItemType

LEMMA ViewTyped ==
  ASSUME ServerTypeOK
  PROVE  /\ \A k \in Keys : View(k) \in AnswerType(k)
         /\ FiniteSummary(View("summary"))
<1> DEFINE S == {r \in Requests : requests[r] # None /\ requests[r].status = "confirmed"}
           pay == [r \in S |-> PaymentOf(r)]
<1>1. Payments = {pay[r] : r \in S}
  BY DEF Payments, PaymentOf
<1>2. IsFiniteSet(S)
  BY FS_Subset, APAssumption
<1>3. IsFiniteSet({pay[r] : r \in S})
  <2>1. pay \in Surjection(S, {pay[r] : r \in S})
    BY DEF Surjection
  <2> HIDE DEF S, pay
  <2> QED
    BY <1>2, <2>1, FS_Surjection
<1>4. ASSUME NEW r \in S PROVE pay[r] \in PaymentType
  <2>1. r \in Requests /\ requests[r] \in RequestType
    BY DEF ServerTypeOK, AnswerType
  <2> QED
    BY <2>1 DEF RequestType, PaymentType, PaymentOf
<1>5. Payments \in SUBSET PaymentType
  <2> HIDE DEF S, pay
  <2> QED
    BY <1>1, <1>4
<1> HIDE DEF S, pay
<1>6. View("summary") = [members |-> members, expenses |-> expenses, paid |-> Payments]
  BY DEF View
<1>7. View("summary") \in SummaryType /\ View("summary").paid = Payments
  BY <1>5, <1>6 DEF SummaryType, ServerTypeOK
<1>8. FiniteSummary(View("summary"))
  BY <1>1, <1>3, <1>7 DEF FiniteSummary
<1>9. View("requests") = requests
  BY DEF View
<1>10. View("requests") \in AnswerType("requests")
  BY <1>9 DEF ServerTypeOK
<1>11. View("summary") \in AnswerType("summary")
  BY <1>7 DEF AnswerType
<1> QED
  BY <1>8, <1>10, <1>11 DEF Keys

-----------------------------------------------------------------------------

FinitePaid ==
  \A p \in Pages :
    /\ IsFiniteSet(cache[p]["summary"].paid)
    /\ fetch[p]["summary"] = "served" => IsFiniteSet(coming[p]["summary"].paid)

LEMMA ServerSteps ==
  ASSUME ServerTypeOK, NEW m \in Members,
         \/ \E r \in Requests : \E item \in ItemType : Propose(r, item)
         \/ \E r \in Requests : \E st \in {"confirmed", "canceled"} : Settle(m, r, st)
         \/ \E b \in Bills : Enter(m, b) \/ Erase(m, b)
         \/ Expel(m)
         \/ UNCHANGED server
  PROVE  ServerTypeOK'
<1>0. requests \in [Requests -> RequestType \cup {None}]
  BY DEF ServerTypeOK, AnswerType
<1>00. (ServerTypeOK') <=>
        /\ members' \in SUBSET Members /\ expenses' \in SUBSET Bills
        /\ requests' \in [Requests -> RequestType \cup {None}]
        /\ eraser' \in [Bills -> Members \cup {None}]
  BY DEF ServerTypeOK, AnswerType
<1>1. ASSUME NEW r \in Requests, NEW item \in ItemType, Propose(r, item)
      PROVE  ServerTypeOK'
  <2> DEFINE q == [payer |-> item.from, receiver |-> item.to,
                   amount |-> item.amount, status |-> "pending"]
  <2>1. q \in RequestType
    BY DEF RequestType, ItemType
  <2>2. requests' = [requests EXCEPT ![r] = q]
    BY <1>1 DEF Propose
  <2> HIDE DEF q
  <2>3. requests' \in [Requests -> RequestType \cup {None}]
    BY <1>0, <2>1, <2>2
  <2> QED
    BY <1>1, <1>00, <2>3 DEF Propose, ServerTypeOK
<1>2. ASSUME NEW r \in Requests, NEW st \in {"confirmed", "canceled"}, Settle(m, r, st)
      PROVE  ServerTypeOK'
  <2> DEFINE q == [requests[r] EXCEPT !.status = st]
  <2>1. requests[r] \in RequestType
    BY <1>0, <1>2 DEF Settle
  <2>2. q \in RequestType
    BY <2>1 DEF RequestType
  <2>3. requests' = [requests EXCEPT ![r] = q]
    BY <1>0, <1>2 DEF Settle
  <2> HIDE DEF q
  <2>4. requests' \in [Requests -> RequestType \cup {None}]
    BY <1>0, <2>2, <2>3
  <2> QED
    BY <1>2, <1>00, <2>4 DEF Settle, ServerTypeOK
<1>3. ASSUME NEW b \in Bills, Enter(m, b) \/ Erase(m, b)
      PROVE  ServerTypeOK'
  BY <1>0, <1>00, <1>3 DEF Enter, Erase, ServerTypeOK
<1>4. ASSUME Expel(m) PROVE ServerTypeOK'
  <2>1. requests' \in [Requests -> RequestType \cup {None}]
    BY <1>0, <1>4 DEF Expel
  <2> QED
    BY <1>00, <1>4, <2>1 DEF Expel, ServerTypeOK
<1>5. ASSUME UNCHANGED server PROVE ServerTypeOK'
  BY <1>0, <1>00, <1>5 DEF server, ServerTypeOK
<1> QED
  BY <1>1, <1>2, <1>3, <1>4, <1>5

(* Fetches. *)
LEMMA AskTyped ==
  ASSUME Shaped, QueriesTypeOK, FinitePaid, NEW p \in Pages, NEW K, Ask(p, K),
         UNCHANGED cache
  PROVE  QueriesTypeOK' /\ FinitePaid'
<1>1. fetch' \in [Pages -> [Keys -> {"idle", "asked", "served"}]]
  BY DEF Ask, QueriesTypeOK
<1>2. ASSUME NEW o \in Pages, NEW k \in Keys
      PROVE  \/ fetch'[o][k] = fetch[o][k] /\ coming'[o][k] = coming[o][k]
             \/ fetch'[o][k] = "asked" /\ coming'[o][k] = None
  BY DEF Ask, QueriesTypeOK, Shaped
<1>3. QueriesTypeOK'
  BY <1>1, <1>2 DEF QueriesTypeOK, AnswerType
<1>4. FinitePaid'
  BY <1>2 DEF FinitePaid, Keys
<1> QED
  BY <1>3, <1>4

LEMMA ServeTyped ==
  ASSUME Shaped, ServerTypeOK, QueriesTypeOK, FinitePaid,
         NEW p \in Pages, NEW k \in Keys, Serve(p, k)
  PROVE  QueriesTypeOK' /\ FinitePaid'
<1>1. fetch' \in [Pages -> [Keys -> {"idle", "asked", "served"}]]
  BY DEF Serve, QueriesTypeOK
<1>2. ASSUME NEW o \in Pages, NEW j \in Keys
      PROVE  \/ fetch'[o][j] = fetch[o][j] /\ coming'[o][j] = coming[o][j]
             \/ fetch'[o][j] = "served" /\ coming'[o][j] = View(j)
  BY DEF Serve, QueriesTypeOK, Shaped
<1>3. QueriesTypeOK'
  BY <1>1, <1>2, ViewTyped DEF QueriesTypeOK, AnswerType, Serve
<1>4. FinitePaid'
  BY <1>2, ViewTyped DEF FinitePaid, FiniteSummary, Keys, Serve
<1> QED
  BY <1>3, <1>4

LEMMA FetchEndsTyped ==
  ASSUME Shaped, QueriesTypeOK, FinitePaid, NEW p \in Pages, NEW k \in Keys,
         Land(p, k) \/ FetchFails(p, k)
  PROVE  QueriesTypeOK' /\ FinitePaid'
<1>1. fetch' \in [Pages -> [Keys -> {"idle", "asked", "served"}]]
  BY DEF Land, FetchFails, FetchEnds, QueriesTypeOK
<1>2. ASSUME NEW o \in Pages, NEW j \in Keys
      PROVE  /\ \/ fetch'[o][j] = fetch[o][j] /\ coming'[o][j] = coming[o][j]
                \/ fetch'[o][j] = "idle" /\ coming'[o][j] = None
             /\ \/ cache'[o][j] = cache[o][j]
                \/ fetch[o][j] = "served" /\ cache'[o][j] = coming[o][j]
  <2>1. \/ fetch'[o][j] = fetch[o][j] /\ coming'[o][j] = coming[o][j]
        \/ fetch'[o][j] = "idle" /\ coming'[o][j] = None
    <3>1. FetchEnds(p, k)
      BY DEF Land, FetchFails
    <3>2. CASE o = p /\ j = k
      BY <3>1, <3>2 DEF FetchEnds, Shaped
    <3>3. CASE ~(o = p /\ j = k)
      BY <3>1, <3>3 DEF FetchEnds, Shaped
    <3> QED
      BY <3>2, <3>3
  <2>2. \/ cache'[o][j] = cache[o][j]
        \/ fetch[o][j] = "served" /\ cache'[o][j] = coming[o][j]
    <3>1. CASE Land(p, k) /\ o = p /\ j = k
      BY <3>1 DEF Land, Shaped
    <3>2. CASE Land(p, k) /\ ~(o = p /\ j = k)
      BY <3>2 DEF Land, Shaped
    <3>3. CASE FetchFails(p, k)
      BY <3>3 DEF FetchFails
    <3> QED
      BY <3>1, <3>2, <3>3
  <2> QED
    BY <2>1, <2>2
<1>3. ASSUME NEW o \in Pages, NEW j \in Keys
      PROVE  /\ cache'[o][j] \in AnswerType(j)
             /\ fetch'[o][j] = "served" => coming'[o][j] \in AnswerType(j)
             /\ fetch'[o][j] # "served" => coming'[o][j] = None
  BY <1>2 DEF QueriesTypeOK
<1>4. QueriesTypeOK'
  BY <1>1, <1>3 DEF QueriesTypeOK, AnswerType
<1>5. FinitePaid'
  BY <1>2 DEF FinitePaid, Keys
<1> QED
  BY <1>4, <1>5

LEMMA SameTyped ==
  ASSUME QueriesTypeOK, FinitePaid, UNCHANGED queries
  PROVE  QueriesTypeOK' /\ FinitePaid'
BY DEF QueriesTypeOK, FinitePaid, queries, AnswerType

(* The rest: the payment being made. *)
DialogTypeOK ==
  /\ modal \in [Pages -> ItemType \cup {None}]
  /\ sending \in [Pages -> BOOLEAN] /\ awaited \in [Pages -> SUBSET Keys]

Typed == ServerTypeOK /\ QueriesTypeOK /\ FinitePaid /\ DialogTypeOK

LEMMA MovesTyped ==
  ASSUME Shaped, Typed, NEW p \in Pages, Moves(p)
  PROVE  Typed'
<1> USE DEF Typed
<1>1. CASE Focus(p)
  BY <1>1, AskTyped, ServerSteps, APAssumption DEF Focus, DialogTypeOK, payment
<1>2. CASE Refresh(p)
  <2>1. DialogTypeOK'
    BY <1>2 DEF Refresh, DialogTypeOK
  <2> QED
    BY <1>2, <2>1, AskTyped, ServerSteps, APAssumption DEF Refresh
<1>3. CASE \E k \in Keys : Serve(p, k)
  BY <1>3, ServeTyped, ServerSteps, APAssumption DEF Serve, DialogTypeOK, payment
<1>4. CASE \E k \in Keys : Land(p, k) \/ FetchFails(p, k)
  <2>1. PICK k \in Keys : Land(p, k) \/ FetchFails(p, k)
    BY <1>4
  <2>2. FetchEnds(p, k)
    BY <2>1 DEF Land, FetchFails
  <2>3. DialogTypeOK'
    BY <2>2 DEF FetchEnds, DialogTypeOK
  <2>4. QueriesTypeOK' /\ FinitePaid'
    BY <2>1, FetchEndsTyped
  <2> QED
    BY <2>2, <2>3, <2>4, ServerSteps, APAssumption DEF FetchEnds
<1>5. CASE \E a \in answers[p] : Answered(p, a)
  <2>1. PICK a \in answers[p] : Answered(p, a)
    BY <1>5
  <2>2. DialogTypeOK'
    BY <2>1 DEF Answered, DialogTypeOK
  <2>3. Ask(p, Invalidated(a.act)) /\ UNCHANGED cache /\ UNCHANGED server
    BY <2>1 DEF Answered
  <2> QED
    BY <2>2, <2>3, AskTyped, ServerSteps, APAssumption
<1> QED
  BY <1>1, <1>2, <1>3, <1>4, <1>5 DEF Moves

LEMMA CallsTyped ==
  ASSUME Shaped, Typed, ModalOwn, NEW p \in Pages, Calls(p)
  PROVE  Typed'
<1> USE DEF Typed
<1>1. UNCHANGED <<cache, fetch, coming, modal, awaited>>
  BY CallOperates
<1>2. QueriesTypeOK' /\ FinitePaid'
  BY <1>1, SameTyped DEF queries
<1>3. Owner[p] \in Members
  BY APAssumption
<1>4. CASE \E r \in Requests : MarkPaid(p, r)
  <2>1. PICK r \in Requests : MarkPaid(p, r)
    BY <1>4
  <2>2. modal[p] \in ItemType
    BY <2>1 DEF MarkPaid, DialogTypeOK
  <2>3. ServerTypeOK'
    BY <1>3, <2>1, <2>2, ServerSteps DEF MarkPaid
  <2>4. DialogTypeOK'
    BY <1>1, <2>1 DEF MarkPaid, DialogTypeOK
  <2> QED
    BY <1>2, <2>3, <2>4
<1>5. CASE \E r \in Requests : ConfirmRequest(p, r) \/ CancelRequest(p, r)
  BY <1>2, <1>3, <1>5, ServerSteps DEF ConfirmRequest, CancelRequest, DialogTypeOK, payment
<1>6. CASE \E b \in Bills : CreateExpense(p, b) \/ DeleteExpense(p, b)
  BY <1>2, <1>3, <1>6, ServerSteps DEF CreateExpense, DeleteExpense, DialogTypeOK, payment
<1>7. CASE \E m \in Members : RemoveParticipant(p, m)
  BY <1>2, <1>7, ServerSteps DEF RemoveParticipant, DialogTypeOK, payment
<1> QED
  BY <1>4, <1>5, <1>6, <1>7 DEF Calls

LEMMA PaymentTyped ==
  ASSUME Typed, NEW p \in Pages,
         \/ CloseModal(p) \/ Sent(p)
         \/ \E item \in Plan(cache[p]["summary"]) : PayNow(p, item)
  PROVE  Typed'
<1> USE DEF Typed
<1>1. UNCHANGED <<server, queries, awaited>>
  BY DEF CloseModal, Sent, PayNow
<1>2. ServerTypeOK' /\ QueriesTypeOK' /\ FinitePaid'
  BY <1>1, SameTyped, ServerSteps, APAssumption
<1>3. FiniteSummary(cache[p]["summary"])
  BY DEF QueriesTypeOK, FinitePaid, FiniteSummary, AnswerType, Keys
<1>4. DialogTypeOK'
  BY <1>1, <1>3, PlanTyped DEF DialogTypeOK, CloseModal, Sent, PayNow
<1> QED
  BY <1>2, <1>4

LEMMA ElsewhereTyped ==
  ASSUME Typed, Elsewhere
  PROVE  Typed'
<1> USE DEF Typed
<1>1. UNCHANGED <<queries, payment>>
  BY DEF Elsewhere
<1>2. PICK m \in members :
        \/ \E r \in Requests : \E item \in Plan(View("summary")) : Propose(r, item)
        \/ \E r \in Requests : \E status \in {"confirmed", "canceled"} :
             Settle(m, r, status)
        \/ \E b \in Bills : Enter(m, b) \/ Erase(m, b)
  BY DEF Elsewhere
<1>3. m \in Members
  BY DEF ServerTypeOK
<1>4. \A item \in Plan(View("summary")) : item \in ItemType
  BY ViewTyped, PlanTyped
<1>5. ServerTypeOK'
  BY <1>2, <1>3, <1>4, ServerSteps
<1> QED
  BY <1>1, <1>5, SameTyped DEF DialogTypeOK, payment

LEMMA InitTyped == Init => Typed
<1> SUFFICES ASSUME Init PROVE Typed
  OBVIOUS
<1>1. ServerTypeOK
  BY APAssumption DEF Init, ServerTypeOK, AnswerType
<1>2. /\ \A k \in Keys : View(k) \in AnswerType(k)
      /\ FiniteSummary(View("summary"))
  BY <1>1, ViewTyped
<1>3. \A p \in Pages : \A k \in Keys : cache[p][k] = View(k) /\ fetch[p][k] = "idle"
  BY DEF Init
<1>4. QueriesTypeOK
  BY <1>2, <1>3 DEF Init, QueriesTypeOK
<1>5. FinitePaid
  BY <1>2, <1>3 DEF FinitePaid, FiniteSummary, Keys
<1>6. DialogTypeOK
  BY DEF Init, DialogTypeOK
<1> QED
  BY <1>1, <1>4, <1>5, <1>6 DEF Typed

LEMMA NextTyped == IInv /\ Typed /\ [Next]_vars => Typed'
<1> SUFFICES ASSUME IInv, Typed, [Next]_vars PROVE Typed'
  OBVIOUS
<1>1. CASE UNCHANGED vars
  BY <1>1, SameTyped, ServerSteps, APAssumption
  DEF Typed, vars, server, queries, DialogTypeOK
<1>2. ASSUME NEW p \in Pages, PageSteps(p) PROVE Typed'
  BY <1>2, MovesTyped, PaymentTyped, CallsTyped DEF PageSteps, Moves, Calls, IInv
<1> QED
  BY <1>1, <1>2, ElsewhereTyped DEF Next

(* Every table, answer and dialog holds what it should, for any event: a   *)
(* page offers and sends positive amounts between members only, as the     *)
(* plan of a summary is made of finite sums.                               *)
THEOREM TypeCorrect == Spec => []TypeOK
<1>1. Init => Typed
  BY InitTyped
<1>2. IInv /\ Typed /\ [Next]_vars => Typed'
  BY NextTyped
<1>3. IInv /\ Typed => TypeOK
  BY DEF IInv, Shaped, Typed, TypeOK, CallsTypeOK, DialogTypeOK, Acts
<1> QED
  BY <1>1, <1>2, <1>3, Invariant, PTL DEF Spec
================================================================================
