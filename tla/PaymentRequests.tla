--------------------------- MODULE PaymentRequests ---------------------------
(***************************************************************************)
(* Payment requests, settlements and the removals that race with them, for *)
(* one event.  Every HTTP call is served by a handler of its own; the      *)
(* handlers share nothing but the database.  A handler first looks rows up *)
(* outside any transaction and later writes with what it read, so between  *)
(* the two any other handler may run.                                      *)
(*                                                                         *)
(* The database is PostgreSQL at READ COMMITTED.  What a statement sees is *)
(* the committed state; row locks are derived from where each handler is:  *)
(*   - a confirming transaction holds the request row it updated,          *)
(*   - an inserting transaction shares the rows its foreign keys name,     *)
(*   - a DELETE owns its row while the cascades run.                       *)
(*                                                                         *)
(* A call makes at most one request and one settlement, so the row it      *)
(* inserts is named after the call; a serial id is as fresh as the call.   *)
(***************************************************************************)
EXTENDS Integers

CONSTANTS
  Calls,         \* HTTP calls, each served once
  Endpoint,      \* Endpoint[c]: what the call c asks for
  Participants,  \* members of the event when the model starts
  Guests,        \* the members without an account (user_id NULL)
  Amounts,       \* amounts a client may send, in hundredths
  Event,         \* the event row
  None           \* a NULL, or no row

Ops == {"create", "confirm", "cancel", "settle", "delete"}

ASSUME PRAssumption ==
  /\ Endpoint \in [Calls -> Ops]
  /\ Guests \subseteq Participants
  /\ Amounts \subseteq Int
  /\ Event \notin Participants
  /\ None \notin Participants \cup {Event}
  /\ None \notin Calls

Users   == Participants \ Guests
Parents == Participants \cup {Event}
Verdict == {"confirmed", "canceled"}

(* The steps of a handler between its awaits on the database. *)
Steps == {"idle", "insertRequest", "updateConfirm", "insertSettlement",
          "commit", "updateCancel", "insertDirect", "lockRow", "cascade",
          "notify", "done"}

RequestRow == [payer : Participants, receiver : Participants,
               amount : Amounts, status : {"pending"} \cup Verdict]

(* "origin" is not a column: it records which request a settlement is for. *)
SettlementRow == [payer : Participants, receiver : Participants,
                  amount : Amounts, origin : Calls \cup {None}]

(* A handler's local variables: what it was asked and the row it read. *)
Frame == [req : Calls \cup {None}, target : Parents \cup {None},
          payer : Participants \cup {None},
          receiver : Participants \cup {None}, amount : Int]

NoFrame == [req |-> None, target |-> None, payer |-> None, receiver |-> None,
            amount |-> 0]

ASSUME NoneAssumption ==
  /\ None \notin RequestRow
  /\ None \notin SettlementRow

VARIABLES
  rows,         \* which of Parents are in their tables
  requests,     \* table payment_requests
  settlements,  \* table settlements
  pc,           \* pc[c]: the next step of the handler of c
  frame,        \* frame[c]: its local variables
  answer,       \* answer[c]: what the client was told
  notices       \* the calls whose notification row was inserted

vars == <<rows, requests, settlements, pc, frame, answer, notices>>

TypeOK ==
  /\ rows \subseteq Parents
  /\ requests \in [Calls -> RequestRow \cup {None}]
  /\ settlements \in [Calls -> SettlementRow \cup {None}]
  /\ pc \in [Calls -> Steps]
  /\ frame \in [Calls -> Frame]
  /\ answer \in [Calls -> {"none", "ok", "refused", "error"}]
  /\ notices \subseteq Calls

Init ==
  /\ rows = Parents
  /\ requests = [c \in Calls |-> None]
  /\ settlements = [c \in Calls |-> None]
  /\ pc = [c \in Calls |-> "idle"]
  /\ frame = [c \in Calls |-> NoFrame]
  /\ answer = [c \in Calls |-> "none"]
  /\ notices = {}

-----------------------------------------------------------------------------
(* Rows, foreign keys and locks *)

Live(table) == {c \in Calls : table[c] # None}

(* The rows the foreign keys of a request or settlement name. *)
References(f) == {Event, f.payer, f.receiver}

(* c's transaction updated request r and has not ended. *)
HoldsRequest(c, r) ==
  pc[c] \in {"insertSettlement", "commit"} /\ frame[c].req = r

(* c's transaction inserted a settlement and shares the parent row t. *)
Shares(c, t) == pc[c] = "commit" /\ t \in References(frame[c])

(* c's DELETE owns the parent row t. *)
Deletes(c, t) == pc[c] = "cascade" /\ frame[c].target = t

RequestsOf(t) == {r \in Live(requests) : t \in References(requests[r])}

(* A settlements table without foreign keys to participants. *)
NoneOf(t) == {}

SettlementsOf(t) == {s \in Live(settlements) : t \in References(settlements[s])}

(* The next statement of c needs a row that d has locked. *)
WaitsFor(c, d) ==
  \/ /\ pc[c] \in {"updateConfirm", "updateCancel"}
     /\ HoldsRequest(d, frame[c].req)
  \/ /\ pc[c] \in {"insertRequest", "insertSettlement", "insertDirect"}
     /\ \E t \in References(frame[c]) : Deletes(d, t)
  \/ /\ pc[c] = "notify"
     /\ Deletes(d, Event)
  \/ /\ pc[c] = "lockRow"
     /\ Deletes(d, frame[c].target) \/ Shares(d, frame[c].target)
  \* cascade to the requests; the statistics trigger updates the event
  \/ /\ pc[c] = "cascade" /\ frame[c].target \in Participants
     /\ SettlementsOf(frame[c].target) = {}
     /\ \/ Deletes(d, Event)
        \/ \E r \in RequestsOf(frame[c].target) : HoldsRequest(d, r)
  \* cascade to participants, requests and settlements
  \/ /\ pc[c] = "cascade" /\ frame[c].target = Event
     /\ \/ \E p \in Participants : Deletes(d, p) \/ Shares(d, p)
        \/ \E r \in Calls : HoldsRequest(d, r)

Free(c) == \A d \in Calls : c = d \/ ~WaitsFor(c, d)

-----------------------------------------------------------------------------
(* Ends of a handler *)

Goto(c, step) == pc' = [pc EXCEPT ![c] = step]

Reply(c, a) ==
  /\ Goto(c, "done")
  /\ answer' = [answer EXCEPT ![c] = a]

(* An early return: nothing but the reply. *)
Refuse(c) ==
  /\ Reply(c, "refused")
  /\ UNCHANGED <<rows, requests, settlements, frame, notices>>

(* The database reports an error: the transaction is rolled back. *)
Fail(c) ==
  /\ Reply(c, "error")
  /\ UNCHANGED <<rows, requests, settlements, frame, notices>>

(* The lookups end: the handler keeps what it read and goes on to write. *)
Enter(c, f, step) ==
  /\ frame' = [frame EXCEPT ![c] = f]
  /\ Goto(c, step)
  /\ UNCHANGED <<rows, requests, settlements, answer, notices>>

(* The caller is a user with a participant row in the event. *)
IsMember(u) == {u, Event} \subseteq rows

-----------------------------------------------------------------------------
(* CreatePaymentRequest *)

CreateLookup(c, u, payer, receiver, amount) ==
  /\ pc[c] = "idle" /\ Endpoint[c] = "create"
  /\ LET valid == /\ amount > 0 /\ payer # receiver
                  /\ IsMember(u) /\ {payer, receiver} \subseteq rows
                  /\ u = payer
     IN \/ /\ valid
           /\ Enter(c, [NoFrame EXCEPT !.payer = payer, !.receiver = receiver,
                                       !.amount = amount], "insertRequest")
        \/ /\ ~valid
           /\ Refuse(c)

CreateInsert(c) ==
  /\ pc[c] = "insertRequest"
  /\ Free(c)
  /\ \/ /\ References(frame[c]) \subseteq rows
        /\ requests' = [requests EXCEPT ![c] =
             [payer |-> frame[c].payer, receiver |-> frame[c].receiver,
              amount |-> frame[c].amount, status |-> "pending"]]
        /\ Goto(c, "notify")
        /\ UNCHANGED <<rows, settlements, frame, answer, notices>>
     \/ /\ ~(References(frame[c]) \subseteq rows)
        /\ Fail(c)

-----------------------------------------------------------------------------
(* ConfirmPaymentRequest and CancelPaymentRequest *)

(* The caller is the receiver of a request nobody has decided yet. *)
AnyMemberDecides(u, r) ==
  IsMember(u) /\ requests[r] # None /\ requests[r].status = "pending"

MayDecide(u, r) ==
  /\ IsMember(u)
  /\ requests[r] # None
  /\ requests[r].receiver = u
  /\ requests[r].status = "pending"

(* Both start with the same lookups and return early on the same grounds. *)
DecideLookup(c, u, r, op, step) ==
  /\ pc[c] = "idle" /\ Endpoint[c] = op
  /\ \/ /\ MayDecide(u, r)
        /\ Enter(c, [req |-> r, target |-> None,
                     payer |-> requests[r].payer,
                     receiver |-> requests[r].receiver,
                     amount |-> requests[r].amount], step)
     \/ /\ ~MayDecide(u, r)
        /\ Refuse(c)

ConfirmLookup(c, u, r) == DecideLookup(c, u, r, "confirm", "updateConfirm")
CancelLookup(c, u, r)  == DecideLookup(c, u, r, "cancel", "updateCancel")

(* The UPDATE without its status condition. *)
AnyStatus(r) == requests[r] # None

(* UPDATE ... WHERE status = 'pending', evaluated on the committed row. *)
StillPending(r) == requests[r] # None /\ requests[r].status = "pending"

ConfirmUpdate(c) ==
  /\ pc[c] = "updateConfirm"
  /\ Free(c)
  /\ \/ /\ StillPending(frame[c].req)
        /\ Goto(c, "insertSettlement")
        /\ UNCHANGED <<rows, requests, settlements, frame, answer, notices>>
     \/ /\ ~StillPending(frame[c].req)
        /\ Refuse(c)

(* The handler returns after the INSERT and the deferred rollback runs. *)
CommitForgotten(c) ==
  /\ pc[c] = "insertSettlement"
  /\ Free(c)
  /\ Goto(c, "notify")
  /\ UNCHANGED <<rows, requests, settlements, frame, answer, notices>>

(* The settlement is written with the row read before the transaction. *)
ConfirmInsert(c) ==
  /\ pc[c] = "insertSettlement"
  /\ Free(c)
  /\ \/ /\ References(frame[c]) \subseteq rows
        /\ Goto(c, "commit")
        /\ UNCHANGED <<rows, requests, settlements, frame, answer, notices>>
     \/ /\ ~(References(frame[c]) \subseteq rows)
        /\ Fail(c)

NullPayer(f) == [payer |-> None, receiver |-> f.receiver,
                 amount |-> f.amount, origin |-> f.req]

SwappedParties(f) == [payer |-> f.receiver, receiver |-> f.payer,
                      amount |-> f.amount, origin |-> f.req]

Settlement(f) == [payer |-> f.payer, receiver |-> f.receiver,
                  amount |-> f.amount, origin |-> f.req]

(* The commit publishes both writes and releases every lock. *)
ConfirmCommit(c) ==
  /\ pc[c] = "commit"
  /\ requests' = [requests EXCEPT ![frame[c].req].status = "confirmed"]
  /\ settlements' = [settlements EXCEPT ![c] = Settlement(frame[c])]
  /\ Goto(c, "notify")
  /\ UNCHANGED <<rows, frame, answer, notices>>

CancelUpdate(c) ==
  /\ pc[c] = "updateCancel"
  /\ Free(c)
  /\ \/ /\ StillPending(frame[c].req)
        /\ requests' = [requests EXCEPT ![frame[c].req].status = "canceled"]
        /\ Goto(c, "notify")
        /\ UNCHANGED <<rows, settlements, frame, answer, notices>>
     \/ /\ ~StillPending(frame[c].req)
        /\ Refuse(c)

-----------------------------------------------------------------------------
(* CreateSettlement: any member records that one member paid another. *)

SettleLookup(c, u, payer, receiver, amount) ==
  /\ pc[c] = "idle" /\ Endpoint[c] = "settle"
  /\ LET valid == /\ payer # receiver
                  /\ IsMember(u) /\ {payer, receiver} \subseteq rows
     IN \/ /\ valid
           /\ Enter(c, [NoFrame EXCEPT !.payer = payer, !.receiver = receiver,
                                       !.amount = amount], "insertDirect")
        \/ /\ ~valid
           /\ Refuse(c)

SettleInsert(c) ==
  /\ pc[c] = "insertDirect"
  /\ Free(c)
  /\ LET valid == frame[c].amount >= 0 /\ References(frame[c]) \subseteq rows
     IN \/ /\ valid
           /\ settlements' = [settlements EXCEPT ![c] = Settlement(frame[c])]
           /\ Reply(c, "ok")
           /\ UNCHANGED <<rows, requests, frame, notices>>
        \/ /\ ~valid
           /\ Fail(c)

-----------------------------------------------------------------------------
(* DELETE of a participant or of the event.  Who may ask for one is not    *)
(* this module's concern: one may arrive at any time.                      *)

DeleteArrive(c, t) ==
  /\ pc[c] = "idle" /\ Endpoint[c] = "delete"
  /\ Enter(c, [NoFrame EXCEPT !.target = t], "lockRow")

(* The DELETE takes its row; a row that is gone is no error. *)
DeleteLock(c) ==
  /\ pc[c] = "lockRow"
  /\ Free(c)
  /\ \/ /\ frame[c].target \in rows
        /\ Goto(c, "cascade")
        /\ UNCHANGED <<rows, requests, settlements, frame, answer, notices>>
     \/ /\ frame[c].target \notin rows
        /\ Reply(c, "ok")
        /\ UNCHANGED <<rows, requests, settlements, frame, notices>>

(* A schema whose settlements cascade as the requests do. *)
DeleteWithSettlements(c) ==
  /\ pc[c] = "cascade" /\ frame[c].target \in Participants
  /\ Free(c)
  /\ LET p == frame[c].target
     IN /\ rows' = rows \ {p}
        /\ requests' = [r \in Calls |->
             IF r \in RequestsOf(p) THEN None ELSE requests[r]]
        /\ settlements' = [s \in Calls |->
             IF s \in SettlementsOf(p) THEN None ELSE settlements[s]]
  /\ Reply(c, "ok")
  /\ UNCHANGED <<frame, notices>>

(* The participant's requests go with him; a settlement of his forbids it. *)
DeleteParticipant(c) ==
  /\ pc[c] = "cascade" /\ frame[c].target \in Participants
  /\ Free(c)
  /\ LET p == frame[c].target
     IN \/ /\ SettlementsOf(p) # {}
           /\ Fail(c)
        \/ /\ SettlementsOf(p) = {}
           /\ rows' = rows \ {p}
           /\ requests' = [r \in Calls |->
                IF r \in RequestsOf(p) THEN None ELSE requests[r]]
           /\ Reply(c, "ok")
           /\ UNCHANGED <<settlements, frame, notices>>

(* Everything of the event goes, the notifications about it included. *)
DeleteEvent(c) ==
  /\ pc[c] = "cascade" /\ frame[c].target = Event
  /\ Free(c)
  /\ rows' = {}
  /\ requests' = [r \in Calls |-> None]
  /\ settlements' = [s \in Calls |-> None]
  /\ notices' = {}
  /\ Reply(c, "ok")
  /\ UNCHANGED frame

-----------------------------------------------------------------------------
(* After the write: the other party is told, and the client is answered.   *)
(* The receiver of a new request was read before the INSERT; the payer of  *)
(* a decided one is read again.  A notification that fails is forgotten.   *)

Addressee(c) ==
  IF Endpoint[c] = "create" THEN frame[c].receiver ELSE frame[c].payer

Notify(c) ==
  /\ pc[c] = "notify"
  /\ Free(c)
  /\ LET who  == Addressee(c)
         told == /\ who \in Users /\ Event \in rows
                 /\ Endpoint[c] = "create" \/ who \in rows
     IN \/ /\ told
           /\ notices' = notices \cup {c}
        \/ UNCHANGED notices
  /\ Reply(c, "ok")
  /\ UNCHANGED <<rows, requests, settlements, frame>>

(* A lost connection or a crash of the server: an open transaction is      *)
(* rolled back, a finished one stays, the client sees an error.            *)
Abort(c) ==
  /\ pc[c] \notin {"idle", "done"}
  /\ Fail(c)

(* PostgreSQL's deadlock detector picks a victim among handlers that wait  *)
(* for one another.                                                        *)
Deadlocked(c) ==
  \E S \in SUBSET {a \in Calls : ~Free(a)} :
    c \in S /\ \A a \in S : \E b \in S \ {a} : WaitsFor(a, b)

NoDetector(c) == FALSE

DeadlockAbort(c) == Deadlocked(c) /\ Fail(c)

-----------------------------------------------------------------------------

Request(c) ==
  \/ \E u \in Users, payer, receiver \in Participants, amount \in Amounts :
       \/ CreateLookup(c, u, payer, receiver, amount)
       \/ SettleLookup(c, u, payer, receiver, amount)
  \/ \E u \in Users, r \in Calls : ConfirmLookup(c, u, r) \/ CancelLookup(c, u, r)
  \/ \E t \in Parents : DeleteArrive(c, t)

Write(c) ==
  \/ CreateInsert(c)
  \/ ConfirmUpdate(c) \/ ConfirmInsert(c) \/ ConfirmCommit(c)
  \/ CancelUpdate(c)
  \/ SettleInsert(c)
  \/ DeleteLock(c) \/ DeleteParticipant(c) \/ DeleteEvent(c)
  \/ Notify(c)

Next == \E c \in Calls : Request(c) \/ Write(c) \/ Abort(c) \/ DeadlockAbort(c)

(* A handler that the database lets run runs, and the detector detects. *)
Fairness ==
  /\ \A c \in Calls : WF_vars(Write(c))
  /\ WF_vars(\E c \in Calls : DeadlockAbort(c))

Spec == Init /\ [][Next]_vars
FairSpec == Spec /\ Fairness

-----------------------------------------------------------------------------
(* Properties *)

SettlementsFor(r) == {s \in Live(settlements) : settlements[s].origin = r}

(* Money is entered in the ledger once for every confirmed request and for *)
(* no other, however many confirmations, cancellations and removals race   *)
(* (the conditional UPDATE and the INSERT share a transaction, and a       *)
(* settlement keeps its parties and thereby its request from vanishing).   *)
ConfirmedIffSettledOnce ==
  /\ \A s \in Live(settlements) :
       settlements[s].origin # None =>
         /\ requests[settlements[s].origin] # None
         /\ requests[settlements[s].origin].status = "confirmed"
  /\ \A r \in Live(requests) :
       requests[r].status = "confirmed" =>
         \E s \in Calls :
           /\ SettlementsFor(r) = {s}
           /\ settlements[s].payer = requests[r].payer
           /\ settlements[s].receiver = requests[r].receiver
           /\ settlements[s].amount = requests[r].amount

(* No request or settlement names a participant or event that is gone, so  *)
(* the joins of the listings lose no row.                                  *)
ReferencesExist ==
  /\ \A r \in Live(requests) : References(requests[r]) \subseteq rows
  /\ \A s \in Live(settlements) : References(settlements[s]) \subseteq rows

(* Whatever is entered in the ledger stays there as it was written until    *)
(* the event is deleted; a removal of one of the two parties is refused     *)
(* instead.                                                                 *)
LedgerAppendOnly ==
  [][\A s \in Live(settlements) :
       settlements'[s] = settlements[s] \/ Event \notin rows']_vars

(* A decision is final: a decided request keeps its row as it is, a        *)
(* confirmed one until the event itself is deleted.                        *)
DecisionFinal ==
  [][\A r \in Calls :
       (requests[r] # None /\ requests[r].status # "pending") =>
         \/ requests'[r] = requests[r]
         \/ /\ requests'[r] = None
            /\ requests[r].status = "canceled" \/ Event \notin rows'
    ]_vars

(* What a client was told is so: of all the calls that decide one request  *)
(* at most one is answered "ok", the request is as that answer says, and a *)
(* refused call has written nothing.                                       *)
AnswersTrue ==
  \A c \in Calls :
    /\ answer[c] = "ok" /\ Endpoint[c] = "confirm" =>
         \/ Event \notin rows
         \/ /\ requests[frame[c].req] # None
            /\ requests[frame[c].req].status = "confirmed"
            /\ settlements[c] # None
    /\ answer[c] = "ok" /\ Endpoint[c] = "cancel" =>
         \/ requests[frame[c].req] = None
         \/ requests[frame[c].req].status = "canceled"
    /\ answer[c] = "refused" => requests[c] = None /\ settlements[c] = None
    /\ \A d \in Calls \ {c} :
         (answer[c] = "ok" /\ answer[d] = "ok"
          /\ Endpoint[c] \in {"confirm", "cancel"}
          /\ Endpoint[d] \in {"confirm", "cancel"})
            => frame[c].req # frame[d].req

(* A payer is never told of a decision that was not made, or of two. *)
NoticesTrue ==
  \A c \in notices :
    /\ Endpoint[c] = "confirm" => settlements[c] # None
    /\ Endpoint[c] = "cancel" =>
         \/ requests[frame[c].req] = None
         \/ requests[frame[c].req].status = "canceled"

(* Nobody can decide a request to a guest, who has no account, not even    *)
(* the payer who made it: it stays pending as long as it exists.           *)
GuestRequestsStayPending ==
  \A r \in Live(requests) :
    requests[r].receiver \in Guests => requests[r].status = "pending"

(* Every call is answered: no handler waits for a row lock for good. *)
EveryCallAnswered == \A c \in Calls : pc[c] # "idle" ~> pc[c] = "done"

(* The validate tag of CreateSettlementRequest.Amount asks for gt=0. *)
SettlementAmountsPositive ==
  \A s \in Live(settlements) : settlements[s].amount > 0

-----------------------------------------------------------------------------
(* The contract this module implements *)

TermsOf(f) == [payer |-> f.payer, receiver |-> f.receiver, amount |-> f.amount]

Book == INSTANCE PaymentContract WITH
  Requests <- Calls,
  Terms    <- [payer : Participants, receiver : Participants, amount : Amounts],
  Entries  <- Calls,
  status   <- [r \in Calls |->
                 IF requests[r] = None THEN "none" ELSE requests[r].status],
  terms    <- [r \in Calls |->
                 IF requests[r] = None THEN None ELSE TermsOf(requests[r])],
  ledger   <- [r \in Calls |->
                 {[entry |-> s, terms |-> TermsOf(settlements[s])]
                    : s \in SettlementsFor(r)}]

(* Committed rows behave as the contract says, whatever the handlers do. *)
ImplementsContract == Book!Spec
=============================================================================
