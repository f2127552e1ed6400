------------------------ MODULE PaymentRequests_proofs ------------------------
(***************************************************************************)
(* Proofs about PaymentRequests, for any calls, members and amounts.       *)
(*                                                                         *)
(* ConfirmedIffSettledOnce is not inductive as it stands.  What keeps a    *)
(* settlement and its request together is                                  *)
(*   - a handler's copy of a row stays true, since the terms of a request  *)
(*     never change and its id is never used again (CopiesTrue),           *)
(*   - a request that a transaction holds is pending and held by that      *)
(*     transaction alone (HeldRequestsPending),                            *)
(*   - foreign keys: a participant with a settlement cannot go, so a       *)
(*     confirmed request cannot be swept away by a cascade                 *)
(*     (ReferencesExist).                                                  *)
(* The same facts show that no step rewrites what was decided, that        *)
(* answers and notices tell what the tables hold (Told), and that each     *)
(* step is one of PaymentContract or invisible to it.                      *)
(***************************************************************************)
EXTENDS PaymentRequests, TLAPS

Deciding == {"updateConfirm", "insertSettlement", "commit", "updateCancel"}
Fresh    == {"idle", "insertRequest"}

(* What a handler has in hand when it writes. *)
FramesOK ==
  \A c \in Calls :
    /\ pc[c] \in {"insertRequest", "insertDirect"} \cup Deciding =>
         /\ frame[c].payer \in Participants
         /\ frame[c].receiver \in Participants
         /\ frame[c].amount \in Amounts
    /\ pc[c] \in Deciding => frame[c].req \in Calls /\ frame[c].receiver \in Users
    /\ pc[c] = "insertDirect" => frame[c].req = None
    /\ pc[c] \in {"lockRow", "cascade"} => frame[c].target \in Parents

(* A call that has not inserted its rows has none. *)
RowsFresh ==
  \A c \in Calls :
    /\ pc[c] \in Fresh => requests[c] = None
    /\ pc[c] \notin {"notify", "done"} => settlements[c] = None

CopiesTrue ==
  \A c \in Calls :
    pc[c] \in Deciding =>
      /\ pc[frame[c].req] \notin Fresh
      /\ requests[frame[c].req] # None =>
           TermsOf(requests[frame[c].req]) = TermsOf(frame[c])

HeldRequestsPending ==
  \A c \in Calls :
    pc[c] \in {"insertSettlement", "commit"} =>
      /\ requests[frame[c].req] # None
      /\ requests[frame[c].req].status = "pending"
      /\ \A d \in Calls : HoldsRequest(d, frame[c].req) => d = c

IInv ==
  /\ TypeOK
  /\ FramesOK
  /\ RowsFresh
  /\ CopiesTrue
  /\ HeldRequestsPending
  /\ ReferencesExist
  /\ ConfirmedIffSettledOnce
  /\ GuestRequestsStayPending

-----------------------------------------------------------------------------
(* Steps that leave the tables alone *)

(* An invariant of the tables survives a step that does not touch them. *)
LEMMA TablesUntouched ==
  ASSUME IInv, UNCHANGED <<rows, requests, settlements>>
  PROVE  /\ ReferencesExist'
         /\ ConfirmedIffSettledOnce'
         /\ GuestRequestsStayPending'
BY DEF IInv, ReferencesExist, ConfirmedIffSettledOnce, GuestRequestsStayPending,
       Live, References, SettlementsFor

(* A handler may end anywhere, whatever it answers. *)
LEMMA EndPreserves ==
  ASSUME IInv, NEW c \in Calls,
         pc' = [pc EXCEPT ![c] = "done"],
         answer' \in [Calls -> {"none", "ok", "refused", "error"}],
         notices' \subseteq Calls,
         UNCHANGED <<rows, requests, settlements, frame>>
  PROVE  IInv'
<1>1. TypeOK'
  BY DEF IInv, TypeOK, Steps
<1>2. FramesOK'
  BY DEF IInv, TypeOK, FramesOK, Deciding
<1>3. RowsFresh'
  BY DEF IInv, TypeOK, RowsFresh, Fresh
<1>4. CopiesTrue'
  BY DEF IInv, TypeOK, CopiesTrue, Deciding, Fresh, FramesOK, TermsOf
<1>5. HeldRequestsPending'
  BY DEF IInv, TypeOK, HeldRequestsPending, HoldsRequest, FramesOK, Deciding
<1> QED
  BY <1>1, <1>2, <1>3, <1>4, <1>5, TablesUntouched DEF IInv

LEMMA RefusePreserves ==
  ASSUME IInv, NEW c \in Calls, Refuse(c)
  PROVE  IInv'
<1>1. answer' \in [Calls -> {"none", "ok", "refused", "error"}]
  BY DEF IInv, TypeOK, Refuse, Reply
<1> QED
  BY <1>1, EndPreserves DEF Refuse, Reply, Goto, IInv, TypeOK

LEMMA FailPreserves ==
  ASSUME IInv, NEW c \in Calls, Fail(c)
  PROVE  IInv'
<1>1. answer' \in [Calls -> {"none", "ok", "refused", "error"}]
  BY DEF IInv, TypeOK, Fail, Reply
<1> QED
  BY <1>1, EndPreserves DEF Fail, Reply, Goto, IInv, TypeOK

LEMMA NotifyPreserves ==
  ASSUME IInv, NEW c \in Calls, Notify(c)
  PROVE  IInv'
<1>1. answer' \in [Calls -> {"none", "ok", "refused", "error"}]
  BY DEF IInv, TypeOK, Notify, Reply
<1>2. notices' \subseteq Calls
  BY DEF IInv, TypeOK, Notify
<1> QED
  BY <1>1, <1>2, EndPreserves DEF Notify, Reply, Goto

-----------------------------------------------------------------------------
(* Lookups: the handler takes a frame and moves to its write *)

LEMMA EnterPreserves ==
  ASSUME IInv, NEW c \in Calls, NEW f \in Frame,
         NEW step \in {"insertRequest", "insertDirect", "lockRow",
                       "updateConfirm", "updateCancel"},
         pc[c] = "idle",
         Enter(c, f, step),
         step \in {"insertRequest", "insertDirect", "updateConfirm", "updateCancel"}
           => /\ f.payer \in Participants /\ f.receiver \in Participants
              /\ f.amount \in Amounts,
         step \in {"updateConfirm", "updateCancel"}
           => /\ f.req \in Calls /\ f.receiver \in Users
              /\ requests[f.req] # None
              /\ TermsOf(requests[f.req]) = TermsOf(f),
         step = "insertDirect" => f.req = None,
         step = "lockRow" => f.target \in Parents
  PROVE  IInv'
<1> USE DEF Enter, Goto
<1>1. TypeOK'
  BY DEF IInv, TypeOK, Steps
<1>2. FramesOK'
  BY DEF IInv, TypeOK, FramesOK, Deciding
<1>3. RowsFresh'
  BY DEF IInv, TypeOK, RowsFresh, Fresh
<1>4. CopiesTrue'
  <2>1. \A r \in Calls : requests[r] # None => pc[r] \notin Fresh
    BY DEF IInv, RowsFresh
  <2>2. \A r \in Calls : pc[r] \notin Fresh => pc'[r] \notin Fresh
    BY DEF IInv, TypeOK, Fresh
  <2> QED
    BY <2>1, <2>2 DEF IInv, TypeOK, FramesOK, CopiesTrue, Deciding, TermsOf
<1>5. HeldRequestsPending'
  BY DEF IInv, TypeOK, HeldRequestsPending, HoldsRequest, FramesOK, Deciding
<1> QED
  BY <1>1, <1>2, <1>3, <1>4, <1>5, TablesUntouched DEF IInv

LEMMA CreateLookupPreserves ==
  ASSUME IInv, NEW c \in Calls, NEW u \in Users, NEW payer \in Participants,
         NEW receiver \in Participants, NEW amount \in Amounts,
         CreateLookup(c, u, payer, receiver, amount)
  PROVE  IInv'
<1> DEFINE f == [NoFrame EXCEPT !.payer = payer, !.receiver = receiver,
                                !.amount = amount]
<1>1. CASE Refuse(c)
  BY <1>1, RefusePreserves
<1>2. CASE Enter(c, f, "insertRequest")
  <2>1. /\ f \in Frame
        /\ f.payer = payer /\ f.receiver = receiver /\ f.amount = amount
    BY PRAssumption DEF NoFrame, Frame
  <2> HIDE DEF f
  <2> QED
    BY <1>2, <2>1, EnterPreserves DEF CreateLookup
<1> QED
  BY <1>1, <1>2 DEF CreateLookup

LEMMA SettleLookupPreserves ==
  ASSUME IInv, NEW c \in Calls, NEW u \in Users, NEW payer \in Participants,
         NEW receiver \in Participants, NEW amount \in Amounts,
         SettleLookup(c, u, payer, receiver, amount)
  PROVE  IInv'
<1> DEFINE f == [NoFrame EXCEPT !.payer = payer, !.receiver = receiver,
                                !.amount = amount]
<1>1. CASE Refuse(c)
  BY <1>1, RefusePreserves
<1>2. CASE Enter(c, f, "insertDirect")
  <2>1. /\ f \in Frame /\ f.req = None
        /\ f.payer = payer /\ f.receiver = receiver /\ f.amount = amount
    BY PRAssumption DEF NoFrame, Frame
  <2> HIDE DEF f
  <2> QED
    BY <1>2, <2>1, EnterPreserves DEF SettleLookup
<1> QED
  BY <1>1, <1>2 DEF SettleLookup

LEMMA DecideLookupPreserves ==
  ASSUME IInv, NEW c \in Calls, NEW u \in Users, NEW r \in Calls, NEW op,
         NEW step \in {"updateConfirm", "updateCancel"},
         DecideLookup(c, u, r, op, step)
  PROVE  IInv'
<1> DEFINE f == [req |-> r, target |-> None, payer |-> requests[r].payer,
                 receiver |-> requests[r].receiver, amount |-> requests[r].amount]
<1>1. CASE Refuse(c)
  BY <1>1, RefusePreserves
<1>2. CASE MayDecide(u, r) /\ Enter(c, f, step)
  <2>1. requests[r] \in RequestRow /\ requests[r].receiver = u
    BY <1>2 DEF IInv, TypeOK, MayDecide
  <2>2. /\ f \in Frame /\ f.req = r /\ f.payer \in Participants
        /\ f.receiver \in Participants /\ f.receiver \in Users
        /\ f.amount \in Amounts
        /\ TermsOf(requests[r]) = TermsOf(f)
    BY <2>1, PRAssumption DEF Frame, RequestRow, TermsOf, Users
  <2> HIDE DEF f
  <2> QED
    BY <1>2, <2>2, EnterPreserves DEF DecideLookup, MayDecide
<1> QED
  BY <1>1, <1>2 DEF DecideLookup

LEMMA DeleteArrivePreserves ==
  ASSUME IInv, NEW c \in Calls, NEW t \in Parents, DeleteArrive(c, t)
  PROVE  IInv'
<1> DEFINE f == [NoFrame EXCEPT !.target = t]
<1>1. f \in Frame /\ f.target = t
  BY DEF NoFrame, Frame
<1> HIDE DEF f
<1> QED
  BY <1>1, EnterPreserves DEF DeleteArrive, f

-----------------------------------------------------------------------------
(* Steps that take a lock *)

LEMMA LockPreserves ==
  ASSUME IInv, NEW c \in Calls,
         \/ /\ pc[c] = "updateConfirm" /\ pc' = [pc EXCEPT ![c] = "insertSettlement"]
            /\ Free(c) /\ StillPending(frame[c].req)
         \/ /\ pc[c] = "insertSettlement" /\ pc' = [pc EXCEPT ![c] = "commit"]
         \/ /\ pc[c] = "lockRow" /\ pc' = [pc EXCEPT ![c] = "cascade"],
         UNCHANGED <<rows, requests, settlements, frame, answer, notices>>
  PROVE  IInv'
<1>1. TypeOK'
  BY DEF IInv, TypeOK, Steps
<1>2. FramesOK'
  BY DEF IInv, TypeOK, FramesOK, Deciding
<1>3. RowsFresh'
  BY DEF IInv, TypeOK, RowsFresh, Fresh
<1>4. CopiesTrue'
  BY DEF IInv, TypeOK, CopiesTrue, Deciding, Fresh, FramesOK, TermsOf
<1>5. HeldRequestsPending'
  BY DEF IInv, TypeOK, HeldRequestsPending, HoldsRequest, FramesOK, Deciding,
         StillPending, Free, WaitsFor
<1> QED
  BY <1>1, <1>2, <1>3, <1>4, <1>5, TablesUntouched DEF IInv

LEMMA ConfirmUpdatePreserves ==
  ASSUME IInv, NEW c \in Calls, ConfirmUpdate(c)
  PROVE  IInv'
BY RefusePreserves, LockPreserves DEF ConfirmUpdate, Goto

LEMMA ConfirmInsertPreserves ==
  ASSUME IInv, NEW c \in Calls, ConfirmInsert(c)
  PROVE  IInv'
BY FailPreserves, LockPreserves DEF ConfirmInsert, Goto

LEMMA DeleteLockPreserves ==
  ASSUME IInv, NEW c \in Calls, DeleteLock(c)
  PROVE  IInv'
<1>1. CASE Reply(c, "ok") /\ UNCHANGED <<rows, requests, settlements, frame, notices>>
  <2>1. answer' \in [Calls -> {"none", "ok", "refused", "error"}]
    BY <1>1 DEF IInv, TypeOK, Reply
  <2> QED
    BY <1>1, <2>1, EndPreserves DEF Reply, Goto, IInv, TypeOK
<1> QED
  BY <1>1, LockPreserves DEF DeleteLock, Goto

-----------------------------------------------------------------------------
(* Steps that write to the tables *)

LEMMA CreateInsertPreserves ==
  ASSUME IInv, NEW c \in Calls, CreateInsert(c)
  PROVE  IInv'
<1> DEFINE row == [payer |-> frame[c].payer, receiver |-> frame[c].receiver,
                   amount |-> frame[c].amount, status |-> "pending"]
<1>1. CASE Fail(c)
  BY <1>1, FailPreserves
<1>2. CASE /\ References(frame[c]) \subseteq rows
           /\ requests' = [requests EXCEPT ![c] = row]
           /\ pc' = [pc EXCEPT ![c] = "notify"]
           /\ UNCHANGED <<rows, settlements, frame, answer, notices>>
  <2>0. pc[c] = "insertRequest"
    BY DEF CreateInsert
  <2>1. row \in RequestRow /\ row # None
    BY <2>0, NoneAssumption DEF IInv, FramesOK, RequestRow
  <2>2. requests[c] = None
    BY <2>0 DEF IInv, RowsFresh, Fresh
  <2>3. References(row) \subseteq rows
    BY <1>2 DEF References
  <2>3a. row.status = "pending"
    OBVIOUS
  <2> HIDE DEF row
  <2>4. TypeOK'
    BY <1>2, <2>1 DEF IInv, TypeOK, Steps
  <2>5. FramesOK'
    BY <1>2, <2>0 DEF IInv, TypeOK, FramesOK, Deciding
  <2>6. RowsFresh'
    BY <1>2, <2>0 DEF IInv, TypeOK, RowsFresh, Fresh
  <2>7. CopiesTrue'
    <3>1. \A d \in Calls : pc[d] \in Deciding => frame[d].req # c
      BY <2>0 DEF IInv, CopiesTrue, Fresh
    <3> QED
      BY <1>2, <2>0, <3>1
      DEF IInv, TypeOK, FramesOK, CopiesTrue, Deciding, Fresh, TermsOf
  <2>8. HeldRequestsPending'
    BY <1>2, <2>0, <2>2
    DEF IInv, TypeOK, FramesOK, HeldRequestsPending, HoldsRequest, Deciding
  <2>9. ReferencesExist'
    BY <1>2, <2>3 DEF IInv, TypeOK, ReferencesExist, Live, References
  <2>10. ConfirmedIffSettledOnce'
    BY <1>2, <2>1, <2>2, <2>3a
    DEF IInv, TypeOK, ConfirmedIffSettledOnce, Live, SettlementsFor,
        SettlementRow
  <2>11. GuestRequestsStayPending'
    BY <1>2, <2>3a DEF IInv, TypeOK, GuestRequestsStayPending, Live
  <2> QED
    BY <2>4, <2>5, <2>6, <2>7, <2>8, <2>9, <2>10, <2>11 DEF IInv
<1> QED
  BY <1>1, <1>2 DEF CreateInsert, Goto

(* What an UPDATE of the status does to the table. *)
LEMMA StatusUpdate ==
  ASSUME requests \in [Calls -> RequestRow \cup {None}],
         NEW r \in Calls, requests[r] \in RequestRow,
         NEW v \in Verdict,
         requests' = [requests EXCEPT ![r].status = v]
  PROVE  /\ requests' = [requests EXCEPT ![r] = requests'[r]]
         /\ requests'[r] \in RequestRow
         /\ requests'[r] # None
         /\ requests'[r].status = v
         /\ requests'[r].payer = requests[r].payer
         /\ requests'[r].receiver = requests[r].receiver
         /\ requests'[r].amount = requests[r].amount
<1>1. requests'[r] = [requests[r] EXCEPT !.status = v]
  OBVIOUS
<1>2. requests'[r] \in RequestRow
  BY <1>1 DEF RequestRow
<1>3. /\ requests'[r].status = v
      /\ requests'[r].payer = requests[r].payer
      /\ requests'[r].receiver = requests[r].receiver
      /\ requests'[r].amount = requests[r].amount
  BY <1>1 DEF RequestRow
<1>4. requests' = [requests EXCEPT ![r] = requests'[r]]
  BY <1>1
<1> QED
  BY <1>2, <1>3, <1>4, NoneAssumption

(* Deciding a request that nobody else holds. *)
LEMMA CancelUpdatePreserves ==
  ASSUME IInv, NEW c \in Calls, CancelUpdate(c)
  PROVE  IInv'
<1>1. CASE Refuse(c)
  BY <1>1, RefusePreserves
<1>2. CASE /\ StillPending(frame[c].req)
           /\ requests' = [requests EXCEPT ![frame[c].req].status = "canceled"]
           /\ pc' = [pc EXCEPT ![c] = "notify"]
           /\ UNCHANGED <<rows, settlements, frame, answer, notices>>
  <2> DEFINE r == frame[c].req
  <2>0. pc[c] = "updateCancel" /\ Free(c)
    BY DEF CancelUpdate
  <2>1. /\ r \in Calls
        /\ requests[r] \in RequestRow
        /\ requests[r] # None
        /\ requests[r].status = "pending"
        /\ requests[r].receiver \in Users
    BY <1>2, <2>0
    DEF IInv, TypeOK, FramesOK, CopiesTrue, TermsOf, Deciding, StillPending
  <2>2. \A d \in Calls : ~HoldsRequest(d, r)
    BY <2>0 DEF Free, WaitsFor, HoldsRequest
  <2> HIDE DEF r
  <2>3. /\ requests' = [requests EXCEPT ![r] = requests'[r]]
        /\ requests'[r] \in RequestRow
        /\ requests'[r] # None
        /\ requests'[r].status = "canceled"
        /\ requests'[r].payer = requests[r].payer
        /\ requests'[r].receiver = requests[r].receiver
        /\ requests'[r].amount = requests[r].amount
    BY <1>2, <2>1, StatusUpdate DEF IInv, TypeOK, Verdict, r
  <2>4. TypeOK'
    BY <1>2, <2>1, <2>3 DEF IInv, TypeOK, Steps
  <2>5. FramesOK'
    BY <1>2, <2>0 DEF IInv, TypeOK, FramesOK, Deciding
  <2>6. RowsFresh'
    BY <1>2, <2>0, <2>1, <2>3 DEF IInv, TypeOK, RowsFresh, Fresh
  <2>7. CopiesTrue'
    BY <1>2, <2>0, <2>1, <2>3
    DEF IInv, TypeOK, FramesOK, CopiesTrue, Deciding, Fresh, TermsOf
  <2>8. HeldRequestsPending'
    BY <1>2, <2>0, <2>1, <2>2, <2>3
    DEF IInv, TypeOK, FramesOK, HeldRequestsPending, HoldsRequest, Deciding
  <2>9. ReferencesExist'
    BY <1>2, <2>1, <2>3 DEF IInv, TypeOK, ReferencesExist, Live, References
  <2>10. ConfirmedIffSettledOnce'
    BY <1>2, <2>1, <2>3
    DEF IInv, TypeOK, ConfirmedIffSettledOnce, Live, SettlementsFor
  <2>11. GuestRequestsStayPending'
    BY <1>2, <2>1, <2>3, PRAssumption
    DEF IInv, TypeOK, GuestRequestsStayPending, Live, Users
  <2> QED
    BY <2>4, <2>5, <2>6, <2>7, <2>8, <2>9, <2>10, <2>11 DEF IInv
<1> QED
  BY <1>1, <1>2 DEF CancelUpdate, Goto

LEMMA ConfirmCommitPreserves ==
  ASSUME IInv, NEW c \in Calls, ConfirmCommit(c)
  PROVE  IInv'
<1> DEFINE s == Settlement(frame[c])
<1> SUFFICES ASSUME NEW r, r = frame[c].req
             PROVE  IInv'
  OBVIOUS
<1>0. /\ pc[c] = "commit"
      /\ requests' = [requests EXCEPT ![r].status = "confirmed"]
      /\ settlements' = [settlements EXCEPT ![c] = s]
      /\ pc' = [pc EXCEPT ![c] = "notify"]
      /\ UNCHANGED <<rows, frame, answer, notices>>
  BY DEF ConfirmCommit, Goto
<1>1. /\ r \in Calls
      /\ requests[r] \in RequestRow
      /\ requests[r] # None
      /\ requests[r].status = "pending"
      /\ requests[r].receiver \in Users
  BY <1>0
  DEF IInv, TypeOK, FramesOK, CopiesTrue, TermsOf, Deciding, HeldRequestsPending
<1>2. /\ s \in SettlementRow /\ s # None /\ s.origin = r
      /\ s.payer = requests[r].payer
      /\ s.receiver = requests[r].receiver
      /\ s.amount = requests[r].amount
  <2>1. /\ frame[c].payer \in Participants
        /\ frame[c].receiver \in Participants
        /\ frame[c].amount \in Amounts
    BY <1>0 DEF IInv, FramesOK, Deciding
  <2>2. TermsOf(requests[r]) = TermsOf(frame[c])
    BY <1>0, <1>1 DEF IInv, CopiesTrue, Deciding
  <2>3. s \in SettlementRow
    BY <2>1, <1>1 DEF Settlement, SettlementRow
  <2>4. /\ frame[c].payer = requests[r].payer
        /\ frame[c].receiver = requests[r].receiver
        /\ frame[c].amount = requests[r].amount
    BY <2>2 DEF TermsOf
  <2> QED
    BY <2>3, <2>4, NoneAssumption DEF Settlement
<1>3. settlements[c] = None
  BY <1>0 DEF IInv, RowsFresh
<1>4. \A d \in Calls : HoldsRequest(d, r) => d = c
  BY <1>0 DEF IInv, HeldRequestsPending
<1>5. SettlementsFor(r) = {}
  BY <1>1, PRAssumption DEF IInv, ConfirmedIffSettledOnce, SettlementsFor, Live
<1> HIDE DEF s
<1>6. /\ requests' = [requests EXCEPT ![r] = requests'[r]]
      /\ requests'[r] \in RequestRow
      /\ requests'[r] # None
      /\ requests'[r].status = "confirmed"
      /\ requests'[r].payer = requests[r].payer
      /\ requests'[r].receiver = requests[r].receiver
      /\ requests'[r].amount = requests[r].amount
  BY <1>0, <1>1, StatusUpdate DEF IInv, TypeOK, Verdict
<1>7. TypeOK'
  BY <1>0, <1>1, <1>2, <1>6 DEF IInv, TypeOK, Steps
<1>8. FramesOK'
  BY <1>0 DEF IInv, TypeOK, FramesOK, Deciding
<1>9. RowsFresh'
  BY <1>0, <1>1, <1>6 DEF IInv, TypeOK, RowsFresh, Fresh
<1>10. CopiesTrue'
  BY <1>0, <1>1, <1>6
  DEF IInv, TypeOK, FramesOK, CopiesTrue, Deciding, Fresh, TermsOf
<1>11. HeldRequestsPending'
  BY <1>0, <1>1, <1>4, <1>6
  DEF IInv, TypeOK, FramesOK, HeldRequestsPending, HoldsRequest, Deciding
<1>12. ReferencesExist'
  BY <1>0, <1>1, <1>2, <1>6 DEF IInv, TypeOK, ReferencesExist, Live, References
<1>13. ConfirmedIffSettledOnce'
  <2>1. \A q \in Calls : q # r => SettlementsFor(q)' = SettlementsFor(q)
    BY <1>0, <1>2, <1>3 DEF IInv, TypeOK, SettlementsFor, Live
  <2>2. SettlementsFor(r)' = {c}
    BY <1>0, <1>2, <1>3, <1>5 DEF IInv, TypeOK, SettlementsFor, Live
  <2>3. ASSUME NEW t \in Live(settlements)', settlements'[t].origin # None
        PROVE  /\ requests'[settlements'[t].origin] # None
               /\ requests'[settlements'[t].origin].status = "confirmed"
    BY <1>0, <1>1, <1>2, <1>6, <2>3, NoneAssumption
    DEF IInv, TypeOK, ConfirmedIffSettledOnce, Live, SettlementRow
  <2>4. ASSUME NEW q \in Live(requests)', requests'[q].status = "confirmed"
        PROVE  \E t \in Calls :
                 /\ SettlementsFor(q)' = {t}
                 /\ settlements'[t].payer = requests'[q].payer
                 /\ settlements'[t].receiver = requests'[q].receiver
                 /\ settlements'[t].amount = requests'[q].amount
    <3>1. CASE q = r
      BY <3>1, <2>2, <1>0, <1>2, <1>6 DEF IInv, TypeOK
    <3>2. CASE q # r
      <4>1. q \in Calls /\ requests'[q] = requests[q] /\ requests[q] # None
        BY <3>2, <1>6, <2>4 DEF Live, IInv, TypeOK
      <4>2. PICK t \in Calls :
              /\ SettlementsFor(q) = {t}
              /\ settlements[t].payer = requests[q].payer
              /\ settlements[t].receiver = requests[q].receiver
              /\ settlements[t].amount = requests[q].amount
        BY <4>1, <2>4 DEF IInv, ConfirmedIffSettledOnce, Live
      <4>3. t # c
        BY <4>2, <1>3 DEF SettlementsFor, Live
      <4> QED
        BY <4>1, <4>2, <4>3, <3>2, <2>1, <1>0
    <3> QED
      BY <3>1, <3>2
  <2> QED
    BY <2>3, <2>4 DEF ConfirmedIffSettledOnce
<1>14. GuestRequestsStayPending'
  BY <1>0, <1>1, <1>6, PRAssumption
  DEF IInv, TypeOK, GuestRequestsStayPending, Live, Users
<1> QED
  BY <1>7, <1>8, <1>9, <1>10, <1>11, <1>12, <1>13, <1>14 DEF IInv

LEMMA SettleInsertPreserves ==
  ASSUME IInv, NEW c \in Calls, SettleInsert(c)
  PROVE  IInv'
<1> DEFINE s == Settlement(frame[c])
<1>1. CASE Fail(c)
  BY <1>1, FailPreserves
<1>2. CASE /\ References(frame[c]) \subseteq rows
           /\ settlements' = [settlements EXCEPT ![c] = s]
           /\ pc' = [pc EXCEPT ![c] = "done"]
           /\ answer' = [answer EXCEPT ![c] = "ok"]
           /\ UNCHANGED <<rows, requests, frame, notices>>
  <2>0. pc[c] = "insertDirect"
    BY DEF SettleInsert
  <2>1. /\ s \in SettlementRow /\ s # None /\ s.origin = None
        /\ References(s) \subseteq rows
    BY <1>2, <2>0, NoneAssumption
    DEF IInv, FramesOK, Settlement, SettlementRow, References
  <2>2. settlements[c] = None
    BY <2>0 DEF IInv, RowsFresh
  <2> HIDE DEF s
  <2>3. TypeOK'
    BY <1>2, <2>1 DEF IInv, TypeOK, Steps
  <2>4. FramesOK'
    BY <1>2, <2>0 DEF IInv, TypeOK, FramesOK, Deciding
  <2>5. RowsFresh'
    BY <1>2, <2>0 DEF IInv, TypeOK, RowsFresh, Fresh
  <2>6. CopiesTrue'
    BY <1>2, <2>0 DEF IInv, TypeOK, FramesOK, CopiesTrue, Deciding, Fresh, TermsOf
  <2>7. HeldRequestsPending'
    BY <1>2, <2>0
    DEF IInv, TypeOK, FramesOK, HeldRequestsPending, HoldsRequest, Deciding
  <2>8. ReferencesExist'
    BY <1>2, <2>1 DEF IInv, TypeOK, ReferencesExist, Live, References
  <2>9. ConfirmedIffSettledOnce'
    <3>1. \A q \in Calls : SettlementsFor(q)' = SettlementsFor(q)
      BY <1>2, <2>1, <2>2, PRAssumption DEF IInv, TypeOK, SettlementsFor, Live
    <3>2. \A q \in Calls : \A t \in SettlementsFor(q) : settlements'[t] = settlements[t]
      BY <1>2, <2>2 DEF IInv, TypeOK, SettlementsFor, Live
    <3>3. \A t \in Live(settlements)' :
            settlements'[t].origin # None => t \in Live(settlements)
                                             /\ settlements'[t] = settlements[t]
      BY <1>2, <2>1 DEF IInv, TypeOK, Live
    <3> QED
      BY <3>1, <3>2, <3>3, <1>2 DEF IInv, ConfirmedIffSettledOnce, Live
  <2>10. GuestRequestsStayPending'
    BY <1>2 DEF IInv, GuestRequestsStayPending, Live
  <2> QED
    BY <2>3, <2>4, <2>5, <2>6, <2>7, <2>8, <2>9, <2>10 DEF IInv
<1> QED
  BY <1>1, <1>2 DEF SettleInsert, Reply, Goto

(* No cascade takes a request that a transaction holds, a confirmed one,   *)
(* or a participant somebody settled with.                                 *)
LEMMA DeleteParticipantPreserves ==
  ASSUME IInv, NEW c \in Calls, DeleteParticipant(c)
  PROVE  IInv'
<1> SUFFICES ASSUME NEW p \in Participants, p = frame[c].target
             PROVE  IInv'
  BY DEF DeleteParticipant
<1>1. CASE Fail(c)
  BY <1>1, FailPreserves
<1>2. CASE /\ SettlementsOf(p) = {}
           /\ rows' = rows \ {p}
           /\ requests' = [r \in Calls |-> IF r \in RequestsOf(p) THEN None
                                           ELSE requests[r]]
           /\ pc' = [pc EXCEPT ![c] = "done"]
           /\ answer' = [answer EXCEPT ![c] = "ok"]
           /\ UNCHANGED <<settlements, frame, notices>>
  <2>0. pc[c] = "cascade" /\ Free(c)
    BY DEF DeleteParticipant
  <2>1. \A r \in RequestsOf(p) : \A d \in Calls : ~HoldsRequest(d, r)
    BY <1>2, <2>0 DEF Free, WaitsFor, HoldsRequest
  <2>2. \A r \in RequestsOf(p) : requests[r].status # "confirmed"
    <3>1. SUFFICES ASSUME NEW r \in RequestsOf(p), requests[r].status = "confirmed"
                   PROVE  FALSE
      OBVIOUS
    <3>2. PICK s \in Calls : /\ SettlementsFor(r) = {s}
                             /\ settlements[s].payer = requests[r].payer
                             /\ settlements[s].receiver = requests[r].receiver
      BY <3>1 DEF IInv, ConfirmedIffSettledOnce, RequestsOf, Live
    <3>3. s \in SettlementsOf(p)
      BY <3>1, <3>2 DEF SettlementsFor, SettlementsOf, RequestsOf, References
    <3> QED
      BY <3>3, <1>2
  <2>3. \A r \in Calls : requests'[r] # None =>
          requests'[r] = requests[r] /\ r \notin RequestsOf(p)
    BY <1>2
  <2>4. TypeOK'
    BY <1>2 DEF IInv, TypeOK, Steps
  <2>5. FramesOK'
    BY <1>2, <2>0 DEF IInv, TypeOK, FramesOK, Deciding
  <2>6. RowsFresh'
    BY <1>2, <2>3 DEF IInv, TypeOK, RowsFresh, Fresh
  <2>7. CopiesTrue'
    <3>1. \A d \in Calls : pc'[d] \in Deciding => pc[d] \in Deciding /\ d # c
      BY <1>2 DEF IInv, TypeOK, Deciding
    <3>2. \A r \in Calls : pc[r] \notin Fresh => pc'[r] \notin Fresh
      BY <1>2 DEF IInv, TypeOK, Fresh
    <3>3. \A d \in Calls : pc[d] \in Deciding => frame[d].req \in Calls
      BY DEF IInv, FramesOK
    <3> QED
      BY <1>2, <2>3, <3>1, <3>2, <3>3 DEF IInv, CopiesTrue, TermsOf
  <2>8. HeldRequestsPending'
    <3>1. \A d, r \in Calls : HoldsRequest(d, r)' => HoldsRequest(d, r)
      BY <1>2, <2>0 DEF IInv, TypeOK, HoldsRequest
    <3>2. \A d \in Calls : pc'[d] \in {"insertSettlement", "commit"} =>
            /\ pc[d] \in {"insertSettlement", "commit"}
            /\ frame[d].req \in Calls
            /\ HoldsRequest(d, frame[d].req)
      BY <1>2, <2>0 DEF IInv, TypeOK, HoldsRequest, FramesOK, Deciding
    <3> QED
      BY <1>2, <2>1, <3>1, <3>2 DEF IInv, HeldRequestsPending
  <2>9. ReferencesExist'
    <3>1. \A r \in Live(requests)' : References(requests'[r]) \subseteq rows'
      BY <1>2, <2>3 DEF IInv, ReferencesExist, RequestsOf, Live, References
    <3>2. \A s \in Live(settlements)' : References(settlements'[s]) \subseteq rows'
      BY <1>2 DEF IInv, ReferencesExist, SettlementsOf, Live, References
    <3> QED
      BY <3>1, <3>2 DEF ReferencesExist
  <2>10. ConfirmedIffSettledOnce'
    <3>1. \A s \in Live(settlements)' : settlements'[s].origin # None =>
            /\ requests'[settlements'[s].origin] # None
            /\ requests'[settlements'[s].origin].status = "confirmed"
      <4>1. SUFFICES ASSUME NEW s \in Live(settlements), settlements[s].origin # None
                     PROVE  requests'[settlements[s].origin]
                              = requests[settlements[s].origin]
        BY <1>2 DEF IInv, ConfirmedIffSettledOnce, Live
      <4>2. settlements[s].origin \in Calls
        BY <4>1 DEF IInv, TypeOK, Live, SettlementRow
      <4>3. settlements[s].origin \notin RequestsOf(p)
        BY <2>2, <4>1 DEF IInv, ConfirmedIffSettledOnce
      <4> QED
        BY <4>2, <4>3, <1>2
    <3>2. \A q \in Calls : SettlementsFor(q)' = SettlementsFor(q)
      BY <1>2 DEF SettlementsFor, Live
    <3>3. ASSUME NEW r \in Live(requests)', requests'[r].status = "confirmed"
          PROVE  \E s \in Calls :
                   /\ SettlementsFor(r)' = {s}
                   /\ settlements'[s].payer = requests'[r].payer
                   /\ settlements'[s].receiver = requests'[r].receiver
                   /\ settlements'[s].amount = requests'[r].amount
      <4>1. r \in Live(requests) /\ requests'[r] = requests[r]
        BY <2>3, <3>3 DEF Live
      <4>2. PICK s \in Calls : /\ SettlementsFor(r) = {s}
                               /\ settlements[s].payer = requests[r].payer
                               /\ settlements[s].receiver = requests[r].receiver
                               /\ settlements[s].amount = requests[r].amount
        BY <3>3, <4>1 DEF IInv, ConfirmedIffSettledOnce
      <4>3. SettlementsFor(r)' = {s}
        BY <3>2, <4>1, <4>2 DEF Live
      <4> QED
        BY <1>2, <4>1, <4>2, <4>3
    <3> QED
      BY <3>1, <3>3 DEF ConfirmedIffSettledOnce
  <2>11. GuestRequestsStayPending'
    BY <2>3 DEF IInv, GuestRequestsStayPending, Live
  <2> QED
    BY <2>4, <2>5, <2>6, <2>7, <2>8, <2>9, <2>10, <2>11 DEF IInv
<1> QED
  BY <1>1, <1>2 DEF DeleteParticipant, Reply, Goto

LEMMA DeleteEventPreserves ==
  ASSUME IInv, NEW c \in Calls, DeleteEvent(c)
  PROVE  IInv'
<1>0. /\ pc[c] = "cascade" /\ frame[c].target = Event /\ Free(c)
      /\ rows' = {}
      /\ requests' = [r \in Calls |-> None]
      /\ settlements' = [s \in Calls |-> None]
      /\ notices' = {}
      /\ pc' = [pc EXCEPT ![c] = "done"]
      /\ answer' = [answer EXCEPT ![c] = "ok"]
      /\ UNCHANGED frame
  BY DEF DeleteEvent, Reply, Goto
<1>1. \A d \in Calls : pc[d] \notin {"insertSettlement", "commit"}
  BY <1>0 DEF IInv, FramesOK, Deciding, Free, WaitsFor, HoldsRequest
<1>2. TypeOK'
  BY <1>0 DEF IInv, TypeOK, Steps
<1>3. FramesOK'
  BY <1>0 DEF IInv, TypeOK, FramesOK, Deciding
<1>4. RowsFresh'
  BY <1>0 DEF RowsFresh
<1>5. CopiesTrue'
  BY <1>0 DEF IInv, TypeOK, FramesOK, CopiesTrue, Deciding, Fresh
<1>6. HeldRequestsPending'
  BY <1>0, <1>1 DEF IInv, TypeOK, HeldRequestsPending
<1>7. ReferencesExist' /\ ConfirmedIffSettledOnce' /\ GuestRequestsStayPending'
  BY <1>0 DEF ReferencesExist, ConfirmedIffSettledOnce, GuestRequestsStayPending, Live
<1> QED
  BY <1>2, <1>3, <1>4, <1>5, <1>6, <1>7 DEF IInv

-----------------------------------------------------------------------------
(* The invariant *)

LEMMA InitInvariant == Init => IInv
BY DEF Init, IInv, TypeOK, Steps, NoFrame, Frame, FramesOK, Deciding, RowsFresh,
       CopiesTrue, HeldRequestsPending, ReferencesExist, ConfirmedIffSettledOnce,
       GuestRequestsStayPending, Live, Ops

LEMMA RequestPreserves ==
  ASSUME IInv, NEW c \in Calls, Request(c)
  PROVE  IInv'
BY CreateLookupPreserves, SettleLookupPreserves, DecideLookupPreserves,
   DeleteArrivePreserves
DEF Request, ConfirmLookup, CancelLookup

LEMMA WritePreserves ==
  ASSUME IInv, NEW c \in Calls, Write(c)
  PROVE  IInv'
BY CreateInsertPreserves, ConfirmUpdatePreserves, ConfirmInsertPreserves,
   ConfirmCommitPreserves, CancelUpdatePreserves, SettleInsertPreserves,
   DeleteLockPreserves, DeleteParticipantPreserves, DeleteEventPreserves,
   NotifyPreserves
DEF Write

LEMMA NextPreserves == IInv /\ [Next]_vars => IInv'
<1>1. ASSUME IInv, NEW c \in Calls,
             Request(c) \/ Write(c) \/ Abort(c) \/ DeadlockAbort(c)
      PROVE  IInv'
  BY <1>1, RequestPreserves, WritePreserves, FailPreserves DEF Abort, DeadlockAbort
<1>2. ASSUME IInv, UNCHANGED vars
      PROVE  IInv'
  BY <1>2 DEF vars, IInv, TypeOK, FramesOK, RowsFresh, CopiesTrue,
     HeldRequestsPending, HoldsRequest, ReferencesExist, ConfirmedIffSettledOnce,
     GuestRequestsStayPending, Live, SettlementsFor, References
<1> QED
  BY <1>1, <1>2 DEF Next

LEMMA Invariant == Spec => []IInv
BY InitInvariant, NextPreserves, PTL DEF Spec

(* Every variable keeps its type: a settlement never has a NULL party, a   *)
(* request no status outside the CHECK of its column.                      *)
THEOREM TypeCorrect == Spec => []TypeOK
<1>1. IInv => TypeOK
  BY DEF IInv
<1> QED
  BY <1>1, Invariant, PTL

(* For any number of racing calls, a request is confirmed exactly when the *)
(* ledger has its one settlement, with the parties and amount of the       *)
(* request.                                                                *)
THEOREM ConfirmedOnce == Spec => []ConfirmedIffSettledOnce
<1>1. IInv => ConfirmedIffSettledOnce
  BY DEF IInv
<1> QED
  BY <1>1, Invariant, PTL

(* No removal leaves a request or a settlement that names a missing row. *)
THEOREM NoDanglingReference == Spec => []ReferencesExist
<1>1. IInv => ReferencesExist
  BY DEF IInv
<1> QED
  BY <1>1, Invariant, PTL

(* A request whose receiver is a guest is never decided. *)
THEOREM GuestRequestsUndecided == Spec => []GuestRequestsStayPending
<1>1. IInv => GuestRequestsStayPending
  BY DEF IInv
<1> QED
  BY <1>1, Invariant, PTL

-----------------------------------------------------------------------------
(* What a step may not do *)

(* The statements that change the two tables. *)
TableWrite(c) ==
  \/ CreateInsert(c) \/ ConfirmCommit(c) \/ CancelUpdate(c)
  \/ SettleInsert(c) \/ DeleteParticipant(c) \/ DeleteEvent(c)

LEMMA TablesChange ==
  ASSUME NEW c \in Calls,
         Request(c) \/ Write(c) \/ Abort(c) \/ DeadlockAbort(c),
         ~TableWrite(c)
  PROVE  UNCHANGED <<rows, requests, settlements>>
<1>1. CASE Request(c)
  <2>1. ASSUME NEW u \in Users, NEW payer, NEW receiver, NEW amount,
               \/ CreateLookup(c, u, payer, receiver, amount)
               \/ SettleLookup(c, u, payer, receiver, amount)
        PROVE  UNCHANGED <<rows, requests, settlements>>
    BY <2>1, Zenon DEF CreateLookup, SettleLookup, Enter, Refuse
  <2>2. ASSUME NEW u, NEW r, ConfirmLookup(c, u, r) \/ CancelLookup(c, u, r)
        PROVE  UNCHANGED <<rows, requests, settlements>>
    BY <2>2, Zenon DEF ConfirmLookup, CancelLookup, DecideLookup, Enter, Refuse
  <2>3. ASSUME NEW t, DeleteArrive(c, t)
        PROVE  UNCHANGED <<rows, requests, settlements>>
    BY <2>3, Zenon DEF DeleteArrive, Enter
  <2> QED
    BY <1>1, <2>1, <2>2, <2>3 DEF Request
<1>2. CASE Write(c)
  BY <1>2 DEF Write, TableWrite, ConfirmUpdate, ConfirmInsert, DeleteLock,
     Notify, Refuse, Fail
<1>3. CASE Abort(c) \/ DeadlockAbort(c)
  BY <1>3 DEF Abort, DeadlockAbort, Fail
<1> QED
  BY <1>1, <1>2, <1>3

(* A decided request is not what any handler is about to write: a decider  *)
(* that holds it has seen it pending, a creation has a fresh id, and a     *)
(* removal is stopped by the settlement of a confirmed one.                *)
LEMMA DecidedKept ==
  ASSUME IInv, NEW c \in Calls, TableWrite(c),
         NEW r \in Calls, requests[r] # None, requests[r].status # "pending"
  PROVE  \/ requests'[r] = requests[r]
         \/ /\ requests'[r] = None
            /\ requests[r].status = "canceled" \/ Event \notin rows'
<1>1. CASE CreateInsert(c)
  <2>1. requests[c] = None
    BY <1>1 DEF CreateInsert, IInv, RowsFresh, Fresh
  <2> QED
    BY <1>1, <2>1 DEF CreateInsert, Fail, IInv, TypeOK
<1>2. CASE ConfirmCommit(c)
  <2>1. frame[c].req # r
    BY <1>2 DEF ConfirmCommit, IInv, HeldRequestsPending
  <2> QED
    BY <1>2, <2>1 DEF ConfirmCommit, IInv, TypeOK
<1>3. CASE CancelUpdate(c)
  BY <1>3 DEF CancelUpdate, StillPending, Refuse, IInv, TypeOK
<1>4. CASE SettleInsert(c)
  BY <1>4 DEF SettleInsert, Fail
<1>5. CASE DeleteParticipant(c)
  <2>1. CASE requests'[r] = requests[r]
    BY <2>1
  <2>2. CASE requests'[r] # requests[r]
    <3>1. /\ SettlementsOf(frame[c].target) = {}
          /\ r \in RequestsOf(frame[c].target)
          /\ requests'[r] = None
      BY <1>5, <2>2 DEF DeleteParticipant, Fail
    <3>2. requests[r].status # "confirmed"
      <4>1. SUFFICES ASSUME requests[r].status = "confirmed"
                     PROVE  SettlementsOf(frame[c].target) # {}
        BY <3>1
      <4>2. PICK s \in Calls : /\ SettlementsFor(r) = {s}
                               /\ settlements[s].payer = requests[r].payer
                               /\ settlements[s].receiver = requests[r].receiver
        BY <3>1, <4>1 DEF IInv, ConfirmedIffSettledOnce, RequestsOf
      <4> QED
        BY <3>1, <4>2 DEF SettlementsFor, SettlementsOf, RequestsOf, References
    <3>3. requests[r].status \in {"pending", "confirmed", "canceled"}
      BY DEF IInv, TypeOK, RequestRow, Verdict
    <3> QED
      BY <3>1, <3>2, <3>3
  <2> QED
    BY <2>1, <2>2
<1>6. CASE DeleteEvent(c)
  BY <1>6 DEF DeleteEvent
<1> QED
  BY <1>1, <1>2, <1>3, <1>4, <1>5, <1>6 DEF TableWrite

(* An insertion has a fresh id, and only the deletion of the event deletes. *)
LEMMA SettlementsKept ==
  ASSUME IInv, NEW c \in Calls, TableWrite(c), NEW s \in Live(settlements)
  PROVE  settlements'[s] = settlements[s] \/ Event \notin rows'
<1>1. CASE ConfirmCommit(c) \/ SettleInsert(c)
  <2>1. settlements[c] = None
    BY <1>1 DEF ConfirmCommit, SettleInsert, IInv, RowsFresh
  <2> QED
    BY <1>1, <2>1 DEF ConfirmCommit, SettleInsert, Fail, Live, IInv, TypeOK
<1>2. CASE CreateInsert(c) \/ CancelUpdate(c) \/ DeleteParticipant(c)
  BY <1>2 DEF CreateInsert, CancelUpdate, DeleteParticipant, Fail, Refuse
<1>3. CASE DeleteEvent(c)
  BY <1>3 DEF DeleteEvent
<1> QED
  BY <1>1, <1>2, <1>3 DEF TableWrite

(* A decided request keeps its row; only a canceled one may vanish before  *)
(* the event does.                                                         *)
THEOREM DecisionsFinal == Spec => DecisionFinal
<1> DEFINE Kept ==
      \A r \in Calls :
        (requests[r] # None /\ requests[r].status # "pending") =>
          \/ requests'[r] = requests[r]
          \/ /\ requests'[r] = None
             /\ requests[r].status = "canceled" \/ Event \notin rows'
<1>1. IInv /\ [Next]_vars => [Kept]_vars
  BY TablesChange, DecidedKept DEF Next, vars
<1>2. Spec => [][Kept]_vars
  BY <1>1, Invariant, PTL DEF Spec
<1> QED
  BY <1>2 DEF DecisionFinal

(* What is in the ledger stays as it was written until the event goes. *)
THEOREM LedgerKept == Spec => LedgerAppendOnly
<1> DEFINE Kept == \A s \in Live(settlements) :
                     settlements'[s] = settlements[s] \/ Event \notin rows'
<1>1. IInv /\ [Next]_vars => [Kept]_vars
  BY TablesChange, SettlementsKept DEF Next, vars
<1>2. Spec => [][Kept]_vars
  BY <1>1, Invariant, PTL DEF Spec
<1> QED
  BY <1>2 DEF LedgerAppendOnly

-----------------------------------------------------------------------------
(* What the clients and the payers were told *)

(* The call has written, and is to be answered or was answered "ok". *)
Wrote(c)   == pc[c] = "notify" \/ answer[c] = "ok"
Decides(c) == Endpoint[c] \in {"confirm", "cancel"}

(* Each handler walks its own path and replies at its end; rows and notices *)
(* come from handlers that got there.                                       *)
PathOK(c) ==
  /\ pc[c] \in {"updateConfirm", "insertSettlement", "commit"} =>
       Endpoint[c] = "confirm"
  /\ pc[c] = "updateCancel" => Endpoint[c] = "cancel"
  /\ pc[c] = "insertRequest" => Endpoint[c] = "create"
  /\ pc[c] = "insertDirect" => Endpoint[c] = "settle"
  /\ pc[c] \in {"lockRow", "cascade"} => Endpoint[c] = "delete"
  /\ pc[c] # "done" => answer[c] = "none"
  /\ pc[c] \notin {"notify", "done"} => requests[c] = None
  /\ answer[c] = "refused" => requests[c] = None /\ settlements[c] = None
  /\ c \in notices => answer[c] = "ok" /\ Event \in rows

(* What a call decided stands. *)
DecisionStands(c) ==
  /\ Decides(c) => frame[c].req \in Calls /\ pc[frame[c].req] \notin Fresh
  /\ Endpoint[c] = "confirm" =>
       \/ Event \notin rows
       \/ /\ requests[frame[c].req] # None
          /\ requests[frame[c].req].status = "confirmed"
          /\ settlements[c] # None
  /\ Endpoint[c] = "cancel" =>
       \/ requests[frame[c].req] = None
       \/ requests[frame[c].req].status = "canceled"

OneDecider ==
  \A c, d \in Calls :
    (c # d /\ Wrote(c) /\ Wrote(d) /\ Decides(c) /\ Decides(d))
      => frame[c].req # frame[d].req

Told ==
  /\ \A c \in Calls : PathOK(c)
  /\ \A c \in Calls : Wrote(c) => DecisionStands(c)
  /\ OneDecider

Step(c) == Request(c) \/ Write(c) \/ Abort(c) \/ DeadlockAbort(c)

(* What any step of c leaves of the tables. *)
LEMMA TablesKept ==
  ASSUME IInv, NEW c \in Calls, Step(c)
  PROVE  /\ rows' \subseteq rows
         /\ \A r \in Calls :
              (requests[r] = None /\ (r # c \/ pc[c] # "insertRequest"))
                => requests'[r] = None
         /\ \A r \in Calls :
              (requests[r] # None /\ requests[r].status # "pending") =>
                \/ requests'[r] = requests[r]
                \/ /\ requests'[r] = None
                   /\ requests[r].status = "canceled" \/ Event \notin rows'
         /\ \A s \in Calls \ {c} :
              settlements[s] = None => settlements'[s] = None
         /\ \A s \in Live(settlements) :
              settlements'[s] = settlements[s] \/ Event \notin rows'
<1>1. CASE ~TableWrite(c)
  BY <1>1, TablesChange DEF Step
<1>2. CASE TableWrite(c)
  <2>1. rows' \subseteq rows
    BY <1>2 DEF TableWrite, CreateInsert, ConfirmCommit, CancelUpdate, SettleInsert,
       DeleteParticipant, DeleteEvent, Fail, Refuse
  <2>2. ASSUME NEW r \in Calls, requests[r] = None,
               r # c \/ pc[c] # "insertRequest"
        PROVE  requests'[r] = None
    <3>1. CASE CreateInsert(c)
      BY <2>2, <3>1 DEF CreateInsert, Fail, IInv, TypeOK
    <3>2. CASE ConfirmCommit(c)
      BY <2>2, <3>2 DEF ConfirmCommit, IInv, TypeOK, HeldRequestsPending
    <3>3. CASE CancelUpdate(c)
      BY <2>2, <3>3 DEF CancelUpdate, StillPending, Refuse, IInv, TypeOK
    <3>4. CASE SettleInsert(c)
      BY <2>2, <3>4 DEF SettleInsert, Fail
    <3>5. CASE DeleteParticipant(c)
      BY <2>2, <3>5 DEF DeleteParticipant, Fail
    <3>6. CASE DeleteEvent(c)
      BY <2>2, <3>6 DEF DeleteEvent
    <3> QED
      BY <1>2, <3>1, <3>2, <3>3, <3>4, <3>5, <3>6 DEF TableWrite
  <2>3. ASSUME NEW s \in Calls \ {c}, settlements[s] = None
        PROVE  settlements'[s] = None
    BY <1>2, <2>3 DEF TableWrite, CreateInsert, ConfirmCommit, CancelUpdate,
       SettleInsert, DeleteParticipant, DeleteEvent, Fail, Refuse, IInv, TypeOK
  <2> QED
    BY <1>2, <2>1, <2>2, <2>3, DecidedKept, SettlementsKept
<1> QED
  BY <1>1, <1>2

(* What was decided before a step still stands after it. *)
LEMMA StillStands ==
  ASSUME IInv, Told, NEW c \in Calls, Step(c),
         \A q \in Calls : pc[q] \notin Fresh => pc'[q] \notin Fresh,
         NEW d \in Calls, Wrote(d), frame'[d] = frame[d]
  PROVE  DecisionStands(d)'
<1> DEFINE r == frame[d].req
<1>1. DecisionStands(d)
  BY DEF Told
<1>2. CASE Decides(d)
  <2>1. r \in Calls /\ pc[r] \notin Fresh /\ pc'[r] \notin Fresh
    BY <1>1, <1>2 DEF DecisionStands, IInv, TypeOK
  <2>2. requests[r] = None => requests'[r] = None
    BY <2>1, TablesKept DEF Fresh
  <2>3. (requests[r] # None /\ requests[r].status # "pending") =>
           \/ requests'[r] = requests[r]
           \/ /\ requests'[r] = None
              /\ requests[r].status = "canceled" \/ Event \notin rows'
    BY <2>1, TablesKept
  <2>4. settlements[d] # None => settlements'[d] # None \/ Event \notin rows'
    BY TablesKept DEF Live
  <2>5. rows' \subseteq rows
    BY TablesKept
  <2>6. frame'[d].req = r
    OBVIOUS
  <2> HIDE DEF r
  <2>7. Endpoint[d] = "confirm" =>
          \/ Event \notin rows
          \/ requests[r] # None /\ requests[r].status = "confirmed" /\ settlements[d] # None
    BY <1>1 DEF DecisionStands, r
  <2>8. Endpoint[d] = "cancel" => requests[r] = None \/ requests[r].status = "canceled"
    BY <1>1 DEF DecisionStands, r
  <2> QED
    BY <2>1, <2>2, <2>3, <2>4, <2>5, <2>6, <2>7, <2>8 DEF DecisionStands
<1>3. CASE ~Decides(d)
  BY <1>3 DEF DecisionStands, Decides
<1> QED
  BY <1>2, <1>3

(* A call that writes now decides a request that nobody has decided yet. *)
LEMMA ToldStep ==
  ASSUME IInv, Told, NEW c \in Calls, Step(c), pc[c] # "done",
         NEW p \in Steps \ {"idle"}, pc' = [pc EXCEPT ![c] = p],
         p = "insertRequest" => pc[c] = "idle",
         NEW a, answer' = [answer EXCEPT ![c] = a],
         \A d \in Calls : frame'[d] = frame[d] \/ (d = c /\ pc[c] = "idle"),
         notices' \subseteq notices \cup {c},
         Event \notin rows' => notices' \subseteq {c},
         PathOK(c)',
         (Wrote(c)' /\ ~Wrote(c) /\ Decides(c)) =>
           /\ DecisionStands(c)'
           /\ frame'[c].req \in Calls
           /\ requests[frame'[c].req] # None
           /\ requests[frame'[c].req].status = "pending"
  PROVE  Told'
<1>1. ASSUME NEW d \in Calls \ {c}
      PROVE  /\ pc'[d] = pc[d] /\ answer'[d] = answer[d] /\ frame'[d] = frame[d]
             /\ Wrote(d)' <=> Wrote(d)
  BY <1>1 DEF IInv, TypeOK, Wrote
<1>2. ASSUME NEW d \in Calls PROVE PathOK(d)'
  <2>1. CASE d = c
    BY <2>1
  <2>2. CASE d # c
    <3>1. requests[d] = None => requests'[d] = None
      BY <2>2, TablesKept
    <3>2. settlements[d] = None => settlements'[d] = None
      BY <2>2, TablesKept
    <3>3. d \in notices' => d \in notices /\ Event \in rows'
      BY <2>2
    <3> QED
      BY <1>1, <2>2, <3>1, <3>2, <3>3 DEF Told, PathOK
  <2> QED
    BY <2>1, <2>2
<1>3. \A q \in Calls : pc[q] \notin Fresh => pc'[q] \notin Fresh
  BY DEF Fresh, IInv, TypeOK
<1>4. ASSUME NEW d \in Calls, Wrote(d)
      PROVE  frame'[d] = frame[d]
  BY <1>4 DEF Wrote, Told, PathOK
<1>5. ASSUME NEW d \in Calls, Wrote(d)'
      PROVE  DecisionStands(d)'
  <2>1. CASE Wrote(d)
    BY <1>3, <1>4, <2>1, StillStands
  <2>2. CASE ~Wrote(d) /\ Decides(d)
    BY <1>1, <1>5, <2>2
  <2>3. CASE ~Decides(d)
    BY <2>3 DEF DecisionStands, Decides
  <2> QED
    BY <2>1, <2>2, <2>3
<1>6. ASSUME NEW d \in Calls \ {c}, Wrote(d), Decides(d),
             Wrote(c)', ~Wrote(c), Decides(c)
      PROVE  frame'[c].req # frame'[d].req
  <2>1. DecisionStands(d) /\ frame'[d] = frame[d]
    BY <1>4, <1>6 DEF Told
  <2>2. /\ frame'[c].req \in Calls
        /\ requests[frame'[c].req] # None
        /\ requests[frame'[c].req].status = "pending"
    BY <1>6
  <2>3. Event \in rows
    BY <2>2 DEF IInv, ReferencesExist, Live, References
  <2> QED
    BY <1>6, <2>1, <2>2, <2>3 DEF DecisionStands, Decides
<1>7. OneDecider'
  <2>1. ASSUME NEW d \in Calls, NEW e \in Calls, d # e, Wrote(d)', Wrote(e)',
               Decides(d), Decides(e)
        PROVE  frame'[d].req # frame'[e].req
    <3>1. CASE Wrote(d) /\ Wrote(e)
      BY <1>4, <2>1, <3>1 DEF Told, OneDecider
    <3>2. CASE ~Wrote(d)
      BY <1>1, <1>6, <2>1, <3>2
    <3>3. CASE ~Wrote(e)
      BY <1>1, <1>6, <2>1, <3>3
    <3> QED
      BY <3>1, <3>2, <3>3
  <2> QED
    BY <2>1 DEF OneDecider, Decides
<1> QED
  BY <1>2, <1>5, <1>7 DEF Told

(* A lookup that succeeds: nothing is written yet. *)
LEMMA EnterTells ==
  ASSUME IInv, Told, NEW c \in Calls, Step(c), NEW f, NEW step,
         pc[c] = "idle", Enter(c, f, step),
         \/ step = "insertRequest" /\ Endpoint[c] = "create"
         \/ step = "insertDirect" /\ Endpoint[c] = "settle"
         \/ step = "lockRow" /\ Endpoint[c] = "delete"
         \/ step = "updateConfirm" /\ Endpoint[c] = "confirm"
         \/ step = "updateCancel" /\ Endpoint[c] = "cancel"
  PROVE  Told'
<1>1. /\ pc' = [pc EXCEPT ![c] = step] /\ pc'[c] = step
      /\ answer' = [answer EXCEPT ![c] = "none"] /\ answer'[c] = "none"
  BY DEF Enter, Goto, Told, PathOK, IInv, TypeOK
<1>2. PathOK(c)'
  BY <1>1 DEF Enter, Told, PathOK
<1>3. ~Wrote(c)'
  BY <1>1 DEF Wrote
<1>4. Event \notin rows' => notices' \subseteq {c}
  BY DEF Enter, Told, PathOK, IInv, TypeOK
<1> QED
  BY <1>1, <1>2, <1>3, <1>4, ToldStep DEF Enter, IInv, TypeOK, Steps

(* A reply without a write. *)
LEMMA ReplyTells ==
  ASSUME IInv, Told, NEW c \in Calls, Step(c), pc[c] # "done",
         NEW a \in {"refused", "error"},
         Reply(c, a),
         a = "refused" => pc[c] # "notify",
         UNCHANGED <<rows, requests, settlements, frame, notices>>
  PROVE  Told'
<1>1. /\ pc' = [pc EXCEPT ![c] = "done"] /\ pc'[c] = "done"
      /\ answer' = [answer EXCEPT ![c] = a] /\ answer'[c] = a
  BY DEF Reply, Goto, IInv, TypeOK
<1>2. PathOK(c)'
  BY <1>1 DEF Told, PathOK, IInv, RowsFresh
<1>3. ~Wrote(c)'
  BY <1>1 DEF Wrote
<1>4. Event \notin rows' => notices' \subseteq {c}
  BY DEF Told, PathOK, IInv, TypeOK
<1> QED
  BY <1>1, <1>2, <1>3, <1>4, ToldStep DEF IInv, TypeOK, Steps

(* A statement of an open transaction, or a row lock. *)
LEMMA LockTells ==
  ASSUME IInv, Told, NEW c \in Calls, Step(c), NEW step,
         \/ pc[c] = "updateConfirm" /\ step = "insertSettlement"
         \/ pc[c] = "insertSettlement" /\ step = "commit"
         \/ pc[c] = "lockRow" /\ step = "cascade",
         Goto(c, step),
         UNCHANGED <<rows, requests, settlements, frame, answer, notices>>
  PROVE  Told'
<1>1. /\ pc' = [pc EXCEPT ![c] = step] /\ pc'[c] = step
      /\ answer' = [answer EXCEPT ![c] = "none"] /\ answer'[c] = "none"
  BY DEF Goto, Told, PathOK, IInv, TypeOK
<1>2. PathOK(c)'
  BY <1>1 DEF Told, PathOK
<1>3. ~Wrote(c)'
  BY <1>1 DEF Wrote
<1>4. Event \notin rows' => notices' \subseteq {c}
  BY DEF Told, PathOK, IInv, TypeOK
<1> QED
  BY <1>1, <1>2, <1>3, <1>4, ToldStep DEF IInv, TypeOK, Steps

LEMMA CreateTells ==
  ASSUME IInv, Told, NEW c \in Calls, Step(c), CreateInsert(c)
  PROVE  Told'
<1>1. CASE Fail(c)
  BY <1>1, ReplyTells DEF CreateInsert, Fail
<1>2. CASE ~Fail(c)
  <2>1. /\ pc[c] = "insertRequest" /\ Endpoint[c] = "create"
        /\ pc' = [pc EXCEPT ![c] = "notify"] /\ pc'[c] = "notify"
        /\ UNCHANGED <<rows, settlements, frame, answer, notices>>
    BY <1>2 DEF CreateInsert, Goto, Told, PathOK, IInv, TypeOK
  <2>2. answer' = [answer EXCEPT ![c] = "none"] /\ answer'[c] = "none"
    BY <2>1 DEF Told, PathOK, IInv, TypeOK
  <2>3. PathOK(c)' /\ ~Decides(c)
    BY <2>1, <2>2 DEF Told, PathOK, Decides
  <2>4. Event \notin rows' => notices' \subseteq {c}
    BY <2>1 DEF Told, PathOK, IInv, TypeOK
  <2> QED
    BY <2>1, <2>2, <2>3, <2>4, ToldStep DEF IInv, TypeOK, Steps
<1> QED
  BY <1>1, <1>2

(* The decider held the request, or finds it pending. *)
LEMMA CommitTells ==
  ASSUME IInv, Told, NEW c \in Calls, Step(c), ConfirmCommit(c)
  PROVE  Told'
<1> DEFINE r == frame[c].req
<1>1. /\ pc[c] = "commit" /\ Endpoint[c] = "confirm" /\ r \in Calls
      /\ pc' = [pc EXCEPT ![c] = "notify"] /\ pc'[c] = "notify"
      /\ UNCHANGED <<rows, frame, answer, notices>>
  BY DEF ConfirmCommit, Goto, Told, PathOK, IInv, TypeOK, FramesOK, Deciding
<1>2. answer' = [answer EXCEPT ![c] = "none"] /\ answer'[c] = "none"
  BY <1>1 DEF Told, PathOK, IInv, TypeOK
<1>3. /\ requests[r] # None /\ requests[r].status = "pending"
      /\ requests[r] \in RequestRow /\ pc[r] \notin Fresh
  BY <1>1 DEF IInv, TypeOK, HeldRequestsPending, CopiesTrue, Deciding
<1>4. requests' = [requests EXCEPT ![r].status = "confirmed"]
  BY DEF ConfirmCommit
<1>5. requests'[r] # None /\ requests'[r].status = "confirmed"
  <2> HIDE DEF r
  <2> QED
    BY <1>1, <1>3, <1>4, StatusUpdate DEF IInv, TypeOK, Verdict
<1>6. settlements'[c] # None
  <2>1. Settlement(frame[c]) \in SettlementRow
    BY <1>1 DEF IInv, FramesOK, Deciding, Settlement, SettlementRow
  <2> QED
    BY <2>1, NoneAssumption DEF ConfirmCommit, IInv, TypeOK
<1>7. PathOK(c)'
  BY <1>1, <1>2 DEF Told, PathOK
<1>8. pc'[r] \notin Fresh /\ frame'[c].req = r
  BY <1>1, <1>3 DEF IInv, TypeOK, Fresh
<1>9. Event \notin rows' => notices' \subseteq {c}
  BY <1>1 DEF Told, PathOK, IInv, TypeOK
<1>10. DecisionStands(c)'
  <2> HIDE DEF r
  <2> QED
    BY <1>1, <1>5, <1>6, <1>8 DEF DecisionStands
<1> QED
  BY <1>1, <1>2, <1>3, <1>7, <1>8, <1>9, <1>10, ToldStep DEF IInv, TypeOK, Steps

LEMMA CancelTells ==
  ASSUME IInv, Told, NEW c \in Calls, Step(c), CancelUpdate(c)
  PROVE  Told'
<1> DEFINE r == frame[c].req
<1>1. CASE Refuse(c)
  BY <1>1, ReplyTells DEF CancelUpdate, Refuse
<1>2. CASE ~Refuse(c)
  <2>1. /\ pc[c] = "updateCancel" /\ Endpoint[c] = "cancel" /\ r \in Calls
        /\ pc' = [pc EXCEPT ![c] = "notify"] /\ pc'[c] = "notify"
        /\ UNCHANGED <<rows, settlements, frame, answer, notices>>
    BY <1>2 DEF CancelUpdate, Goto, Told, PathOK, IInv, TypeOK, FramesOK, Deciding
  <2>2. answer' = [answer EXCEPT ![c] = "none"] /\ answer'[c] = "none"
    BY <2>1 DEF Told, PathOK, IInv, TypeOK
  <2>3. /\ requests[r] # None /\ requests[r].status = "pending"
        /\ requests[r] \in RequestRow /\ pc[r] \notin Fresh
    BY <1>2, <2>1 DEF CancelUpdate, StillPending, IInv, TypeOK, CopiesTrue, Deciding
  <2>4. requests' = [requests EXCEPT ![r].status = "canceled"]
    BY <1>2 DEF CancelUpdate
  <2>5. requests'[r] # None /\ requests'[r].status = "canceled"
    <3> HIDE DEF r
    <3> QED
      BY <2>1, <2>3, <2>4, StatusUpdate DEF IInv, TypeOK, Verdict
  <2>6. PathOK(c)'
    BY <2>1, <2>2 DEF Told, PathOK
  <2>7. pc'[r] \notin Fresh /\ frame'[c].req = r
    BY <2>1, <2>3 DEF IInv, TypeOK, Fresh
  <2>8. Event \notin rows' => notices' \subseteq {c}
    BY <2>1 DEF Told, PathOK, IInv, TypeOK
  <2>9. DecisionStands(c)'
    <3> HIDE DEF r
    <3> QED
      BY <2>1, <2>5, <2>7 DEF DecisionStands
  <2> QED
    BY <2>1, <2>2, <2>3, <2>6, <2>7, <2>8, <2>9, ToldStep DEF IInv, TypeOK, Steps
<1> QED
  BY <1>1, <1>2

(* The last step of a settlement or of a removal, whatever it did to the   *)
(* tables: such a call decides nothing.                                    *)
LEMMA OkTells ==
  ASSUME IInv, Told, NEW c \in Calls, Step(c), Reply(c, "ok"),
         pc[c] \in {"insertDirect", "lockRow", "cascade"},
         UNCHANGED frame,
         notices' \subseteq notices,
         Event \notin rows' => rows' = rows \/ notices' = {}
  PROVE  Told'
<1>1. /\ pc' = [pc EXCEPT ![c] = "done"] /\ pc'[c] = "done"
      /\ answer' = [answer EXCEPT ![c] = "ok"] /\ answer'[c] = "ok"
      /\ c \notin notices
  BY DEF Reply, Goto, IInv, TypeOK, Told, PathOK
<1>2. Event \notin rows' => notices' = {}
  BY DEF Told, PathOK, IInv, TypeOK
<1>3. PathOK(c)' /\ ~Decides(c)
  BY <1>1, <1>2 DEF Told, PathOK, Decides
<1> QED
  BY <1>1, <1>2, <1>3, ToldStep DEF IInv, TypeOK, Steps

LEMMA SettleTells ==
  ASSUME IInv, Told, NEW c \in Calls, Step(c), SettleInsert(c)
  PROVE  Told'
BY OkTells, ReplyTells DEF SettleInsert, Fail

LEMMA DeleteTells ==
  ASSUME IInv, Told, NEW c \in Calls, Step(c),
         DeleteLock(c) \/ DeleteParticipant(c) \/ DeleteEvent(c)
  PROVE  Told'
<1>1. CASE DeleteLock(c)
  BY <1>1, OkTells, LockTells DEF DeleteLock
<1>2. CASE DeleteParticipant(c)
  <2>1. frame[c].target # Event
    BY <1>2, PRAssumption DEF DeleteParticipant
  <2> QED
    BY <1>2, <2>1, OkTells, ReplyTells
    DEF DeleteParticipant, Fail, Told, PathOK, IInv, TypeOK
<1>3. CASE DeleteEvent(c)
  BY <1>3, OkTells DEF DeleteEvent
<1> QED
  BY <1>1, <1>2, <1>3

(* Only a handler whose write is in the tables sends a notice. *)
LEMMA NotifyTells ==
  ASSUME IInv, Told, NEW c \in Calls, Step(c), Notify(c)
  PROVE  Told'
<1>1. /\ pc[c] = "notify" /\ Wrote(c)
      /\ pc' = [pc EXCEPT ![c] = "done"] /\ pc'[c] = "done"
      /\ answer' = [answer EXCEPT ![c] = "ok"] /\ answer'[c] = "ok"
      /\ UNCHANGED <<rows, requests, settlements, frame>>
      /\ notices' = notices \/ (notices' = notices \cup {c} /\ Event \in rows)
  BY DEF Notify, Reply, Goto, Wrote, IInv, TypeOK
<1>2. PathOK(c)'
  BY <1>1 DEF Told, PathOK
<1>3. Event \notin rows' => notices' \subseteq {c}
  BY <1>1 DEF Told, PathOK, IInv, TypeOK
<1> QED
  BY <1>1, <1>2, <1>3, ToldStep DEF IInv, TypeOK, Steps

LEMMA InitTells == Init => Told
BY DEF Init, Told, PathOK, Wrote, OneDecider

LEMMA RequestTells ==
  ASSUME IInv, Told, NEW c \in Calls, Step(c), Request(c)
  PROVE  Told'
<1>1. ASSUME NEW u, NEW payer, NEW receiver, NEW amount,
             \/ CreateLookup(c, u, payer, receiver, amount)
             \/ SettleLookup(c, u, payer, receiver, amount)
      PROVE  Told'
  BY <1>1, EnterTells, ReplyTells DEF CreateLookup, SettleLookup, Refuse
<1>2. ASSUME NEW u, NEW r, ConfirmLookup(c, u, r) \/ CancelLookup(c, u, r)
      PROVE  Told'
  BY <1>2, EnterTells, ReplyTells DEF ConfirmLookup, CancelLookup, DecideLookup, Refuse
<1>3. ASSUME NEW t, DeleteArrive(c, t)
      PROVE  Told'
  BY <1>3, EnterTells DEF DeleteArrive
<1> QED
  BY <1>1, <1>2, <1>3 DEF Request

LEMMA WriteTells ==
  ASSUME IInv, Told, NEW c \in Calls, Step(c), Write(c)
  PROVE  Told'
<1>1. CASE ConfirmUpdate(c)
  BY <1>1, LockTells, ReplyTells DEF ConfirmUpdate, Refuse
<1>2. CASE ConfirmInsert(c)
  BY <1>2, LockTells, ReplyTells DEF ConfirmInsert, Fail
<1> QED
  BY <1>1, <1>2, CreateTells, CommitTells, CancelTells, SettleTells, DeleteTells,
     NotifyTells DEF Write

LEMMA StepTells == IInv /\ Told /\ [Next]_vars => Told'
<1>1. ASSUME IInv, Told, NEW c \in Calls, Abort(c) \/ DeadlockAbort(c)
      PROVE  Told'
  <2>1. pc[c] # "done" /\ Fail(c)
    BY <1>1 DEF Abort, DeadlockAbort, Deadlocked, Free, WaitsFor
  <2> QED
    BY <1>1, <2>1, ReplyTells DEF Step, Fail
<1>2. ASSUME IInv, Told, UNCHANGED vars
      PROVE  Told'
  BY <1>2 DEF vars, Told, PathOK, Wrote, DecisionStands, OneDecider
<1> QED
  BY <1>1, <1>2, RequestTells, WriteTells DEF Next, Step

LEMMA AlwaysTold == Spec => [](IInv /\ Told)
<1>1. Spec => []IInv
  BY Invariant
<1> QED
  BY <1>1, InitTells, StepTells, PTL DEF Spec

(* A client that was told "ok" decided the request, alone, and the tables  *)
(* say so; one that was refused has written nothing.                       *)
THEOREM AnswersHold == Spec => []AnswersTrue
<1>1. IInv /\ Told => AnswersTrue
  BY DEF IInv, Told, AnswersTrue, PathOK, DecisionStands, OneDecider, Wrote, Decides
<1> QED
  BY <1>1, AlwaysTold, PTL

(* A notice of a decision is sent only for the decision that was made. *)
THEOREM NoticesHold == Spec => []NoticesTrue
<1>1. IInv /\ Told => NoticesTrue
  BY DEF IInv, TypeOK, Told, NoticesTrue, PathOK, DecisionStands, Wrote, Decides
<1> QED
  BY <1>1, AlwaysTold, PTL

-----------------------------------------------------------------------------
(* The handlers implement PaymentContract *)

(* What the contract sees of the tables. *)
StatusSeen == [r \in Calls |->
                 IF requests[r] = None THEN "none" ELSE requests[r].status]
TermsSeen == [r \in Calls |->
                IF requests[r] = None THEN None ELSE TermsOf(requests[r])]
EntriesOf(r) == {[entry |-> s, terms |-> TermsOf(settlements[s])]
                   : s \in SettlementsFor(r)}
LedgerSeen == [r \in Calls |-> EntriesOf(r)]

LEMMA InitImplements == Init => Book!Init
BY DEF Init, Book!Init, SettlementsFor, Live

LEMMA LedgerSame ==
  ASSUME UNCHANGED settlements
  PROVE  LedgerSeen' = LedgerSeen
BY DEF LedgerSeen, EntriesOf, SettlementsFor, Live

LEMMA TablesSame ==
  ASSUME UNCHANGED <<requests, settlements>>
  PROVE  UNCHANGED Book!cvars
<1>1. LedgerSeen' = LedgerSeen
  BY LedgerSame
<1>2. StatusSeen' = StatusSeen /\ TermsSeen' = TermsSeen
  BY DEF StatusSeen, TermsSeen
<1> QED
  BY <1>1, <1>2 DEF Book!cvars, StatusSeen, TermsSeen, LedgerSeen, EntriesOf

LEMMA CreateImplements ==
  ASSUME IInv, NEW c \in Calls, CreateInsert(c)
  PROVE  [Book!Next]_(Book!cvars)
<1>1. CASE Fail(c)
  BY <1>1, TablesSame DEF Fail
<1>2. CASE ~Fail(c)
  <2> DEFINE row == [payer |-> frame[c].payer, receiver |-> frame[c].receiver,
                     amount |-> frame[c].amount, status |-> "pending"]
  <2>0. PICK t \in [payer : Participants, receiver : Participants, amount : Amounts] :
              t = TermsOf(frame[c])
    BY DEF CreateInsert, IInv, FramesOK, TermsOf
  <2>1. /\ requests' = [requests EXCEPT ![c] = row]
        /\ UNCHANGED settlements
        /\ pc[c] = "insertRequest"
    BY <1>2 DEF CreateInsert
  <2>2. row # None /\ TermsOf(row) = t
    BY <2>0, <2>1, NoneAssumption DEF IInv, FramesOK, TermsOf, RequestRow
  <2>3. requests[c] = None
    BY <2>1 DEF IInv, RowsFresh, Fresh
  <2>4. row.status = "pending"
    OBVIOUS
  <2> HIDE DEF row
  <2>5. StatusSeen[c] = "none" /\ StatusSeen' = [StatusSeen EXCEPT ![c] = "pending"]
    BY <2>1, <2>2, <2>3, <2>4 DEF StatusSeen, IInv, TypeOK
  <2>6. TermsSeen' = [TermsSeen EXCEPT ![c] = t]
    BY <2>1, <2>2 DEF TermsSeen, IInv, TypeOK
  <2>7. LedgerSeen' = LedgerSeen
    BY <2>1, LedgerSame
  <2>8. Book!Propose(c, t)
    BY <2>5, <2>6, <2>7
    DEF Book!Propose, StatusSeen, TermsSeen, LedgerSeen, EntriesOf
  <2> QED
    BY <2>8 DEF Book!Next
<1> QED
  BY <1>1, <1>2

LEMMA CancelImplements ==
  ASSUME IInv, NEW c \in Calls, CancelUpdate(c)
  PROVE  [Book!Next]_(Book!cvars)
<1>1. CASE Refuse(c)
  BY <1>1, TablesSame DEF Refuse
<1>2. CASE ~Refuse(c)
  <2>0. PICK r \in Calls : r = frame[c].req
    BY DEF CancelUpdate, IInv, FramesOK, Deciding
  <2>1. /\ requests' = [requests EXCEPT ![r].status = "canceled"]
        /\ UNCHANGED settlements
        /\ StillPending(r)
    BY <1>2, <2>0 DEF CancelUpdate
  <2>2. /\ requests[r] \in RequestRow
        /\ requests[r] # None
        /\ requests[r].status = "pending"
    BY <2>1 DEF StillPending, IInv, TypeOK
  <2>3. /\ requests'[r] \in RequestRow
        /\ requests'[r].status = "canceled"
        /\ TermsOf(requests'[r]) = TermsOf(requests[r])
        /\ \A q \in Calls : q # r => requests'[q] = requests[q]
    BY <2>1, <2>2 DEF IInv, TypeOK, RequestRow, Verdict, TermsOf
  <2>4. requests'[r] # None
    BY <2>3, NoneAssumption
  <2>5. /\ StatusSeen[r] = "pending"
        /\ StatusSeen' = [StatusSeen EXCEPT ![r] = "canceled"]
    BY <2>2, <2>3, <2>4 DEF StatusSeen
  <2>6. TermsSeen' = TermsSeen
    BY <2>2, <2>3, <2>4 DEF TermsSeen
  <2>7. LedgerSeen' = LedgerSeen
    BY <2>1, LedgerSame
  <2>8. Book!Cancel(r)
    BY <2>5, <2>6, <2>7
    DEF Book!Cancel, StatusSeen, TermsSeen, LedgerSeen, EntriesOf
  <2> QED
    BY <2>8 DEF Book!Next
<1> QED
  BY <1>1, <1>2

(* The commit is the one step that decides and enters the ledger. *)
LEMMA ConfirmImplements ==
  ASSUME IInv, NEW c \in Calls, ConfirmCommit(c)
  PROVE  [Book!Next]_(Book!cvars)
<1>0. PICK r \in Calls : r = frame[c].req
  BY DEF ConfirmCommit, IInv, FramesOK, Deciding
<1>00. PICK s : s = Settlement(frame[c])
  OBVIOUS
<1>1. /\ requests' = [requests EXCEPT ![r].status = "confirmed"]
      /\ settlements' = [settlements EXCEPT ![c] = s]
      /\ pc[c] = "commit"
  BY <1>0, <1>00 DEF ConfirmCommit
<1>2. /\ requests[r] \in RequestRow
      /\ requests[r] # None
      /\ requests[r].status = "pending"
  BY <1>0, <1>1 DEF IInv, TypeOK, HeldRequestsPending
<1>3. /\ requests'[r] \in RequestRow
      /\ requests'[r].status = "confirmed"
      /\ TermsOf(requests'[r]) = TermsOf(requests[r])
      /\ \A q \in Calls : q # r => requests'[q] = requests[q]
  BY <1>1, <1>2 DEF IInv, TypeOK, RequestRow, Verdict, TermsOf
<1>4. /\ TermsOf(s) = TermsOf(requests[r])
      /\ s.origin = r
      /\ s # None
  <2>1. s \in SettlementRow
    BY <1>00, <1>1 DEF IInv, FramesOK, Deciding, Settlement, SettlementRow
  <2>2. TermsOf(requests[r]) = TermsOf(frame[c])
    BY <1>0, <1>1, <1>2 DEF IInv, CopiesTrue, Deciding
  <2> QED
    BY <1>0, <1>00, <2>1, <2>2, NoneAssumption DEF TermsOf, Settlement
<1>5. settlements[c] = None
  BY <1>1 DEF IInv, RowsFresh
<1>6. SettlementsFor(r) = {}
  <2>1. ASSUME NEW d \in SettlementsFor(r)
        PROVE  FALSE
    <3>1. d \in Live(settlements) /\ settlements[d].origin = r
      BY DEF SettlementsFor
    <3>2. r # None
      BY <1>1, PRAssumption
    <3>3. requests[settlements[d].origin].status = "confirmed"
      BY <3>1, <3>2 DEF IInv, ConfirmedIffSettledOnce
    <3> QED
      BY <1>2, <3>1, <3>3
  <2> QED
    BY <2>1
<1>7. requests'[r] # None
  BY <1>3, NoneAssumption
<1>8. /\ StatusSeen[r] = "pending"
      /\ StatusSeen' = [StatusSeen EXCEPT ![r] = "confirmed"]
  BY <1>2, <1>3, <1>7 DEF StatusSeen
<1>9. /\ TermsSeen' = TermsSeen
      /\ TermsSeen[r] = TermsOf(requests[r])
  BY <1>2, <1>3, <1>7 DEF TermsSeen
<1>10. LedgerSeen' = [LedgerSeen EXCEPT ![r] = {[entry |-> c, terms |-> TermsSeen[r]]}]
  <2>1. settlements'[c] = s /\ \A d \in Calls : d # c => settlements'[d] = settlements[d]
    BY <1>1 DEF IInv, TypeOK
  <2>2. SettlementsFor(r)' = {c}
    <3>1. \A d \in Calls : d # c => d \notin SettlementsFor(r)'
      BY <1>6, <2>1 DEF SettlementsFor, Live
    <3>1a. c \in SettlementsFor(r)'
      BY <1>4, <2>1 DEF SettlementsFor, Live
    <3>2. SettlementsFor(r)' \subseteq Calls
      BY DEF SettlementsFor, Live
    <3> QED
      BY <3>1, <3>1a, <3>2
  <2>3. EntriesOf(r)' = {[entry |-> c, terms |-> TermsSeen[r]]}
    BY <1>4, <1>9, <2>1, <2>2 DEF EntriesOf
  <2>4. ASSUME NEW q \in Calls, q # r
        PROVE  EntriesOf(q)' = EntriesOf(q)
    <3>1. SettlementsFor(q)' = SettlementsFor(q) /\ c \notin SettlementsFor(q)
      BY <1>4, <1>5, <2>1, <2>4 DEF SettlementsFor, Live
    <3>2. \A d \in SettlementsFor(q) : settlements'[d] = settlements[d]
      BY <2>1, <3>1 DEF SettlementsFor, Live
    <3> QED
      BY <3>1, <3>2 DEF EntriesOf
  <2> QED
    <3> DEFINE L == [LedgerSeen EXCEPT ![r] = {[entry |-> c, terms |-> TermsSeen[r]]}]
    <3>1. \A q \in Calls : EntriesOf(q)' = L[q]
      BY <2>3, <2>4 DEF LedgerSeen
    <3>2. L = [q \in Calls |-> L[q]]
      BY DEF LedgerSeen
    <3> QED
      BY <3>1, <3>2 DEF LedgerSeen
<1>11. Book!Confirm(r, c)
  BY <1>8, <1>9, <1>10
  DEF Book!Confirm, StatusSeen, TermsSeen, LedgerSeen, EntriesOf
<1> QED
  BY <1>11 DEF Book!Next

(* A direct settlement is no entry for any request. *)
LEMMA SettleImplements ==
  ASSUME IInv, NEW c \in Calls, SettleInsert(c)
  PROVE  UNCHANGED Book!cvars
<1>1. CASE Fail(c)
  BY <1>1, TablesSame DEF Fail
<1>2. CASE ~Fail(c)
  <2>1. /\ settlements' = [settlements EXCEPT ![c] = Settlement(frame[c])]
        /\ UNCHANGED requests
        /\ settlements[c] = None
        /\ Settlement(frame[c]).origin = None
    BY <1>2 DEF SettleInsert, Settlement, IInv, FramesOK, RowsFresh
  <2>2. \A d \in Calls : d # c => settlements'[d] = settlements[d]
    BY <2>1 DEF IInv, TypeOK
  <2>3. settlements'[c].origin = None
    BY <2>1 DEF IInv, TypeOK
  <2>4. ASSUME NEW r \in Calls
        PROVE  EntriesOf(r)' = EntriesOf(r)
    <3>1. SettlementsFor(r)' = SettlementsFor(r) /\ c \notin SettlementsFor(r)
      BY <2>1, <2>2, <2>3, PRAssumption DEF SettlementsFor, Live
    <3>2. \A d \in SettlementsFor(r) : settlements'[d] = settlements[d]
      BY <2>2, <3>1 DEF SettlementsFor, Live
    <3> QED
      BY <3>1, <3>2 DEF EntriesOf
  <2>5. LedgerSeen' = LedgerSeen
    BY <2>4 DEF LedgerSeen
  <2>6. StatusSeen' = StatusSeen /\ TermsSeen' = TermsSeen
    BY <2>1 DEF StatusSeen, TermsSeen
  <2> QED
    BY <2>5, <2>6 DEF Book!cvars, StatusSeen, TermsSeen, LedgerSeen, EntriesOf
<1> QED
  BY <1>1, <1>2

(* What a removal takes along was never paid. *)
LEMMA RemovalImplements ==
  ASSUME IInv, NEW c \in Calls, DeleteParticipant(c)
  PROVE  [Book!Next]_(Book!cvars)
<1>1. CASE Fail(c)
  BY <1>1, TablesSame DEF Fail
<1>2. CASE ~Fail(c)
  <2>0. PICK R \in SUBSET Calls : R = RequestsOf(frame[c].target)
    BY DEF RequestsOf, Live
  <2>1. /\ requests' = [r \in Calls |-> IF r \in R THEN None ELSE requests[r]]
        /\ UNCHANGED settlements
    BY <1>2, <2>0 DEF DeleteParticipant
  <2>2. ASSUME NEW r \in R
        PROVE  StatusSeen[r] \in {"pending", "canceled"}
    <3>1. /\ requests[r] # None
          /\ requests[r] \in RequestRow
      BY <2>0 DEF RequestsOf, Live, IInv, TypeOK
    <3>2. requests[r].status # "confirmed"
      <4>1. r \in Calls /\ requests'[r] = None /\ Event \in rows'
        BY <2>0, <2>1, <3>1, <1>2, PRAssumption
        DEF DeleteParticipant, IInv, ReferencesExist, RequestsOf, Live, References
      <4>2. TableWrite(c)
        BY DEF TableWrite
      <4> QED
        BY <3>1, <4>1, <4>2, DecidedKept
    <3> QED
      BY <3>1, <3>2 DEF StatusSeen, RequestRow, Verdict
  <2>3. StatusSeen' = [r \in Calls |-> IF r \in R THEN "none" ELSE StatusSeen[r]]
    BY <2>1 DEF StatusSeen
  <2>4. TermsSeen' = [r \in Calls |-> IF r \in R THEN None ELSE TermsSeen[r]]
    BY <2>1 DEF TermsSeen
  <2>5. LedgerSeen' = LedgerSeen
    BY <2>1, LedgerSame
  <2>6. Book!Withdraw(R)
    BY <2>3, <2>4, <2>5
    DEF Book!Withdraw, StatusSeen, TermsSeen, LedgerSeen, EntriesOf
  <2>7. R \in SUBSET Book!Unpaid
    BY <2>2 DEF Book!Unpaid, StatusSeen
  <2> QED
    BY <2>6, <2>7 DEF Book!Next
<1> QED
  BY <1>1, <1>2

LEMMA DeletionImplements ==
  ASSUME IInv, NEW c \in Calls, DeleteEvent(c)
  PROVE  [Book!Next]_(Book!cvars)
<1>1. /\ requests' = [r \in Calls |-> None]
      /\ settlements' = [s \in Calls |-> None]
  BY DEF DeleteEvent
<1>2. LedgerSeen' = [r \in Calls |-> {}]
  BY <1>1 DEF LedgerSeen, EntriesOf, SettlementsFor, Live
<1>3. /\ StatusSeen' = [r \in Calls |-> "none"]
      /\ TermsSeen' = [r \in Calls |-> None]
  BY <1>1 DEF StatusSeen, TermsSeen
<1>4. Book!CloseBook
  BY <1>2, <1>3 DEF Book!CloseBook, StatusSeen, TermsSeen, LedgerSeen, EntriesOf
<1> QED
  BY <1>4 DEF Book!Next

LEMMA NextImplements == IInv /\ [Next]_vars => [Book!Next]_(Book!cvars)
<1>1. ASSUME IInv, NEW c \in Calls, TableWrite(c)
      PROVE  [Book!Next]_(Book!cvars)
  BY <1>1, CreateImplements, ConfirmImplements, CancelImplements,
     SettleImplements, RemovalImplements, DeletionImplements DEF TableWrite
<1>2. ASSUME IInv, NEW c \in Calls,
             Request(c) \/ Write(c) \/ Abort(c) \/ DeadlockAbort(c)
      PROVE  [Book!Next]_(Book!cvars)
  BY <1>1, <1>2, TablesChange, TablesSame
<1>3. ASSUME UNCHANGED vars
      PROVE  UNCHANGED Book!cvars
  BY <1>3, TablesSame DEF vars
<1> QED
  BY <1>2, <1>3 DEF Next

(* Handlers, locks, crashes and races notwithstanding, the committed rows  *)
(* behave as the contract says.                                            *)
THEOREM Implements == Spec => ImplementsContract
<1>1. Spec => Book!Spec
  BY InitImplements, NextImplements, Invariant, PTL DEF Spec, Book!Spec
<1> QED
  BY <1>1 DEF ImplementsContract

=============================================================================
