-------------------------- MODULE Registration_proofs --------------------------
(***************************************************************************)
(* Proofs about Registration, for any number of overlapping calls.         *)
(* A code comes into the world at one step of the request or resend it is  *)
(* named after, which keeps it.  So every code that is stored, mailed or   *)
(* in a handler's hands was generated, and a confirmation gets beyond its  *)
(* check only with such a code.                                            *)
(***************************************************************************)
EXTENDS Registration, FiniteSetTheorems, TLAPS

(* What the proofs use of the types. *)
Typed ==
  /\ account \in Calls \cup {None}
  /\ otp \in Calls \cup {None}
  /\ mailed \subseteq Calls /\ outbox \subseteq Calls
  /\ pc \in [Calls -> Steps]
  /\ code \in [Calls -> Calls \cup {None}]
  /\ answer \in [Calls -> {"none", "ok", "refused", "error"}]

(* A handler only passes the steps of its endpoint, and answers at the end. *)
PathOK(c) ==
  /\ pc[c] \in {"createUser", "deleteOTP"} => Endpoint[c] = "confirm"
  /\ pc[c] \in {"setOTP", "count", "expire", "getOTP", "mail"} =>
       Endpoint[c] # "confirm"
  /\ pc[c] \in {"count", "expire", "getOTP"} => Endpoint[c] = "resend"
  /\ pc[c] # "done" => answer[c] = "none"

(* A code that is stored, mailed, sent again or confirmed was generated. *)
CodesGenerated ==
  /\ otp # None => Generated(otp)
  /\ \A k \in mailed \cup outbox : Generated(k)
  /\ \A c \in Calls :
       pc[c] \in {"setOTP", "mail", "createUser", "deleteOTP"} =>
         code[c] # None /\ Generated(code[c])

(* Before it generates a code, a call has none. *)
CodesFresh ==
  \A c \in Calls :
    pc[c] \in {"idle", "count", "expire", "getOTP"} => code[c] = None

(* Who is past the insertion inserted the account. *)
Inserted ==
  /\ \A c \in Calls :
       pc[c] = "deleteOTP" \/ (answer[c] = "ok" /\ Endpoint[c] = "confirm") =>
         account = c
  /\ account # None =>
       /\ pc[account] \in {"deleteOTP", "done"}
       /\ code[account] # None /\ Generated(code[account])

IInv ==
  Typed /\ (\A c \in Calls : PathOK(c)) /\ CodesGenerated /\ CodesFresh /\ Inserted

-----------------------------------------------------------------------------

LEMMA InitInvariant == Init => IInv
BY RGAssumption
DEF Init, IInv, Typed, Steps, PathOK, CodesGenerated, CodesFresh, Inserted

(* The handler of c goes on to p, or answers a, with the code k.  What the  *)
(* step must observe for the invariant: the path of its endpoint, a code   *)
(* that was generated, or its own if it has none yet, and an account that  *)
(* it inserted itself.                                                     *)
Moves(c, p, k, a) ==
  /\ pc[c] # "done" /\ p # "idle"
  /\ pc' = [pc EXCEPT ![c] = p]
  /\ code' = [code EXCEPT ![c] = k]
  /\ answer' = [answer EXCEPT ![c] = a]
  /\ PathOK(c)'
  /\ Generated(c) => k = code[c]
  /\ p \in {"setOTP", "mail", "createUser", "deleteOTP"} =>
       k # None /\ Generated(k)'
  /\ p \in {"count", "expire", "getOTP"} => k = None
  /\ mailed' = mailed
  /\ \/ otp' \in {otp, None} /\ outbox' = outbox
     \/ /\ k # None /\ Generated(k)'
        /\ otp' \in {otp, k} /\ outbox' \in {outbox, outbox \cup {k}}
  /\ account' \in {account, c}
  /\ account' # account => p = "deleteOTP" /\ account = None
  /\ p = "deleteOTP" => account' = c
  /\ a = "ok" /\ Endpoint[c] = "confirm" => account' = c
  /\ account = c => p \in {"deleteOTP", "done"} /\ k = code[c]

LEMMA StepPreserves ==
  ASSUME IInv, NEW c \in Calls, NEW p \in Steps, NEW k \in Calls \cup {None},
         NEW a \in {"none", "ok", "refused", "error"},
         Moves(c, p, k, a)
  PROVE  IInv'
<1> USE RGAssumption DEF Moves
<1>1. Typed'
  BY DEF IInv, Typed
<1>2. ASSUME NEW g \in Calls, Generated(g)
      PROVE  Generated(g)'
  BY <1>2 DEF IInv, Typed, Generated
<1>3. \A d \in Calls : PathOK(d)'
  BY DEF IInv, Typed, PathOK
<1>4. CodesGenerated'
  <2>1. otp' # None => Generated(otp)'
    BY <1>2 DEF IInv, Typed, CodesGenerated
  <2>2. ASSUME NEW g \in mailed' \cup outbox'
        PROVE  Generated(g)'
    BY <1>2, <2>2 DEF IInv, Typed, CodesGenerated
  <2>3. ASSUME NEW d \in Calls,
               pc'[d] \in {"setOTP", "mail", "createUser", "deleteOTP"}
        PROVE  code'[d] # None /\ Generated(code[d])'
    <3>1. CASE d = c
      BY <2>3, <3>1 DEF IInv, Typed
    <3>2. CASE d # c
      <4>1. pc'[d] = pc[d] /\ code'[d] = code[d]
        BY <3>2 DEF IInv, Typed
      <4>2. code[d] \in Calls /\ Generated(code[d])
        BY <2>3, <4>1 DEF IInv, Typed, CodesGenerated
      <4> QED
        BY <1>2, <4>1, <4>2 DEF Generated
    <3> QED
      BY <3>1, <3>2
  <2> QED
    BY <2>1, <2>2, <2>3 DEF CodesGenerated
<1>5. CodesFresh'
  BY DEF IInv, Typed, CodesFresh
<1>6. Inserted'
  <2>1. ASSUME NEW d \in Calls,
               \/ pc'[d] = "deleteOTP"
               \/ answer'[d] = "ok" /\ Endpoint[d] = "confirm"
        PROVE  account' = d
    <3>1. CASE d = c
      BY <2>1, <3>1 DEF IInv, Typed
    <3>2. CASE d # c
      BY <2>1, <3>2 DEF IInv, Typed, Inserted
    <3> QED
      BY <3>1, <3>2
  <2>2. CASE account' # account
    <3>1. /\ account' = c /\ pc'[c] = "deleteOTP"
          /\ code'[c] = k /\ k # None /\ Generated(k)'
      BY <2>2 DEF IInv, Typed
    <3> QED
      BY <2>1, <3>1 DEF Inserted, Generated
  <2>3. CASE account' = account /\ account # None
    <3>1. account \in Calls /\ code[account] \in Calls /\ Generated(code[account])
      BY <2>3 DEF IInv, Typed, Inserted
    <3>2. pc'[account] \in {"deleteOTP", "done"} /\ code'[account] = code[account]
      BY <2>3, <3>1 DEF IInv, Typed, Inserted
    <3>3. Generated(code[account])'
      BY <1>2, <2>3, <3>1, <3>2 DEF Generated
    <3> QED
      BY <2>1, <2>3, <3>1, <3>2, <3>3 DEF Inserted
  <2>4. CASE account' = account /\ account = None
    BY <2>1, <2>4 DEF Inserted
  <2> QED
    BY <2>2, <2>3, <2>4
<1> QED
  BY <1>1, <1>3, <1>4, <1>5, <1>6 DEF IInv

(* The steps of a request or a resend. *)
LEMMA SendingPreserves ==
  ASSUME IInv, NEW c \in Calls,
         \/ Lookup(c) \/ Count(c) \/ Expire(c) \/ GetOTP(c) \/ SetOTP(c) \/ Mail(c)
  PROVE  IInv'
<1> USE RGAssumption DEF Goto, Reply, Keep
<1>0. PathOK(c) /\ (account = c => pc[c] \in {"deleteOTP", "done"})
  BY DEF IInv, Inserted, Typed
<1>1. CASE Lookup(c)
  <2>1. PICK p \in {"done", "setOTP", "count"}, k \in {None, c},
             a \in {"none", "refused"} :
          /\ pc' = [pc EXCEPT ![c] = p]
          /\ code' = [code EXCEPT ![c] = k]
          /\ answer' = [answer EXCEPT ![c] = a]
          /\ p = "setOTP" => k = c /\ Endpoint[c] = "request"
          /\ p = "count" => k = None /\ Endpoint[c] = "resend"
          /\ p # "done" => a = "none"
    BY <1>0, <1>1 DEF IInv, Typed, Lookup, CodesFresh, PathOK
  <2>2. Generated(k)' \/ p # "setOTP"
    BY <2>1 DEF IInv, Typed, Generated
  <2>3. Moves(c, p, k, a)
    BY <1>0, <1>1, <2>1, <2>2
    DEF Moves, Lookup, IInv, Typed, PathOK, CodesFresh, Generated, redis, mails
  <2> QED
    BY <2>3, StepPreserves DEF IInv, Typed, Steps
<1>2. CASE Count(c) \/ Expire(c)
  <2>1. PICK p \in {"done", "expire", "getOTP"}, a \in {"none", "refused"} :
          /\ pc' = [pc EXCEPT ![c] = p]
          /\ answer' = [answer EXCEPT ![c] = a]
          /\ p # "done" => a = "none"
    BY <1>0, <1>2 DEF IInv, Typed, Count, Expire, PathOK
  <2>2. Moves(c, p, None, a)
    BY <1>0, <1>2, <2>1
    DEF Moves, Count, Expire, IInv, Typed, PathOK, CodesFresh, Generated, mails
  <2> QED
    BY <2>2, StepPreserves DEF IInv, Typed, Steps
<1>3. CASE GetOTP(c)
  <2>1. PICK k \in Calls :
          /\ k = IF otp = None THEN c ELSE otp
          /\ code' = [code EXCEPT ![c] = k]
    BY <1>3 DEF GetOTP, IInv, Typed
  <2>2. Generated(k)'
    BY <1>0, <1>3, <2>1
    DEF GetOTP, Generated, IInv, Typed, CodesGenerated, CodesFresh, PathOK
  <2>3. Moves(c, "setOTP", k, "none")
    BY <1>0, <1>3, <2>1, <2>2
    DEF Moves, GetOTP, IInv, Typed, PathOK, CodesFresh, Generated, redis, mails
  <2> QED
    BY <2>3, StepPreserves DEF IInv, Typed, Steps
<1>4. CASE SetOTP(c) \/ Mail(c)
  <2>1. PICK p \in {"done", "mail"}, a \in {"none", "ok", "error"} :
          /\ pc' = [pc EXCEPT ![c] = p]
          /\ answer' = [answer EXCEPT ![c] = a]
          /\ p # "done" => a = "none"
    BY <1>0, <1>4 DEF IInv, Typed, SetOTP, Mail, PathOK
  <2>2. code[c] \in Calls /\ Generated(code[c]) /\ code' = code
    BY <1>4 DEF SetOTP, Mail, IInv, Typed, CodesGenerated
  <2>3. code' = [code EXCEPT ![c] = code[c]] /\ Generated(code[c])'
    BY <2>2 DEF IInv, Typed, Generated
  <2>4. account' = account /\ PathOK(c)' /\ mailed' = mailed
    BY <1>0, <1>4, <2>1 DEF SetOTP, Mail, IInv, Typed, PathOK, mails
  <2>5. /\ otp' \in {otp, code[c]}
        /\ outbox' \in {outbox, outbox \cup {code[c]}}
    BY <1>4 DEF SetOTP, Mail, redis, mails
  <2>6. Endpoint[c] # "confirm" /\ account # c
    BY <1>0, <1>4 DEF SetOTP, Mail, PathOK
  <2>7. Moves(c, p, code[c], a)
    BY <1>4, <2>1, <2>2, <2>3, <2>4, <2>5, <2>6 DEF Moves, SetOTP, Mail
  <2> QED
    BY <2>7, StepPreserves DEF IInv, Typed, Steps
<1> QED
  BY <1>1, <1>2, <1>3, <1>4

(* The steps of a confirmation. *)
LEMMA ConfirmingPreserves ==
  ASSUME IInv, NEW c \in Calls,
         \/ \E k \in Calls : CheckCode(c, k)
         \/ CreateUser(c) \/ DeleteOTP(c) \/ Abort(c)
  PROVE  IInv'
<1> USE RGAssumption DEF Goto, Reply, Keep
<1>1. ASSUME NEW k \in Calls, CheckCode(c, k)
      PROVE  IInv'
  <2>1. PICK p \in {"done", "createUser"}, a \in {"none", "error"} :
          /\ pc' = [pc EXCEPT ![c] = p]
          /\ answer' = [answer EXCEPT ![c] = a]
          /\ p # "done" => a = "none" /\ otp = k
    BY <1>1 DEF IInv, Typed, CheckCode, PathOK, Matches
  <2>2. p # "done" => Generated(k)'
    BY <1>1, <2>1 DEF CheckCode, IInv, Typed, CodesGenerated, CodesFresh, Generated
  <2>3. Moves(c, p, k, a)
    BY <1>1, <2>1, <2>2
    DEF Moves, CheckCode, IInv, Typed, PathOK, Inserted, Generated, redis, mails
  <2> QED
    BY <2>3, StepPreserves DEF IInv, Typed, Steps
<1>2. CASE CreateUser(c)
  <2>1. PICK p \in {"done", "deleteOTP"}, a \in {"none", "error"} :
          /\ pc' = [pc EXCEPT ![c] = p]
          /\ answer' = [answer EXCEPT ![c] = a]
          /\ p # "done" => a = "none" /\ account = None /\ account' = c
          /\ p = "done" => a = "error" /\ account' = account
    BY <1>2 DEF IInv, Typed, CreateUser, PathOK, Registered
  <2>2. code[c] \in Calls /\ Generated(code[c]) /\ code' = code
    BY <1>2 DEF CreateUser, IInv, Typed, CodesGenerated
  <2>3. Moves(c, p, code[c], a)
    BY <1>2, <2>1, <2>2
    DEF Moves, CreateUser, IInv, Typed, PathOK, Inserted, Generated, redis, mails
  <2> QED
    BY <2>3, StepPreserves DEF IInv, Typed, Steps
<1>3. CASE DeleteOTP(c)
  <2>1. Moves(c, "done", code[c], "ok")
    BY <1>3
    DEF Moves, DeleteOTP, IInv, Typed, PathOK, Inserted, Generated, mails
  <2> QED
    BY <2>1, StepPreserves DEF IInv, Typed, Steps
<1>4. CASE Abort(c)
  <2>1. Moves(c, "done", code[c], "error")
    BY <1>4
    DEF Moves, Abort, IInv, Typed, PathOK, Inserted, Generated, redis, mails
  <2> QED
    BY <2>1, StepPreserves DEF IInv, Typed, Steps
<1> QED
  BY <1>1, <1>2, <1>3, <1>4

(* The mail server and the timers. *)
LEMMA OutsidePreserves ==
  ASSUME IInv, Deliver \/ OTPExpires \/ WindowEnds \/ UNCHANGED vars
  PROVE  IInv'
<1>1. /\ UNCHANGED <<account, local>> /\ otp' \in {otp, None}
      /\ mailed' \cup outbox' \subseteq mailed \cup outbox
  BY DEF Deliver, OTPExpires, WindowEnds, vars, redis, mails, IInv, Typed
<1>2. /\ \A c \in Calls : PathOK(c)'
      /\ Typed' /\ CodesFresh' /\ Inserted'
  BY <1>1
  DEF local, IInv, Typed, PathOK, CodesFresh, Inserted, Generated
<1>3. CodesGenerated'
  BY <1>1 DEF local, IInv, Typed, CodesGenerated, Generated
<1> QED
  BY <1>2, <1>3 DEF IInv

LEMMA NextPreserves == IInv /\ [Next]_vars => IInv'
BY SendingPreserves, ConfirmingPreserves, OutsidePreserves DEF Next

THEOREM Invariant == Spec => []IInv
BY InitInvariant, NextPreserves, PTL DEF Spec

(* No order of confirmations, resends, expiries and lost or late mails     *)
(* makes an account from anything but a code that a request or a resend    *)
(* for the address generated.                                              *)
THEOREM VerifiedFirst == Spec => []AccountVerified
<1>1. IInv => AccountVerified
  BY DEF IInv, Inserted, AccountVerified
<1> QED
  BY <1>1, Invariant, PTL

(* Of any number of confirmations, however many present the same code, one *)
(* at most is answered "ok": the one whose INSERT made the account.        *)
THEOREM ConfirmedOnce == Spec => []OneConfirmation
<1>1. IInv => OneConfirmation
  BY DEF IInv, Inserted, OneConfirmation
<1> QED
  BY <1>1, Invariant, PTL

-----------------------------------------------------------------------------
(* The resends that have incremented the counter. *)
Counted == {c \in ResendCalls : pc[c] \notin {"idle", "count"}}

(* The counter has been incremented once by each of them at most. *)
Counter ==
  /\ resends \in Nat /\ resends <= Cardinality(Counted)
  /\ count \in [Calls -> 0 .. Cardinality(ResendCalls)]
  /\ timed \in BOOLEAN /\ (timed => resends > 0)

(* The sets that are counted are finite. *)
LEMMA CountedFinite ==
  /\ IsFiniteSet(Counted) /\ IsFiniteSet(Counted') /\ IsFiniteSet(ResendCalls)
  /\ Cardinality(Counted) \in Nat /\ Cardinality(Counted') \in Nat
  /\ Cardinality(ResendCalls) \in Nat
  /\ Cardinality(Counted') <= Cardinality(ResendCalls)
  /\ Cardinality(Counted) <= Cardinality(ResendCalls)
<1>1. /\ Counted \subseteq ResendCalls /\ Counted' \subseteq ResendCalls
      /\ ResendCalls \subseteq Calls
  BY DEF Counted, ResendCalls
<1>2. IsFiniteSet(ResendCalls)
  BY <1>1, RGAssumption, FS_Subset
<1> QED
  BY <1>1, <1>2, FS_Subset, FS_CardinalityType

(* A handler that has counted does not come before its count again. *)
LEMMA CountedGrows == IInv /\ [Next]_vars => Counted \subseteq Counted'
<1> SUFFICES ASSUME IInv, [Next]_vars, NEW d \in Calls, pc[d] \notin {"idle", "count"}
             PROVE  pc'[d] \notin {"idle", "count"}
  BY DEF Counted, ResendCalls
<1>1. ASSUME NEW c \in Calls, NEW s \in Steps,
             pc' = [pc EXCEPT ![c] = s], pc[c] = "idle" \/ s # "count", s # "idle"
      PROVE  pc'[d] \notin {"idle", "count"}
  BY <1>1 DEF IInv, Typed
<1>2. ASSUME NEW c \in Calls,
             \/ Lookup(c) \/ Count(c) \/ Expire(c) \/ GetOTP(c) \/ SetOTP(c) \/ Mail(c)
             \/ \E k \in Calls : CheckCode(c, k)
             \/ CreateUser(c) \/ DeleteOTP(c) \/ Abort(c)
      PROVE  pc'[d] \notin {"idle", "count"}
  <2>1. PICK s \in Steps :
          pc' = [pc EXCEPT ![c] = s] /\ (pc[c] = "idle" \/ s # "count") /\ s # "idle"
    BY <1>2
    DEF Lookup, Count, Expire, GetOTP, SetOTP, Mail, CheckCode, CreateUser, DeleteOTP,
        Abort, Goto, Reply, Steps
  <2> QED
    BY <1>1, <2>1
<1>3. CASE Deliver \/ OTPExpires \/ WindowEnds \/ UNCHANGED vars
  BY <1>3 DEF Deliver, OTPExpires, WindowEnds, local, vars
<1> QED
  BY <1>2, <1>3 DEF Next

(* Only Count adds to the counter, and the call it serves to the set. *)
LEMMA CounterKeeps == IInv /\ Counter /\ [Next]_vars => Counter'
<1> SUFFICES ASSUME IInv, Counter, [Next]_vars PROVE Counter'
  OBVIOUS
<1>1. Cardinality(Counted) <= Cardinality(Counted')
  BY CountedGrows, CountedFinite, FS_Subset
<1>2. ASSUME NEW c \in Calls, Count(c) PROVE Counter'
  <2>1. /\ pc[c] = "count" /\ resends' = resends + 1 /\ timed' = timed
        /\ count' = [count EXCEPT ![c] = resends + 1]
        /\ pc'[c] \notin {"idle", "count"}
    BY <1>2 DEF Count, Goto, Reply, IInv, Typed
  <2>2. c \in ResendCalls
    BY <2>1 DEF IInv, PathOK, ResendCalls
  <2>3. c \notin Counted /\ c \in Counted'
    BY <2>1, <2>2 DEF Counted
  <2>4. Counted \subseteq Counted' \ {c}
    BY <2>3, CountedGrows
  <2>5. /\ IsFiniteSet(Counted' \ {c})
        /\ Cardinality(Counted' \ {c}) = Cardinality(Counted') - 1
    BY <2>3, CountedFinite, FS_RemoveElement
  <2>6. Cardinality(Counted) <= Cardinality(Counted' \ {c})
    BY <2>4, <2>5, FS_Subset
  <2>7. resends \in Nat /\ resends <= Cardinality(Counted)
    BY DEF Counter
  <2>8. resends + 1 <= Cardinality(Counted') /\ resends + 1 \in 0 .. Cardinality(ResendCalls)
    BY <2>5, <2>6, <2>7, CountedFinite
  <2> QED
    BY <2>1, <2>7, <2>8 DEF Counter
<1>3. ASSUME NEW c \in Calls,
             \/ Lookup(c) \/ GetOTP(c) \/ SetOTP(c) \/ Mail(c)
             \/ \E k \in Calls : CheckCode(c, k)
             \/ CreateUser(c) \/ DeleteOTP(c) \/ Abort(c) \/ Expire(c)
      PROVE  Counter'
  <2>1. /\ resends' = resends /\ count' = count
        /\ timed' = timed \/ timed' = (resends > 0)
    BY <1>3
    DEF Lookup, GetOTP, SetOTP, Mail, CheckCode, CreateUser, DeleteOTP, Abort, Expire,
        redis, local
  <2>2. timed' \in BOOLEAN /\ (timed' => resends' > 0)
    <3>1. timed \in BOOLEAN /\ (timed => resends > 0)
      BY DEF Counter
    <3>2. CASE timed' = timed
      BY <2>1, <3>1, <3>2
    <3>3. CASE timed' = (resends > 0)
      <4>1. timed' \in BOOLEAN
        BY <3>3
      <4>2. timed' => resends > 0
        BY <3>3, Zenon
      <4> QED
        BY <2>1, <4>1, <4>2
    <3> QED
      BY <2>1, <3>2, <3>3
  <2>3. /\ resends' \in Nat /\ resends' <= Cardinality(Counted')
        /\ count' \in [Calls -> 0 .. Cardinality(ResendCalls)]
    BY <2>1, <1>1, CountedFinite DEF Counter
  <2> QED
    BY <2>2, <2>3 DEF Counter
<1>4. CASE WindowEnds
  <2>1. timed' = FALSE /\ resends' = 0 /\ count' = count
    BY <1>4 DEF WindowEnds, local
  <2>2. 0 <= Cardinality(Counted') /\ 0 \in Nat
    BY CountedFinite
  <2>3. count \in [Calls -> 0 .. Cardinality(ResendCalls)]
    BY DEF Counter
  <2> QED
    BY <2>1, <2>2, <2>3 DEF Counter
<1>5. CASE Deliver \/ OTPExpires \/ UNCHANGED vars
  BY <1>5, <1>1, CountedFinite DEF Deliver, OTPExpires, redis, local, vars, Counter
<1> QED
  BY <1>2, <1>3, <1>4, <1>5 DEF Next

(* Every reachable state is well typed: the counter of resends never says   *)
(* more than there are resends, and has an expiry only while it exists.     *)
THEOREM TypeCorrect == Spec => []TypeOK
<1>1. Init => Counter
  <2> SUFFICES ASSUME Init PROVE Counter
    OBVIOUS
  <2>1. resends = 0 /\ timed = FALSE /\ count = [c \in Calls |-> 0]
    BY DEF Init
  <2>2. 0 \in 0 .. Cardinality(ResendCalls) /\ 0 <= Cardinality(Counted) /\ 0 \in Nat
    BY CountedFinite
  <2> QED
    BY <2>1, <2>2 DEF Counter
<1>2. ASSUME IInv, Counter PROVE TypeOK
  <2>1. resends \in 0 .. Cardinality(ResendCalls)
    BY <1>2, CountedFinite DEF Counter
  <2> QED
    BY <1>2, <2>1 DEF IInv, Typed, Counter, TypeOK
<1> QED
  BY <1>1, <1>2, CounterKeeps, Invariant, PTL DEF Spec

================================================================================
