---------------------------- MODULE Sessions_proofs ----------------------------
(***************************************************************************)
(* Proofs about Sessions, for any number of overlapping calls.             *)
(* A refresh token is stored before it is given out, by the call it is     *)
(* named after and at one step of that call (IdsFresh).  So a token that   *)
(* is given out and then deleted has nobody left who would store it.       *)
(***************************************************************************)
EXTENDS Sessions, TLAPS

(* A call stores its id once and gives it to the client after that. *)
IdsFresh ==
  \A c \in Calls :
    /\ pc[c] \in {"idle", "rotate", "store", "update"} => c \notin tokens
    /\ pc[c] # "done" => c \notin issued /\ answer[c] = "none"

(* The hash was there from the start or was set by a call that succeeded. *)
IsPassword(w) == w = First \/ (w \in Calls /\ answer[w] = "ok")

Proven(c) ==
  \/ Endpoint[c] = "login" /\ IsPassword(presented[c])
  \/ Endpoint[c] = "refresh" /\ presented[c] \in issued

(* Whoever stores or has stored a token was let through. *)
Admitted ==
  /\ IsPassword(password)
  /\ \A c \in Calls :
       /\ pc[c] = "rotate" => Endpoint[c] = "refresh"
       /\ pc[c] = "update" => Endpoint[c] = "change"
       /\ pc[c] \in {"rotate", "store", "send"} => Proven(c)
       /\ c \in tokens \cup issued => Proven(c)

LoggedOut ==
  \A d \in Calls : answer[d] = "ok" /\ Endpoint[d] = "logout" =>
    presented[d] \in issued \ tokens

IInv == TypeOK /\ IdsFresh /\ Admitted /\ LoggedOut

-----------------------------------------------------------------------------

LEMMA InitInvariant == Init => IInv
BY DEF Init, IInv, TypeOK, IdsFresh, Admitted, IsPassword, Proven, LoggedOut

(* A call arrives with a password or a token and is let through or not. *)
LEMMA PresentPreserves ==
  ASSUME IInv, NEW c \in Calls, NEW x \in Calls \cup {First},
         NEW admitted \in BOOLEAN, NEW step \in {"rotate", "store", "update"},
         Present(c, x, admitted, step),
         Endpoint[c] \in {"login", "change", "refresh"},
         step = "rotate" => Endpoint[c] = "refresh",
         step = "update" => Endpoint[c] = "change",
         admitted /\ step # "update" =>
           \/ Endpoint[c] = "login" /\ IsPassword(x)
           \/ Endpoint[c] = "refresh" /\ x \in issued
  PROVE  IInv'
<1>1. /\ pc[c] = "idle"
      /\ c \notin tokens \cup issued
      /\ answer[c] = "none"
  BY DEF IInv, IdsFresh, Present
<1>2. /\ presented' = [presented EXCEPT ![c] = x]
      /\ UNCHANGED <<password, tokens, issued>>
      /\ \/ admitted /\ pc' = [pc EXCEPT ![c] = step] /\ answer' = answer
         \/ /\ pc' = [pc EXCEPT ![c] = "done"]
            /\ answer' = [answer EXCEPT ![c] = "refused"]
  BY DEF Present, Goto, Reply
<1>3. TypeOK'
  BY <1>2 DEF IInv, TypeOK
<1>4. IdsFresh'
  BY <1>1, <1>2 DEF IInv, TypeOK, IdsFresh
<1>5. ASSUME NEW w, IsPassword(w)
      PROVE  IsPassword(w)'
  BY <1>1, <1>2, <1>5 DEF IInv, TypeOK, IsPassword
<1>6. ASSUME NEW d \in Calls, d # c, Proven(d)
      PROVE  Proven(d)'
  <2>1. presented'[d] = presented[d]
    BY <1>2, <1>6 DEF IInv, TypeOK
  <2> QED
    BY <1>2, <1>5, <1>6, <2>1 DEF Proven, IsPassword
<1>7. Admitted'
  <2>1. IsPassword(password)'
    BY <1>2, <1>5 DEF IInv, Admitted, IsPassword
  <2>2. ASSUME NEW d \in Calls, d # c
        PROVE  /\ pc'[d] = "rotate" => Endpoint[d] = "refresh"
               /\ pc'[d] = "update" => Endpoint[d] = "change"
               /\ pc'[d] \in {"rotate", "store", "send"} => Proven(d)'
               /\ d \in tokens' \cup issued' => Proven(d)'
    <3>1. pc'[d] = pc[d]
      BY <1>2, <2>2 DEF IInv, TypeOK
    <3> QED
      BY <1>2, <1>6, <2>2, <3>1 DEF IInv, Admitted
  <2>3. /\ pc'[c] = "rotate" => Endpoint[c] = "refresh"
        /\ pc'[c] = "update" => Endpoint[c] = "change"
        /\ c \notin tokens' \cup issued'
    BY <1>1, <1>2 DEF IInv, TypeOK
  <2>4. pc'[c] \in {"rotate", "store", "send"} => Proven(c)'
    <3>1. presented'[c] = x
      BY <1>2 DEF IInv, TypeOK
    <3>2. pc'[c] \in {"rotate", "store", "send"} => admitted /\ step # "update"
      BY <1>2 DEF IInv, TypeOK
    <3> QED
      BY <1>2, <1>5, <3>1, <3>2 DEF Proven, IsPassword
  <2> QED
    BY <2>1, <2>2, <2>3, <2>4 DEF Admitted
<1>8. LoggedOut'
  BY <1>1, <1>2 DEF IInv, TypeOK, LoggedOut
<1> QED
  BY <1>3, <1>4, <1>7, <1>8 DEF IInv

(* What was proven stays so while a call only goes on. *)
LEMMA ProvenStays ==
  ASSUME NEW c, Proven(c), UNCHANGED presented, issued \subseteq issued',
         \A d \in Calls : answer[d] = "ok" => answer'[d] = "ok"
  PROVE  Proven(c)'
BY DEF Proven, IsPassword

LEMMA CallPreserves ==
  ASSUME IInv, NEW c \in Calls,
         \/ Rotate(c) \/ Store(c) \/ Send(c) \/ UpdatePassword(c) \/ Abort(c)
  PROVE  IInv'
<1>1. CASE Rotate(c)
  <2>1. /\ pc[c] = "rotate" /\ pc' = [pc EXCEPT ![c] = "store"]
        /\ tokens' \subseteq tokens
        /\ UNCHANGED <<password, issued, presented, answer>>
    BY <1>1 DEF Rotate, Goto
  <2>2. \A d \in Calls : Proven(d) => Proven(d)'
    BY <2>1, ProvenStays
  <2> QED
    BY <2>1, <2>2
    DEF IInv, TypeOK, IdsFresh, Admitted, LoggedOut, IsPassword
<1>2. CASE Store(c)
  <2>1. /\ pc[c] = "store" /\ pc' = [pc EXCEPT ![c] = "send"]
        /\ tokens' = tokens \cup {c}
        /\ UNCHANGED <<password, issued, presented, answer>>
    BY <1>2 DEF Store, Goto, NewId
  <2>2. \A d \in Calls : Proven(d) => Proven(d)'
    BY <2>1, ProvenStays
  <2>3. c \notin issued
    BY <2>1 DEF IInv, IdsFresh
  <2> QED
    BY <2>1, <2>2, <2>3
    DEF IInv, TypeOK, IdsFresh, Admitted, LoggedOut, IsPassword
<1>3. CASE Send(c)
  <2>1. /\ pc[c] = "send" /\ pc' = [pc EXCEPT ![c] = "done"]
        /\ issued' = issued \cup {c}
        /\ answer' = [answer EXCEPT ![c] = "ok"]
        /\ UNCHANGED <<password, tokens, presented>>
    BY <1>3 DEF Send, Reply, NewId
  <2>2. \A d \in Calls : Proven(d) => Proven(d)'
    BY <2>1, ProvenStays DEF IInv, TypeOK
  <2>3. Proven(c) /\ Endpoint[c] # "logout"
    BY <2>1 DEF IInv, Admitted, Proven
  <2>4. IsPassword(password)'
    BY <2>1 DEF IInv, TypeOK, Admitted, IsPassword
  <2> QED
    BY <2>1, <2>2, <2>3, <2>4 DEF IInv, TypeOK, IdsFresh, Admitted, LoggedOut
<1>4. CASE UpdatePassword(c)
  <2>1. /\ pc[c] = "update" /\ pc' = [pc EXCEPT ![c] = "done"]
        /\ password' = c
        /\ answer' = [answer EXCEPT ![c] = "ok"]
        /\ UNCHANGED <<tokens, issued, presented>>
    BY <1>4 DEF UpdatePassword, Reply
  <2>2. \A d \in Calls : Proven(d) => Proven(d)'
    BY <2>1, ProvenStays DEF IInv, TypeOK
  <2>3. Endpoint[c] = "change"
    BY <2>1 DEF IInv, Admitted
  <2>4. IsPassword(password)'
    BY <2>1 DEF IInv, TypeOK, IsPassword
  <2> QED
    BY <2>1, <2>2, <2>3, <2>4 DEF IInv, TypeOK, IdsFresh, Admitted, LoggedOut
<1>5. CASE Abort(c)
  <2>1. /\ pc[c] # "done" /\ pc' = [pc EXCEPT ![c] = "done"]
        /\ answer' = [answer EXCEPT ![c] = "error"]
        /\ UNCHANGED <<password, tokens, issued, presented>>
    BY <1>5 DEF Abort, Reply
  <2>2. answer[c] = "none"
    BY <2>1 DEF IInv, IdsFresh
  <2>3. \A d \in Calls : Proven(d) => Proven(d)'
    BY <2>1, <2>2, ProvenStays DEF IInv, TypeOK
  <2>4. IsPassword(password)'
    BY <2>1, <2>2 DEF IInv, TypeOK, Admitted, IsPassword
  <2> QED
    BY <2>1, <2>2, <2>3, <2>4 DEF IInv, TypeOK, IdsFresh, Admitted, LoggedOut
<1> QED
  BY <1>1, <1>2, <1>3, <1>4, <1>5

LEMMA LogoutPreserves ==
  ASSUME IInv, NEW c \in Calls, NEW t \in Calls, Logout(c, t)
  PROVE  IInv'
<1>1. /\ pc[c] = "idle" /\ pc' = [pc EXCEPT ![c] = "done"]
      /\ presented' = [presented EXCEPT ![c] = t]
      /\ t \in issued
      /\ UNCHANGED <<password, issued>>
      /\ tokens' \subseteq tokens
      /\ \/ t \notin tokens' /\ answer' = [answer EXCEPT ![c] = "ok"]
         \/ answer' = [answer EXCEPT ![c] = "error"]
  BY DEF Logout, Reply
<1>2. answer[c] = "none" /\ c \notin tokens \cup issued
  BY <1>1 DEF IInv, IdsFresh
<1>3. ASSUME NEW d \in Calls, d # c, Proven(d)
      PROVE  Proven(d)'
  <2>1. presented'[d] = presented[d]
    BY <1>1, <1>3 DEF IInv, TypeOK
  <2>2. \A e \in Calls : answer[e] = "ok" => answer'[e] = "ok"
    BY <1>1, <1>2 DEF IInv, TypeOK
  <2> QED
    BY <1>1, <1>3, <2>1, <2>2 DEF Proven, IsPassword
<1>4. TypeOK' /\ IdsFresh'
  BY <1>1, <1>2 DEF IInv, TypeOK, IdsFresh
<1>5. Admitted'
  <2>1. IsPassword(password)'
    BY <1>1, <1>2 DEF IInv, TypeOK, Admitted, IsPassword
  <2>2. \A d \in Calls : d # c => pc'[d] = pc[d]
    BY <1>1 DEF IInv, TypeOK
  <2>3. pc'[c] = "done" /\ c \notin tokens' \cup issued'
    BY <1>1, <1>2 DEF IInv, TypeOK
  <2> QED
    BY <1>1, <1>3, <2>1, <2>2, <2>3 DEF IInv, Admitted
<1>6. LoggedOut'
  BY <1>1 DEF IInv, TypeOK, LoggedOut
<1> QED
  BY <1>4, <1>5, <1>6 DEF IInv

LEMMA NextPreserves == IInv /\ [Next]_vars => IInv'
<1>1. ASSUME IInv, NEW c \in Calls, NEW w \in Calls \cup {First}, CheckLogin(c, w)
      PROVE  IInv'
  <2>1. w = password => IsPassword(w)
    BY <1>1 DEF IInv, Admitted
  <2> QED
    BY <1>1, <2>1, PresentPreserves DEF CheckLogin
<1>2. ASSUME IInv, NEW c \in Calls, NEW w \in Calls \cup {First}, CheckChange(c, w)
      PROVE  IInv'
  BY <1>2, PresentPreserves DEF CheckChange
<1>3. ASSUME IInv, NEW c \in Calls, NEW t \in Calls, CheckRefresh(c, t)
      PROVE  IInv'
  <2>1. /\ Endpoint[c] = "refresh" /\ t \in issued
        /\ Present(c, t, InRedis(t), "rotate")
        /\ InRedis(t) \in BOOLEAN
    BY <1>3 DEF CheckRefresh, InRedis
  <2> QED
    BY <1>3, <2>1, PresentPreserves
<1>4. ASSUME IInv, NEW t \in Calls, Expire(t)
      PROVE  IInv'
  <2>1. \A d \in Calls : Proven(d) => Proven(d)'
    BY <1>4, ProvenStays DEF Expire
  <2> QED
    BY <1>4, <2>1
    DEF Expire, IInv, TypeOK, IdsFresh, Admitted, LoggedOut, IsPassword
<1>5. ASSUME IInv, UNCHANGED vars
      PROVE  IInv'
  BY <1>5 DEF vars, IInv, TypeOK, IdsFresh, Admitted, Proven, IsPassword, LoggedOut
<1> QED
  BY <1>1, <1>2, <1>3, <1>4, <1>5, CallPreserves, LogoutPreserves DEF Next

LEMMA Invariant == Spec => []IInv
BY InitInvariant, NextPreserves, PTL DEF Spec

(* Only Store adds to Redis, and what it adds nobody was given before. *)
LEMMA NothingRevived ==
  ASSUME IInv, [Next]_vars, NEW t \in issued \ tokens
  PROVE  t \notin tokens'
<1>1. ASSUME NEW c \in Calls, Store(c)
      PROVE  tokens' = tokens \cup {c} /\ c \notin issued
  BY <1>1 DEF Store, NewId, IInv, IdsFresh
<1>2. ASSUME NEW c \in Calls, Rotate(c) \/ Send(c) \/ UpdatePassword(c) \/ Abort(c)
      PROVE  tokens' \subseteq tokens
  BY <1>2 DEF Rotate, Send, UpdatePassword, Abort
<1>3. ASSUME NEW c, NEW w, CheckLogin(c, w) \/ CheckChange(c, w)
      PROVE  tokens' \subseteq tokens
  BY <1>3 DEF CheckLogin, CheckChange, Present
<1>4. ASSUME NEW c, NEW u, CheckRefresh(c, u) \/ Logout(c, u)
      PROVE  tokens' \subseteq tokens
  BY <1>4 DEF CheckRefresh, Present, Logout
<1>5. ASSUME NEW u, Expire(u)
      PROVE  tokens' \subseteq tokens
  BY <1>5 DEF Expire
<1> QED
  BY <1>1, <1>2, <1>3, <1>4, <1>5 DEF Next, vars

-----------------------------------------------------------------------------

(* No refresh token that a client was given comes back to Redis once it    *)
(* has been exchanged, revoked or has expired.                             *)
THEOREM TokensStayDead == Spec => NeverRevived
<1> DEFINE Dead == \A t \in issued \ tokens : t \notin tokens'
<1>1. IInv /\ [Next]_vars => [Dead]_vars
  BY NothingRevived
<1>2. Spec => [][Dead]_vars
  BY <1>1, Invariant, PTL DEF Spec
<1> QED
  BY <1>2 DEF NeverRevived

(* A refresh that starts after a logout was confirmed is refused the token *)
(* of that session.                                                        *)
THEOREM LogoutIsFinal == Spec => LogoutHolds
<1> DEFINE Holds ==
      \A c, d \in Calls :
        /\ answer[d] = "ok" /\ Endpoint[d] = "logout"
        /\ pc[c] = "idle" /\ pc'[c] = "rotate"
        => presented'[c] # presented[d]
<1>1. ASSUME IInv, Next, NEW c \in Calls, pc[c] = "idle", pc'[c] = "rotate"
      PROVE  presented'[c] \in tokens
  <2>1. PICK b \in Calls : \E t \in Calls : CheckRefresh(b, t) /\ pc'[b] = "rotate" /\ b = c
    <3>1. ASSUME NEW b \in Calls, Rotate(b) \/ Store(b) \/ Send(b)
                                  \/ UpdatePassword(b) \/ Abort(b)
          PROVE  FALSE
      BY <1>1, <3>1
      DEF Rotate, Store, Send, UpdatePassword, Abort, Goto, Reply, IInv, TypeOK
    <3>2. ASSUME NEW b \in Calls, NEW w, CheckLogin(b, w) \/ CheckChange(b, w)
          PROVE  FALSE
      BY <1>1, <3>2
      DEF CheckLogin, CheckChange, Present, Goto, Reply, IInv, TypeOK
    <3>3. ASSUME NEW b \in Calls, NEW t, Logout(b, t)
          PROVE  FALSE
      BY <1>1, <3>3 DEF Logout, Reply, IInv, TypeOK
    <3>4. ASSUME NEW t, Expire(t)
          PROVE  FALSE
      BY <1>1, <3>4 DEF Expire
    <3>5. ASSUME NEW b \in Calls, NEW t, CheckRefresh(b, t)
          PROVE  b = c
      BY <1>1, <3>5 DEF CheckRefresh, Present, Goto, Reply, IInv, TypeOK
    <3> QED
      BY <1>1, <3>1, <3>2, <3>3, <3>4, <3>5 DEF Next
  <2>2. PICK t \in Calls : CheckRefresh(c, t) /\ pc'[c] = "rotate"
    BY <2>1
  <2>3. /\ presented' = [presented EXCEPT ![c] = t]
        /\ ~InRedis(t) => pc' = [pc EXCEPT ![c] = "done"]
    BY <2>2 DEF CheckRefresh, Present, Reply
  <2>4. InRedis(t)
    BY <1>1, <2>2, <2>3 DEF IInv, TypeOK
  <2> QED
    BY <1>1, <2>3, <2>4 DEF InRedis, IInv, TypeOK
<1>2. IInv /\ [Next]_vars => [Holds]_vars
  BY <1>1 DEF IInv, LoggedOut
<1>3. Spec => [][Holds]_vars
  BY <1>2, Invariant, PTL DEF Spec
<1> QED
  BY <1>3 DEF LogoutHolds

(* Every refresh token comes from a password of the account or from a      *)
(* refresh token given out before.                                         *)
THEOREM SessionsHaveOrigin == Spec => []SessionsProven
<1>1. IInv => SessionsProven
  BY SEAssumption DEF IInv, TypeOK, Admitted, Proven, IsPassword, SessionsProven
<1> QED
  BY <1>1, Invariant, PTL

(* Every reachable state is well typed. *)
THEOREM TypeCorrect == Spec => []TypeOK
<1>1. IInv => TypeOK
  BY DEF IInv
<1> QED
  BY <1>1, Invariant, PTL

=============================================================================
