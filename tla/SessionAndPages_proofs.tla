------------------------ MODULE SessionAndPages_proofs ------------------------
(***************************************************************************)
(* Proofs about what a browser tab keeps: the session of its user and the  *)
(* event pages of the application.                                         *)
(*                                                                         *)
(* ClientSession, for any number of tabs and requests.                     *)
(* The flag of a tab is set while exactly one request of the tab leads an  *)
(* exchange (FlagTrue), and whoever is queued was queued while it was set  *)
(* (QueueGuarded).  The end of an exchange resets the flag and empties the *)
(* queue in one step.                                                      *)
(*                                                                         *)
(* SessionKept holds for one tab: with one exchange at a time, the token   *)
(* in the storage during an exchange is the one it presented, unless the   *)
(* user has logged out or in since (Presents), and a refused exchange      *)
(* presented a token that Redis does not hold.                             *)
(*                                                                         *)
(* EventPages, for any users, calls and number of events.                  *)
(*                                                                         *)
(* A deleted event is out of the rows of everybody for good, and a list    *)
(* that is still to come does not have it or leaves a doubt, because the   *)
(* answer of a deletion starts a fetch (DeletionsSeen).  What the user has *)
(* chosen last stays selected while he is in it because it is in his list  *)
(* and in every list to come that is trusted (WantedKept).  For what he    *)
(* has created that rests on the renewal the creation awaits: it asks for  *)
(* the list of the same user after the event was made, by whom the event   *)
(* is listed until it is deleted (RenewalOK, MakersIn), unless somebody    *)
(* has logged out meanwhile.  The number of a page is within the list that *)
(* is shown, since every step that changes a list corrects it (PagesOK);   *)
(* that such a page has an entry follows because a list has an entry at    *)
(* every rank below its length (EveryRank).                                *)
(***************************************************************************)
EXTENDS EventPages, ClientSession, FiniteSetTheorems, WellFoundedInduction,
        TLAPS

-----------------------------------------------------------------------------
(* The session *)

Leaders(t) == {r \in Requests : Tab[r] = t /\ pc[r] \in Exchange}

FlagTrue ==
  \A t \in Tabs :
    /\ refreshing[t] => \E r \in Requests : Leaders(t) = {r}
    /\ ~refreshing[t] => Leaders(t) = {}

QueueGuarded == \A q \in Requests : pc[q] = "queued" => refreshing[Tab[q]]

TabsOK ==
  /\ refreshing \in [Tabs -> BOOLEAN]
  /\ pc \in [Requests -> {"idle", "sent", "queued", "ok", "failed"} \cup Exchange]

SessionInv == TabsOK /\ FlagTrue /\ QueueGuarded

-----------------------------------------------------------------------------

LEMMA SessionInvInit == SessionInit => SessionInv
BY CSAssumption
DEF SessionInit, SessionInv, TabsOK, FlagTrue, QueueGuarded, Leaders, Exchange

(* A step of one request that neither begins nor ends an exchange. *)
LEMMA StepAside ==
  ASSUME SessionInv, NEW r \in Requests, UNCHANGED refreshing,
         NEW s \in {"idle", "sent", "queued", "ok", "failed"} \cup Exchange,
         pc' = [pc EXCEPT ![r] = s],
         s \in Exchange <=> pc[r] \in Exchange,
         s = "queued" => refreshing[Tab[r]]
  PROVE  SessionInv'
<1>1. \A t : Leaders(t)' = Leaders(t)
  BY DEF Leaders, SessionInv, TabsOK
<1> QED
  BY <1>1 DEF SessionInv, TabsOK, FlagTrue, QueueGuarded

LEMMA LeadPreserves ==
  ASSUME SessionInv, NEW r \in Requests, Lead(r)
  PROVE  SessionInv'
<1>0. PICK t \in Tabs : t = Tab[r]
  BY CSAssumption
<1>1. /\ pc[r] = "sent" /\ pc' = [pc EXCEPT ![r] = "asking"]
      /\ ~refreshing[t] /\ refreshing' = [refreshing EXCEPT ![t] = TRUE]
  BY <1>0 DEF Lead, Unauthorized, StartExchange
<1>2. Leaders(t) = {}
  BY <1>1 DEF SessionInv, FlagTrue
<1>3. Leaders(t)' = {r}
  BY <1>0, <1>1, <1>2 DEF Leaders, SessionInv, TabsOK, Exchange
<1>4. \A u \in Tabs : u # t => Leaders(u)' = Leaders(u)
  BY <1>0, <1>1 DEF Leaders, SessionInv, TabsOK
<1>5. TabsOK'
  BY <1>1 DEF SessionInv, TabsOK, Exchange
<1>6. FlagTrue'
  BY <1>1, <1>3, <1>4 DEF SessionInv, TabsOK, FlagTrue
<1>7. QueueGuarded'
  BY <1>1, CSAssumption DEF SessionInv, TabsOK, QueueGuarded
<1> QED
  BY <1>5, <1>6, <1>7 DEF SessionInv

(* The end of an exchange, whatever the requests of the tab become. *)
LEMMA EndPreserves ==
  ASSUME SessionInv, NEW r \in Requests, pc[r] \in Exchange,
         NEW s \in {"sent", "failed"},
         refreshing' = [refreshing EXCEPT ![Tab[r]] = FALSE],
         pc' = [q \in Requests |-> IF q \in Queue(Tab[r]) \cup {r} THEN s ELSE pc[q]]
  PROVE  SessionInv'
<1>0. PICK t \in Tabs : t = Tab[r]
  BY CSAssumption
<1>1. r \in Leaders(t)
  BY <1>0 DEF Leaders
<1>2. Leaders(t) = {r}
  BY <1>1 DEF SessionInv, TabsOK, FlagTrue
<1>3. s \notin Exchange /\ s # "queued"
  BY DEF Exchange
<1>4. Leaders(t)' = {}
  BY <1>0, <1>2, <1>3 DEF Leaders
<1>5. \A u \in Tabs : u # t => Leaders(u)' = Leaders(u)
  BY <1>0, <1>3 DEF Leaders, Queue
<1>6. TabsOK'
  BY <1>0 DEF SessionInv, TabsOK
<1>7. FlagTrue'
  BY <1>0, <1>4, <1>5 DEF SessionInv, TabsOK, FlagTrue
<1>8. QueueGuarded'
  <2>1. \A q \in Requests : Tab[q] = t => pc'[q] # "queued"
    BY <1>0, <1>3 DEF Queue
  <2>2. \A q \in Requests : Tab[q] # t => refreshing'[Tab[q]] = refreshing[Tab[q]]
    BY <1>0, CSAssumption DEF SessionInv, TabsOK
  <2>3. \A q \in Requests : pc'[q] = "queued" => pc[q] = "queued"
    BY <1>3
  <2> QED
    BY <2>1, <2>2, <2>3 DEF SessionInv, QueueGuarded
<1> QED
  BY <1>6, <1>7, <1>8 DEF SessionInv

LEMMA SessionInvNext == SessionInv /\ [SessionNext]_sessionVars => SessionInv'
<1>1. ASSUME SessionInv, NEW r \in Requests, Send(r)
      PROVE  SessionInv'
  BY <1>1, StepAside DEF Send, Exchange
<1>2. ASSUME SessionInv, NEW r \in Requests, GiveUp(r)
      PROVE  SessionInv'
  BY <1>2, StepAside DEF GiveUp, Settle, Exchange
<1>3. ASSUME SessionInv, NEW r \in Requests,
             Serve(r) \/ Reject(r) \/ NoRefreshToken(r) \/ Enqueue(r)
      PROVE  SessionInv'
  BY <1>3, StepAside
  DEF Serve, Reject, NoRefreshToken, Enqueue, Unauthorized, Settle, Exchange
<1>4. ASSUME SessionInv, NEW r \in Requests,
             CheckRefresh(r) \/ Rotate(r) \/ ExchangeFails(r)
      PROVE  SessionInv'
  <2>1. PICK s \in {"checked", "denied", "granted", "lost"} :
          /\ pc' = [pc EXCEPT ![r] = s] /\ pc[r] \in Exchange
          /\ UNCHANGED refreshing
    BY <1>4 DEF CheckRefresh, Rotate, ExchangeFails, Exchange
  <2> QED
    BY <1>4, <2>1, StepAside DEF Exchange
<1>5. ASSUME SessionInv, NEW r \in Requests, Granted(r) \/ Refused(r)
      PROVE  SessionInv'
  <2>1. PICK s \in {"sent", "failed"} :
          pc' = [q \in Requests |-> IF q \in Queue(Tab[r]) \cup {r} THEN s ELSE pc[q]]
    BY <1>5 DEF Granted, Refused
  <2>2. /\ refreshing' = [refreshing EXCEPT ![Tab[r]] = FALSE]
        /\ pc[r] \in Exchange
    BY <1>5 DEF Granted, Refused, Exchange
  <2> QED
    BY <1>5, <2>1, <2>2, EndPreserves
<1>6. ASSUME SessionInv, UNCHANGED <<pc, refreshing>>
      PROVE  SessionInv'
  BY <1>6 DEF SessionInv, TabsOK, FlagTrue, QueueGuarded, Leaders
<1>7. ASSUME NEW x, LogIn(x) \/ AccessExpires(x) \/ RefreshExpires(x) \/ Logout
                    \/ UNCHANGED sessionVars
      PROVE  UNCHANGED <<pc, refreshing>>
  BY <1>7 DEF LogIn, AccessExpires, RefreshExpires, Logout, sessionVars
<1> QED
  BY <1>1, <1>2, <1>3, <1>4, <1>5, <1>6, <1>7, LeadPreserves DEF SessionNext, Answer

LEMMA SessionInvariant == SessionSpec => []SessionInv
BY SessionInvInit, SessionInvNext, PTL DEF SessionSpec

-----------------------------------------------------------------------------

(* The flag isRefreshing of a tab is set while one request of the tab      *)
(* exchanges the refresh token, and none does while it is not.             *)
THEOREM FlagTellsTruth == SessionSpec => []OneExchange
<1>1. ASSUME SessionInv, NEW t \in Tabs
      PROVE  Cardinality(Leaders(t)) = (IF refreshing[t] THEN 1 ELSE 0)
  <2>1. CASE refreshing[t]
    BY <1>1, <2>1, FS_Singleton DEF SessionInv, FlagTrue
  <2>2. CASE ~refreshing[t]
    BY <1>1, <2>2, FS_EmptySet DEF SessionInv, FlagTrue
  <2> QED
    BY <2>1, <2>2
<1>2. SessionInv => OneExchange
  BY <1>1 DEF OneExchange, Leaders
<1> QED
  BY <1>2, SessionInvariant, PTL

(* A request that is held back waits for an exchange of its own tab. *)
THEOREM QueueHasLeader == SessionSpec => []QueueServed
<1>1. SessionInv => QueueServed
  <2>1. SUFFICES ASSUME SessionInv, NEW q \in Requests, pc[q] = "queued"
                 PROVE  \E r \in Requests : Tab[r] = Tab[q] /\ pc[r] \in Exchange
    BY DEF QueueServed
  <2>2. PICK r \in Requests : Leaders(Tab[q]) = {r}
    BY <2>1, CSAssumption DEF SessionInv, FlagTrue, QueueGuarded
  <2> QED
    BY <2>2 DEF Leaders
<1> QED
  BY <1>1, SessionInvariant, PTL

-----------------------------------------------------------------------------
(* What the proof of SessionKept uses of the tokens: a login's token is    *)
(* known only after it; the one in the storage is what the exchange was    *)
(* begun with, unless the user has logged out or in since; and a refused   *)
(* exchange presented a token that Redis does not hold.                    *)
TokensOK ==
  /\ refresh \in Tokens \cup {NoToken} /\ valid \subseteq Tokens
  /\ presented \in [Requests -> Tokens \cup {NoToken}]
  /\ \A l \in Logins \ loggedIn :
       l # refresh /\ l \notin valid /\ \A r \in Requests : presented[r] # l

Presents ==
  \A r \in Requests :
    /\ pc[r] \in Exchange => refresh \in Logins \cup {presented[r], NoToken}
    /\ pc[r] = "denied" => presented[r] \notin valid

SingleTab == \A t, u \in Tabs : t = u

(* In a tab of its own an exchange has no other beside it. *)
LEMMA Alone ==
  ASSUME SingleTab, SessionInv, NEW r \in Requests, NEW q \in Requests,
         pc[r] \in Exchange, pc[q] \in Exchange
  PROVE  q = r
<1>1. /\ Tab[r] \in Tabs /\ Tab[q] = Tab[r]
  BY CSAssumption DEF SingleTab
<1>2. r \in Leaders(Tab[r]) /\ q \in Leaders(Tab[r])
  BY <1>1 DEF Leaders
<1> QED
  BY <1>1, <1>2 DEF SessionInv, TabsOK, FlagTrue

LEMMA TokensKeep ==
  ASSUME TokensOK, SessionInv, [SessionNext]_sessionVars
  PROVE  TokensOK'
<1> USE DEF TokensOK, Tokens, storage, tokens
<1>1. ASSUME NEW r \in Requests,
             Send(r) \/ Serve(r) \/ Reject(r) \/ NoRefreshToken(r) \/ Enqueue(r)
               \/ CheckRefresh(r) \/ GiveUp(r) \/ Refused(r) \/ ExchangeFails(r)
      PROVE  TokensOK'
  <2>1. /\ refresh' \in {refresh, NoToken} /\ valid' \subseteq valid
        /\ UNCHANGED <<presented, loggedIn>>
    BY <1>1
    DEF Send, Serve, Reject, NoRefreshToken, Enqueue, CheckRefresh, GiveUp, Refused,
        ExchangeFails, Settle, ClearToken
  <2> QED
    BY <2>1, CSAssumption
<1>2. ASSUME NEW r \in Requests, Lead(r) PROVE TokensOK'
  <2>1. presented' = [presented EXCEPT ![r] = refresh] /\ UNCHANGED <<refresh, valid, loggedIn>>
    BY <1>2 DEF Lead, StartExchange
  <2> QED
    BY <2>1
<1>3. ASSUME NEW r \in Requests, Rotate(r) \/ Granted(r) PROVE TokensOK'
  <2>1. /\ valid' \subseteq valid \cup {r} /\ refresh' \in {refresh, r}
        /\ UNCHANGED <<presented, loggedIn>>
    BY <1>3 DEF Rotate, Granted
  <2>2. r \notin Logins
    BY CSAssumption
  <2> QED
    BY <2>1, <2>2
<1>4. ASSUME NEW l \in Logins, LogIn(l) PROVE TokensOK'
  BY <1>4 DEF LogIn
<1>5. ASSUME NEW t \in Tokens, AccessExpires(t) \/ RefreshExpires(t) PROVE TokensOK'
  BY <1>5 DEF AccessExpires, RefreshExpires
<1>6. CASE Logout
  BY <1>6, CSAssumption DEF Logout, ClearToken
<1>7. CASE UNCHANGED sessionVars
  BY <1>7 DEF sessionVars
<1> QED
  BY <1>1, <1>2, <1>3, <1>4, <1>5, <1>6, <1>7 DEF SessionNext, Answer

LEMMA PresentsKeep ==
  ASSUME SingleTab, TokensOK, Presents, SessionInv, [SessionNext]_sessionVars
  PROVE  Presents'
<1> USE DEF Presents, storage, tokens
<1>1. ASSUME NEW r \in Requests,
             Send(r) \/ Serve(r) \/ Reject(r) \/ NoRefreshToken(r) \/ Enqueue(r)
               \/ GiveUp(r) \/ Refused(r) \/ ExchangeFails(r)
      PROVE  Presents'
  <2>1. /\ refresh' \in {refresh, NoToken} /\ valid' \subseteq valid
        /\ UNCHANGED presented
        /\ \A q \in Requests : pc'[q] # pc[q] =>
             pc'[q] # "denied" /\ (pc'[q] \in Exchange => pc[q] \in Exchange)
    BY <1>1
    DEF Send, Serve, Reject, NoRefreshToken, Enqueue, GiveUp, Refused, ExchangeFails,
        Settle, ClearToken, Exchange, SessionInv, TabsOK
  <2> QED
    BY <2>1 DEF Exchange
<1>2. ASSUME NEW r \in Requests, CheckRefresh(r) PROVE Presents'
  <2>1. /\ pc[r] = "asking" /\ UNCHANGED <<refresh, valid, presented>>
        /\ pc' = [pc EXCEPT ![r] = IF presented[r] \in valid THEN "checked" ELSE "denied"]
    BY <1>2 DEF CheckRefresh
  <2> QED
    BY <2>1 DEF Exchange, SessionInv, TabsOK
<1>3. ASSUME NEW r \in Requests, Lead(r) PROVE Presents'
  <2>1. /\ presented' = [presented EXCEPT ![r] = refresh] /\ UNCHANGED <<refresh, valid>>
        /\ pc' = [pc EXCEPT ![r] = "asking"]
    BY <1>3 DEF Lead, StartExchange
  <2> QED
    BY <2>1 DEF TokensOK, SessionInv, TabsOK
<1>4. ASSUME NEW r \in Requests, Rotate(r) PROVE Presents'
  <2>1. /\ pc[r] = "checked" /\ pc' = [pc EXCEPT ![r] = "granted"]
        /\ UNCHANGED <<refresh, presented>>
    BY <1>4 DEF Rotate
  <2>2. ASSUME NEW q \in Requests, pc'[q] \in Exchange
        PROVE  q = r /\ pc'[q] = "granted"
    <3>1. pc[q] \in Exchange /\ pc[r] \in Exchange
      BY <2>1, <2>2 DEF SessionInv, TabsOK, Exchange
    <3> QED
      BY <2>1, <3>1, Alone DEF SessionInv, TabsOK
  <2> QED
    BY <2>1, <2>2 DEF Exchange
<1>5. ASSUME NEW r \in Requests, Granted(r) PROVE Presents'
  <2>1. /\ pc[r] = "granted"
        /\ pc' = [q \in Requests |-> IF q \in Queue(Tab[r]) \cup {r} THEN "sent" ELSE pc[q]]
    BY <1>5 DEF Granted
  <2>2. ASSUME NEW q \in Requests, pc'[q] \in Exchange
        PROVE  FALSE
    <3>1. q # r /\ pc[q] \in Exchange /\ pc[r] \in Exchange
      BY <2>1, <2>2 DEF Exchange
    <3> QED
      BY <3>1, Alone
  <2> QED
    BY <2>2 DEF Exchange
<1>6. ASSUME NEW l \in Logins, LogIn(l) PROVE Presents'
  BY <1>6 DEF LogIn, TokensOK
<1>7. ASSUME NEW t \in Tokens, AccessExpires(t) \/ RefreshExpires(t) PROVE Presents'
  BY <1>7 DEF AccessExpires, RefreshExpires
<1>8. CASE Logout
  BY <1>8 DEF Logout, ClearToken
<1>9. CASE UNCHANGED sessionVars
  BY <1>9 DEF sessionVars
<1> QED
  BY <1>1, <1>2, <1>3, <1>4, <1>5, <1>6, <1>7, <1>8, <1>9 DEF SessionNext, Answer

(* With one tab the tokens leave the storage only for one of the reasons   *)
(* that SessionKept lists, for any number of requests and logins.          *)
THEOREM SessionStays ==
  ASSUME SingleTab
  PROVE  SessionSpec => SessionKept
<1> DEFINE why == \/ Logout \/ refresh \notin valid
                  \/ \E r \in Requests : GiveUp(r) \/ (Refused(r) /\ pc[r] = "lost")
                  \/ \E r \in Probes : Reject(r)
                  \/ /\ refresh \in Logins
                     /\ \E r \in Requests : Refused(r) /\ presented[r] # refresh
<1>1. SessionInit => TokensOK /\ Presents
  BY CSAssumption DEF SessionInit, TokensOK, Presents, Exchange
<1>2. TokensOK /\ Presents /\ SessionInv /\ [SessionNext]_sessionVars => (TokensOK /\ Presents)'
  BY TokensKeep, PresentsKeep
<1>3. ASSUME TokensOK, Presents, [SessionNext]_sessionVars, access # NoToken, access' = NoToken
      PROVE  why
  <2>1. NoToken \notin valid
    BY <1>3, CSAssumption DEF TokensOK, Tokens
  <2>2. ASSUME NEW r \in Requests, Refused(r) PROVE why
    <3>1. CASE pc[r] = "lost"
      BY <2>2, <3>1
    <3>2. CASE pc[r] = "denied"
      <4>1. /\ refresh \in Logins \cup {presented[r], NoToken}
            /\ presented[r] \notin valid
        BY <1>3, <3>2 DEF Presents, Exchange
      <4> QED
        BY <2>1, <2>2, <4>1
    <3> QED
      BY <2>2, <3>1, <3>2 DEF Refused
  <2>3. ASSUME NEW r \in Requests, Reject(r) PROVE why
    BY <1>3, <2>3 DEF Reject, storage
  <2>4. ASSUME NEW r \in Requests, NoRefreshToken(r) PROVE why
    BY <2>1, <2>4 DEF NoRefreshToken
  <2>5. ASSUME NEW r \in Requests,
               Send(r) \/ Serve(r) \/ Enqueue(r) \/ Lead(r) \/ CheckRefresh(r) \/ Rotate(r)
                 \/ Granted(r) \/ ExchangeFails(r)
        PROVE  FALSE
    <3>1. access' \in {access, r}
      BY <2>5
      DEF Send, Serve, Enqueue, Lead, StartExchange, CheckRefresh, Rotate, Granted,
          ExchangeFails, storage
    <3> QED
      BY <1>3, <3>1, CSAssumption
  <2>6. ASSUME NEW l \in Logins, LogIn(l) PROVE FALSE
    BY <1>3, <2>6, CSAssumption DEF LogIn
  <2>7. ASSUME NEW t \in Tokens, AccessExpires(t) \/ RefreshExpires(t) PROVE FALSE
    BY <1>3, <2>7 DEF AccessExpires, RefreshExpires, storage
  <2>8. ~UNCHANGED sessionVars
    BY <1>3 DEF sessionVars
  <2> QED
    BY <1>3, <2>2, <2>3, <2>4, <2>5, <2>6, <2>7, <2>8 DEF SessionNext, Answer
<1>4. TokensOK /\ Presents /\ [SessionNext]_sessionVars => (access # NoToken /\ access' = NoToken => why)
  BY <1>3
<1> QED
  BY <1>1, <1>2, <1>4, SessionInvariant, PTL DEF SessionSpec, SessionKept

-----------------------------------------------------------------------------
(* The steps by what they may change of the types. *)
LEMMA TypesKeep == SessionTypeOK /\ [SessionNext]_sessionVars => SessionTypeOK'
<1> SUFFICES ASSUME SessionTypeOK, [SessionNext]_sessionVars PROVE SessionTypeOK'
  OBVIOUS
<1> USE DEF storage, tokens
<1>1. ASSUME NEW r \in Requests,
             Send(r) \/ Serve(r) \/ Reject(r) \/ NoRefreshToken(r) \/ Enqueue(r)
               \/ GiveUp(r)
      PROVE  SessionTypeOK'
  <2>1. PICK s \in {"sent", "ok", "failed", "queued"} : pc' = [pc EXCEPT ![r] = s]
    BY <1>1 DEF Send, Serve, Reject, NoRefreshToken, Enqueue, GiveUp, Settle
  <2>2. /\ access' \in {access, NoToken} /\ refresh' \in {refresh, NoToken}
        /\ carried' \in {carried, [carried EXCEPT ![r] = access]}
        /\ UNCHANGED <<refreshing, presented, retry, tokens>>
    BY <1>1
    DEF Send, Serve, Reject, NoRefreshToken, Enqueue, GiveUp, Settle, ClearToken
  <2>3. s \notin Exchange
    BY DEF Exchange
  <2> QED
    BY <2>1, <2>2, <2>3 DEF SessionTypeOK
<1>2. ASSUME NEW r \in Requests, Lead(r) PROVE SessionTypeOK'
  BY <1>2 DEF Lead, StartExchange, SessionTypeOK, Exchange
<1>3. ASSUME NEW r \in Requests, CheckRefresh(r) \/ Rotate(r) \/ ExchangeFails(r)
      PROVE  SessionTypeOK'
  <2>1. PICK s \in Exchange : pc' = [pc EXCEPT ![r] = s]
    BY <1>3 DEF CheckRefresh, Rotate, ExchangeFails, Exchange
  <2>2. /\ pc[r] \in Exchange
        /\ live' \subseteq live \cup {r} /\ valid' \subseteq valid \cup {r}
        /\ UNCHANGED <<storage, refreshing, carried, presented, retry, loggedIn>>
    BY <1>3 DEF CheckRefresh, Rotate, ExchangeFails, Exchange
  <2> QED
    BY <2>1, <2>2 DEF SessionTypeOK, Tokens
<1>4. ASSUME NEW r \in Requests, Granted(r) \/ Refused(r) PROVE SessionTypeOK'
  <2> DEFINE Q == Queue(Tab[r]) \cup {r}
  <2>1. PICK s \in {"sent", "failed"} :
          pc' = [q \in Requests |-> IF q \in Q THEN s ELSE pc[q]]
    BY <1>4 DEF Granted, Refused
  <2>2. /\ access' \in {r, NoToken} /\ refresh' \in {r, NoToken}
        /\ carried' \in {carried, [q \in Requests |-> IF q \in Q THEN r ELSE carried[q]]}
        /\ retry' \in {retry, [q \in Requests |-> q \in Q \/ retry[q]]}
        /\ refreshing' = [refreshing EXCEPT ![Tab[r]] = FALSE]
        /\ UNCHANGED <<presented, tokens>>
    BY <1>4 DEF Granted, Refused, ClearToken
  <2>3. s \notin Exchange
    BY DEF Exchange
  <2> HIDE DEF Q
  <2>4. carried' \in [Requests -> Tokens \cup {NoToken}]
    BY <2>2 DEF SessionTypeOK, Tokens
  <2>5. retry' \in [Requests -> BOOLEAN]
    BY <2>2, Zenon DEF SessionTypeOK
  <2> QED
    BY <2>1, <2>2, <2>3, <2>4, <2>5 DEF SessionTypeOK, Tokens
<1>5. ASSUME NEW l \in Logins, LogIn(l) PROVE SessionTypeOK'
  BY <1>5 DEF LogIn, SessionTypeOK, Tokens
<1>6. ASSUME NEW t \in Tokens, AccessExpires(t) \/ RefreshExpires(t) PROVE SessionTypeOK'
  BY <1>6 DEF AccessExpires, RefreshExpires, SessionTypeOK
<1>7. CASE Logout
  BY <1>7 DEF Logout, ClearToken, SessionTypeOK
<1>8. CASE UNCHANGED sessionVars
  BY <1>8 DEF sessionVars, SessionTypeOK
<1> QED
  BY <1>1, <1>2, <1>3, <1>4, <1>5, <1>6, <1>7, <1>8 DEF SessionNext, Answer

(* Every reachable state is well typed; who exchanges a token has one. *)
THEOREM SessionTypeCorrect == SessionSpec => []SessionTypeOK
<1>1. SessionInit => SessionTypeOK
  BY DEF SessionInit, SessionTypeOK, Exchange
<1> QED
  BY <1>1, TypesKeep, PTL DEF SessionSpec

-----------------------------------------------------------------------------
(* The event pages *)


Present == 1..count

Awaiting == {"answered", "renew", "go"}

CallType ==
  [kind : {"none", "create", "delete", "join"},
   pc : {"ready", "confirm", "sent", "lost", "done"} \cup Awaiting,
   host : {"sidebar", "list", None}, by : Users \cup {None},
   event : {0} \cup Present, rest : SUBSET Present, clean : BOOLEAN]

(* A call that is on its way has an author, and an event unless it is a    *)
(* creation that the server has not carried out.                           *)
CallOK(h) ==
  /\ h.pc \in {"renew", "go"} => h.kind = "create"
  /\ h.pc = "confirm" => h.kind = "delete"
  /\ h.pc \in {"confirm", "sent", "lost"} \cup Awaiting =>
       h.kind # "none" /\ h.by \in Users
  /\ h.pc \in Awaiting \/ (h.pc \in {"confirm", "sent", "lost"} /\ h.kind # "create") =>
       h.event # 0
  /\ h.pc \in {"sent", "lost"} /\ h.kind = "create" => h.event = 0
  /\ h.kind = "create" /\ h.pc \in Awaiting => maker[h.event] = h.by
  /\ h.kind = "delete" /\ h.pc \in {"confirm", "sent", "lost", "answered"} =>
       maker[h.event] # None

ServerTyped ==
  /\ count \in 0..MaxEvents
  /\ maker \in [Events -> Users \cup {None}]
  /\ members \in [Users -> SUBSET Present]

ViewTyped ==
  /\ place \in Observed \cup {"invite", "login"}
  /\ selected \in Present \cup {None} /\ List(cache) \in SUBSET Present
  /\ side \in Nat \ {0} /\ current \in Nat \ {0}

QueryTyped ==
  /\ fetch \in [st : {"idle", "asked", "served"}, got : SUBSET Present,
                by : Users \cup {None}, sure : BOOLEAN]
  /\ doubt \in BOOLEAN

CallsTyped ==
  /\ call \in [Calls -> CallType]
  /\ \A c \in Calls : CallOK(call[c])
  /\ count + Cardinality(Creating) <= MaxEvents

UserTyped ==
  /\ user \in Users \cup {None}
  /\ wanted \in Present \cup {None} /\ deleted \in SUBSET Present

Typed == ServerTyped /\ ViewTyped /\ QueryTyped /\ CallsTyped /\ UserTyped

(* Nobody is logged in on the login page only. *)
GuardOK == user = None <=> place = "login"

Gone(e) == maker[e] # None /\ \A u \in Users : e \notin members[u]

(* Who has created an event stays in it until it is deleted. *)
MakersIn == \A e \in Present : maker[e] # None => e \in members[maker[e]] \/ Gone(e)

DeletionsDone ==
  /\ \A e \in deleted : Gone(e)
  /\ \A c \in Calls :
       call[c].kind = "delete" /\ call[c].pc = "answered" => Gone(call[c].event)

(* What is fetched for a page will not show a deleted event, or leaves a   *)
(* doubt.                                                                  *)
DeletionsSeen ==
  place \in Observed => \A e \in deleted :
    \/ fetch.st = "asked"
    \/ fetch.st = "served" /\ (~fetch.sure \/ e \notin fetch.got)
    \/ fetch.st = "idle" /\ (doubt \/ e \notin List(cache))

SelectionListed ==
  place = "activity" => \/ selected \in List(cache)
                        \/ List(cache) = {} /\ selected = None

(* A fetch is somebody's, and if a page was there for all the time its     *)
(* user's.                                                                 *)
FetchOwn ==
  fetch.st # "idle" =>
    /\ fetch.by \in Users
    /\ place \in Observed /\ fetch.sure => fetch.by = user

WantedKept ==
  wanted # None =>
    /\ place \in Observed /\ selected = wanted
    /\ wanted \in members[user] \cap List(cache)
    /\ fetch.st = "served" /\ fetch.sure => wanted \in fetch.got

(* What an own renewal has brought or will bring has the new event. *)
RenewalOK(h) ==
  h.pc \in {"renew", "go"} /\ h.clean =>
    /\ place \in Observed
    /\ h.pc = "renew" => fetch.st # "idle"
    /\ user = h.by =>
         /\ fetch.st # "idle" => fetch.by = user
         /\ fetch.st = "served" => h.event \in fetch.got \/ Gone(h.event)
         /\ h.pc = "go" => h.event \in List(cache) \/ Gone(h.event)

PagesOK ==
  LET l == List(cache) IN
  l # {} => /\ place \in App => side <= PagesOf(l)
            /\ place = "list" /\ filter = "all" => current <= PagesOf(l)

IInv ==
  /\ Typed /\ GuardOK
  /\ MakersIn /\ DeletionsDone /\ DeletionsSeen /\ SelectionListed
  /\ FetchOwn /\ WantedKept /\ \A c \in Calls : RenewalOK(call[c])
  /\ PagesOK

-----------------------------------------------------------------------------
(* A nonempty set of subsets of a finite set has a smallest one. *)
LEMMA SmallestSet ==
  ASSUME NEW S, IsFiniteSet(S), NEW D, D \subseteq SUBSET S, D # {}
  PROVE  \E s \in D : \A t \in D : t \subseteq s => t = s
<1>1. IsWellFoundedOn(StrictSubsetOrdering(S), SUBSET S)
  BY FS_StrictSubsetOrderingWellFounded, FS_FiniteSubsetsOfFinite
<1>2. PICK s \in D : \A t \in D : ~ (<<t, s>> \in StrictSubsetOrdering(S))
  <2> HIDE DEF StrictSubsetOrdering, IsWellFoundedOn
  <2> QED
    BY <1>1, WFMin
<1> QED
  BY <1>2 DEF StrictSubsetOrdering

(* A finite nonempty set of numbers has a first and a last one. *)
LEMMA LastOne ==
  ASSUME NEW S, IsFiniteSet(S), S # {}, \A d \in S : d \in Int
  PROVE  \E e \in S : \A d \in S : d <= e
<1> DEFINE Up(e) == {d \in S : d >= e}
           D == {Up(e) : e \in S}
<1>1. PICK s \in D : \A t \in D : t \subseteq s => t = s
  <2>1. D \subseteq SUBSET S /\ D # {}
    OBVIOUS
  <2> HIDE DEF D, Up
  <2> QED
    BY <2>1, SmallestSet
<1>2. PICK e \in S : s = Up(e)
  OBVIOUS
<1>3. ASSUME NEW d \in S, d > e PROVE FALSE
  <2>0. Up(d) \in D
    OBVIOUS
  <2>1. Up(d) \subseteq Up(e)
    BY <1>3
  <2>2. Up(d) = Up(e)
    <3> HIDE DEF D, Up
    <3> QED
      BY <1>1, <1>2, <2>0, <2>1
  <2>3. e \in Up(e) /\ e \notin Up(d)
    BY <1>3
  <2> QED
    BY <2>2, <2>3
<1> QED
  BY <1>3

LEMMA FirstOne ==
  ASSUME NEW S, IsFiniteSet(S), S # {}, \A d \in S : d \in Int
  PROVE  \E e \in S : \A d \in S : e <= d
<1> DEFINE Down(e) == {d \in S : d <= e}
           D == {Down(e) : e \in S}
<1>1. PICK s \in D : \A t \in D : t \subseteq s => t = s
  <2>1. D \subseteq SUBSET S /\ D # {}
    OBVIOUS
  <2> HIDE DEF D, Down
  <2> QED
    BY <2>1, SmallestSet
<1>2. PICK e \in S : s = Down(e)
  OBVIOUS
<1>3. ASSUME NEW d \in S, d < e PROVE FALSE
  <2>0. Down(d) \in D
    OBVIOUS
  <2>1. Down(d) \subseteq Down(e)
    BY <1>3
  <2>2. Down(d) = Down(e)
    <3> HIDE DEF D, Down
    <3> QED
      BY <1>1, <1>2, <2>0, <2>1
  <2>3. e \in Down(e) /\ e \notin Down(d)
    BY <1>3
  <2> QED
    BY <2>2, <2>3
<1> QED
  BY <1>3

(* The first of a list is one of it. *)
LEMMA NewestListed ==
  ASSUME NEW l, IsFiniteSet(l), \A d \in l : d \in Int, l # {}
  PROVE  Newest(l) \in l
BY LastOne DEF Newest, Max

(* A list has an entry at every rank below its length. *)
LEMMA EveryRank ==
  ASSUME NEW l, IsFiniteSet(l), \A d \in l : d \in Int, NEW n \in Nat, n < Cardinality(l)
  PROVE  \E e \in l : Cardinality({d \in l : d > e}) = n
<1> DEFINE Above(e) == {d \in l : d > e}
           D == {t \in {Above(e) : e \in l} : Cardinality(t) >= n}
<1>1. ASSUME NEW t, t \subseteq l PROVE IsFiniteSet(t) /\ Cardinality(t) \in Nat
  BY <1>1, FS_Subset, FS_CardinalityType
<1>2. D # {}
  <2>1. l # {} /\ Cardinality(l) \in Nat
    BY FS_EmptySet, FS_CardinalityType
  <2>2. PICK e \in l : \A d \in l : e <= d
    BY <2>1, FirstOne
  <2>3. Above(e) = l \ {e}
    BY <2>2
  <2>4. Cardinality(l \ {e}) = Cardinality(l) - 1
    BY FS_RemoveElement
  <2>5. Cardinality(Above(e)) >= n
    <3> HIDE DEF Above
    <3> QED
      BY <2>1, <2>3, <2>4
  <2> QED
    BY <2>5
<1>3. PICK s \in D : \A t \in D : t \subseteq s => t = s
  <2>1. D \subseteq SUBSET l
    OBVIOUS
  <2> HIDE DEF D, Above
  <2> QED
    BY <1>2, <2>1, SmallestSet
<1>4. PICK e \in l : s = Above(e)
  OBVIOUS
<1>5. s \subseteq l /\ Cardinality(s) \in Nat /\ Cardinality(s) >= n
  BY <1>1, <1>4
<1>6. ASSUME Cardinality(s) > n PROVE FALSE
  <2>1. s # {} /\ IsFiniteSet(s) /\ \A d \in s : d \in Int
    BY <1>1, <1>5, <1>6, FS_EmptySet
  <2>2. PICK f \in s : \A d \in s : f <= d
    BY <2>1, FirstOne
  <2>3. f \in l /\ Above(f) = s \ {f}
    BY <1>4, <2>2
  <2>4. Cardinality(Above(f)) = Cardinality(s) - 1
    BY <2>1, <2>3, FS_RemoveElement
  <2>5. Cardinality(Above(f)) >= n
    BY <1>5, <1>6, <2>4
  <2>6. Above(f) \in D
    BY <2>3, <2>5
  <2> HIDE DEF D, Above
  <2> QED
    BY <1>3, <2>3, <2>6
<1>7. Cardinality(s) = n
  BY <1>5, <1>6
<1> QED
  BY <1>4, <1>7

(* The arithmetic of pages of k entries. *)
LEMMA PageNumbers ==
  ASSUME NEW m \in Nat, NEW k \in Nat \ {0}
  PROVE  /\ (m + k - 1) \div k \in Nat
         /\ m > 0 => 1 <= (m + k - 1) \div k
         /\ \A n \in Nat \ {0} : n <= (m + k - 1) \div k =>
              (n - 1) * k < m /\ (n - 1) * k <= n * k - 1 /\ (n - 1) * k \in Nat
<1>1. PICK q : q = (m + k - 1) \div k
  OBVIOUS
<1>2. q \in Int /\ q * k <= m + k - 1 /\ m + k - 1 < q * k + k
  BY <1>1
<1>3. q >= 0
  BY <1>2
<1>4. m > 0 => q >= 1
  BY <1>2, <1>3
<1>5. ASSUME NEW n \in Nat \ {0}, n <= q
      PROVE  (n - 1) * k < m /\ (n - 1) * k <= n * k - 1 /\ (n - 1) * k \in Nat
  <2>1. n * k <= q * k
    BY <1>2, <1>5
  <2>2. (n - 1) * k = n * k - k
    OBVIOUS
  <2>3. (n - 1) * k >= 0
    OBVIOUS
  <2> QED
    BY <1>2, <2>1, <2>2, <2>3
<1> QED
  BY <1>1, <1>2, <1>3, <1>4, <1>5

(* What a list of events is. *)
LEMMA ListFacts ==
  ASSUME NEW l \in SUBSET Events
  PROVE  IsFiniteSet(l) /\ (\A e \in l : e \in Int) /\ Cardinality(l) \in Nat
<1>1. IsFiniteSet(1..MaxEvents)
  BY EPAssumption, FS_Interval
<1>2. IsFiniteSet(l)
  BY <1>1, FS_Subset DEF Events
<1>3. Cardinality(l) \in Nat
  BY <1>2, FS_CardinalityType
<1>4. \A e \in l : e \in Int
  BY EPAssumption DEF Events
<1> QED
  BY <1>2, <1>3, <1>4

LEMMA PageHasEntries ==
  ASSUME NEW l \in SUBSET Events, l # {}, NEW n \in Nat \ {0}, n <= PagesOf(l)
  PROVE  Slice(l, n, PerPage) # {}
<1>1. IsFiniteSet(l) /\ (\A d \in l : d \in Int) /\ Cardinality(l) \in Nat
  BY ListFacts
<1>2. (n - 1) * PerPage \in Nat /\ (n - 1) * PerPage < Cardinality(l)
      /\ (n - 1) * PerPage <= n * PerPage - 1
  BY <1>1, PageNumbers, EPAssumption DEF PagesOf
<1>3. PICK e \in l : Cardinality({d \in l : d > e}) = (n - 1) * PerPage
  BY <1>1, <1>2, EveryRank
<1>4. n * PerPage - 1 \in Int
  BY EPAssumption
<1> QED
  BY <1>2, <1>3, <1>4 DEF Slice

Places == Observed \cup {"invite", "login"}

LEMMA PresentEvents ==
  ASSUME ServerTyped PROVE Present \in SUBSET Events /\ (\A e \in Present : e \in Int)
BY EPAssumption DEF ServerTyped, Present, Events

LEMMA NewestTyped ==
  ASSUME ServerTyped, NEW l \in SUBSET Present
  PROVE  /\ l # {} => Newest(l) \in l
         /\ l = {} => Newest(l) = None
<1>1. l \in SUBSET Events
  BY PresentEvents
<1>2. IsFiniteSet(l) /\ \A e \in l : e \in Int
  BY <1>1, ListFacts
<1> QED
  BY <1>2, NewestListed DEF Newest

(* What a page shows when it is rendered: a selection of its list, and a   *)
(* page of it.                                                             *)
LEMMA Rendered ==
  ASSUME ServerTyped, ViewTyped, UNCHANGED count,
         NEW p \in Places, NEW c, List(c) \in SUBSET Present,
         NEW s \in Present \cup {None},
         NEW i \in Nat \ {0}, NEW n \in Nat \ {0}, NEW f,
         Render(p, c, s, i, n, f),
         (place = "list" /\ f = "all" /\ filter = f /\ List(c) # {}
            /\ Cardinality(List(c)) = Cardinality(List(cache)))
           => n <= PagesOf(List(c))
  PROVE  /\ ViewTyped' /\ SelectionListed' /\ PagesOK'
         /\ s \in List(c) => selected' = s
<1>1. place' = p /\ cache' = c /\ selected' = Adjusted(p, List(c), s)
  BY DEF Render
<1>2. /\ List(c) # {} => Newest(List(c)) \in List(c)
      /\ List(c) = {} => Newest(List(c)) = None
  BY NewestTyped
<1>3. selected' \in Present \cup {None} /\ (s \in List(c) => selected' = s)
  <2>1. s \in List(c) => s # None
    BY EPAssumption, PresentEvents DEF Events
  <2> QED
    BY <1>1, <1>2, <2>1 DEF Adjusted
<1>4. SelectionListed'
  BY <1>1, <1>2 DEF SelectionListed, Adjusted, List
<1>5. IsFiniteSet(List(c)) /\ Cardinality(List(c)) \in Nat
  BY PresentEvents, ListFacts
<1>6. PagesOf(List(c)) \in Nat /\ (List(c) # {} => 1 <= PagesOf(List(c)))
  <2>1. Cardinality(List(c)) > 0 <=> List(c) # {}
    BY <1>5, FS_EmptySet
  <2> QED
    BY <1>5, <2>1, PageNumbers, EPAssumption DEF PagesOf
<1>7. side' \in Nat \ {0} /\ (List(c) # {} => side' <= PagesOf(List(c)))
  BY <1>6 DEF Render, Clamped
<1>8. current' \in Nat \ {0}
  BY DEF Render, Reset
<1>9. p = "list" /\ filter' = "all" /\ List(c) # {} => current' <= PagesOf(List(c))
  BY <1>6 DEF Render, Reset
<1>10. PagesOK'
  BY <1>1, <1>7, <1>9 DEF PagesOK, List, PagesOf
<1>11. ViewTyped'
  BY <1>1, <1>3, <1>7, <1>8 DEF ViewTyped, Places, Present, List
<1> QED
  BY <1>3, <1>4, <1>10, <1>11

(* A page that is shown with its own page numbers, and a new list. *)
LEMMA Shown ==
  ASSUME ServerTyped, ViewTyped, PagesOK, UNCHANGED count,
         NEW p \in Places, NEW c, List(c) \in SUBSET Present,
         NEW s \in Present \cup {None}, Show(p, c, s)
  PROVE  /\ ViewTyped' /\ SelectionListed' /\ PagesOK'
         /\ s \in List(c) => selected' = s
         /\ place' = p /\ cache' = c
<1>1. /\ side \in Nat \ {0} /\ current \in Nat \ {0}
      /\ List(cache) \in SUBSET Present
  BY DEF ViewTyped
<1>2. /\ IsFiniteSet(List(c)) /\ Cardinality(List(c)) \in Nat
      /\ IsFiniteSet(List(cache)) /\ Cardinality(List(cache)) \in Nat
  BY <1>1, PresentEvents, ListFacts
<1>3. (place = "list" /\ filter = "all" /\ filter = filter /\ List(c) # {}
         /\ Cardinality(List(c)) = Cardinality(List(cache)))
        => current <= PagesOf(List(c))
  <2> SUFFICES ASSUME place = "list", filter = "all", List(c) # {},
                      Cardinality(List(c)) = Cardinality(List(cache))
               PROVE  current <= PagesOf(List(c))
    OBVIOUS
  <2>1. List(cache) # {}
    BY <1>2, FS_EmptySet
  <2>2. PagesOf(List(c)) = PagesOf(List(cache))
    BY DEF PagesOf
  <2>3. current <= PagesOf(List(cache))
    BY <2>1 DEF PagesOK
  <2> QED
    BY <2>2, <2>3
<1>4. Render(p, c, s, side, current, filter)
  BY DEF Show
<1>5. place' = p /\ cache' = c
  BY <1>4 DEF Render
<1>6. /\ ViewTyped' /\ SelectionListed' /\ PagesOK'
      /\ s \in List(c) => selected' = s
  <2> HIDE DEF Places, Present
  <2> QED
    BY <1>1, <1>3, <1>4, Rendered
<1> QED
  BY <1>5, <1>6

(* How a call goes on without the server: it ends, or keeps what it is     *)
(* about.                                                                  *)
Follows(g, h) ==
  \/ g \in CallType /\ g.pc = "done"
  \/ /\ \E at, clean : g = [h EXCEPT !.pc = at, !.clean = clean]
     /\ g.clean \in BOOLEAN /\ (g.clean => h.clean)
     /\ \/ g.pc = h.pc
        \/ <<h.pc, g.pc>> \in {<<"renew", "go">>, <<"sent", "lost">>, <<"confirm", "sent">>}

AllFollow ==
  /\ call' = [c \in Calls |-> call'[c]]
  /\ \A c \in Calls : Follows(call'[c], call[c])

LEMMA FollowsType ==
  ASSUME NEW h \in CallType, NEW g, Follows(g, h)
  PROVE  /\ g \in CallType
         /\ g.pc # "done" => /\ g.kind = h.kind /\ g.by = h.by
                             /\ g.event = h.event /\ g.rest = h.rest
         /\ CallOK(h) => CallOK(g)
         /\ CallOK(h) /\ g.kind = "create" /\ g.event = 0 /\ g.pc \notin {"ready", "done"} =>
              h.kind = "create" /\ h.event = 0 /\ h.pc \notin {"ready", "done"}
<1>1. CASE g \in CallType /\ g.pc = "done"
  BY <1>1 DEF CallOK, Awaiting
<1>2. CASE ~(g \in CallType /\ g.pc = "done")
  <2>1. PICK at, clean : g = [h EXCEPT !.pc = at, !.clean = clean]
    BY <1>2 DEF Follows
  <2>2. /\ g = [kind |-> h.kind, pc |-> at, host |-> h.host, by |-> h.by,
                event |-> h.event, rest |-> h.rest, clean |-> clean]
        /\ g.pc = at /\ g.clean = clean
    BY <2>1 DEF CallType
  <2>3. clean \in BOOLEAN
    BY <1>2, <2>2 DEF Follows
  <2>4. \/ at = h.pc
        \/ h.pc = "renew" /\ at = "go"
        \/ h.pc = "sent" /\ at = "lost"
        \/ h.pc = "confirm" /\ at = "sent"
    BY <1>2, <2>2 DEF Follows
  <2>5. at \in {"ready", "confirm", "sent", "lost", "done"} \cup Awaiting
    BY <2>4 DEF CallType, Awaiting
  <2>6. g \in CallType
    BY <2>2, <2>3, <2>5 DEF CallType
  <2>7. CallOK(h) => CallOK(g)
    BY <2>2, <2>4 DEF CallOK, Awaiting
  <2>8. CallOK(h) /\ g.kind = "create" /\ g.event = 0 /\ g.pc \notin {"ready", "done"} =>
          h.kind = "create" /\ h.event = 0 /\ h.pc \notin {"ready", "done"}
    BY <2>2, <2>4 DEF CallOK
  <2> QED
    BY <2>2, <2>6, <2>7, <2>8
<1> QED
  BY <1>1, <1>2

LEMMA FewerCreating ==
  ASSUME Creating' \subseteq Creating, count \in Nat, count' = count,
         count + Cardinality(Creating) <= MaxEvents
  PROVE  count' + Cardinality(Creating') <= MaxEvents
<1>1. IsFiniteSet(Creating)
  BY EPAssumption, FS_Subset DEF Creating
<1>2. Cardinality(Creating') <= Cardinality(Creating)
      /\ Cardinality(Creating) \in Nat /\ Cardinality(Creating') \in Nat
  BY <1>1, FS_Subset, FS_CardinalityType
<1> QED
  BY <1>2, EPAssumption

LEMMA FollowTyped ==
  ASSUME ServerTyped, CallsTyped, AllFollow, UNCHANGED <<count, maker>>
  PROVE  CallsTyped'
<1>1. \A c \in Calls : call[c] \in CallType /\ CallOK(call[c])
  BY DEF CallsTyped
<1>2. \A c \in Calls : call'[c] \in CallType /\ CallOK(call'[c])
  BY <1>1, FollowsType DEF AllFollow
<1>3. Creating' \subseteq Creating
  BY <1>1, FollowsType DEF AllFollow, Creating, Running
<1>4. count' + Cardinality(Creating') <= MaxEvents
  BY <1>3, FewerCreating DEF ServerTyped, CallsTyped
<1>5. CallType' = CallType
  BY DEF CallType, Present
<1>6. call' \in [Calls -> CallType]
  BY <1>2 DEF AllFollow
<1>7. \A c \in Calls : CallOK(call[c])'
  BY <1>2 DEF CallOK
<1> QED
  BY <1>4, <1>5, <1>6, <1>7 DEF CallsTyped

LEMMA FollowDeletions ==
  ASSUME CallsTyped, DeletionsDone, MakersIn, AllFollow, UNCHANGED server,
         \A e \in deleted' : e \in deleted \/ Gone(e)
  PROVE  DeletionsDone' /\ MakersIn'
<1>1. \A e : Gone(e)' <=> Gone(e)
  BY DEF Gone, server
<1>2. ASSUME NEW c \in Calls, call'[c].kind = "delete", call'[c].pc = "answered"
      PROVE  Gone(call'[c].event)
  <2>1. call[c] \in CallType /\ Follows(call'[c], call[c])
    BY DEF CallsTyped, AllFollow
  <2>2. call'[c].event = call[c].event /\ call'[c].kind = call[c].kind
    BY <1>2, <2>1, FollowsType
  <2>3. call[c].pc = "answered"
    BY <1>2, <2>1 DEF Follows
  <2> QED
    BY <1>2, <2>2, <2>3 DEF DeletionsDone
<1>3. DeletionsDone'
  BY <1>1, <1>2 DEF DeletionsDone
<1>4. MakersIn'
  BY <1>1 DEF MakersIn, server, Present
<1> QED
  BY <1>3, <1>4

LEMMA ReadyTyped == Ready \in CallType /\ [Ready EXCEPT !.pc = "done"] \in CallType
BY DEF Ready, CallType

LEMMA SameFollows ==
  ASSUME NEW h \in CallType PROVE Follows(h, h)
<1>1. h = [h EXCEPT !.pc = h.pc, !.clean = h.clean] /\ h.clean \in BOOLEAN
  BY DEF CallType
<1> QED
  BY <1>1 DEF Follows

LEMMA ReleasedFollows ==
  ASSUME CallsTyped, NEW ok \in BOOLEAN, NEW c \in Calls
  PROVE  /\ Follows(Released(call, ok)[c], call[c])
         /\ Follows([Released(call, ok)[c] EXCEPT !.clean = FALSE], call[c])
         /\ Follows([call[c] EXCEPT !.clean = FALSE], call[c])
<1> DEFINE h == call[c]
<1>1. h \in CallType
  BY DEF CallsTyped
<1>2. Follows([h EXCEPT !.clean = FALSE], h)
  <2>1. [h EXCEPT !.clean = FALSE] = [h EXCEPT !.pc = h.pc, !.clean = FALSE]
    BY <1>1 DEF CallType
  <2> QED
    BY <1>1, <2>1 DEF Follows, CallType
<1>3. CASE h.pc # "renew"
  BY <1>1, <1>2, <1>3, SameFollows DEF Released
<1>4. CASE h.pc = "renew"
  <2>1. Released(call, ok)[c] = [h EXCEPT !.pc = "go", !.clean = h.clean /\ ok]
    BY <1>1, <1>4 DEF Released, CallType
  <2>2. [Released(call, ok)[c] EXCEPT !.clean = FALSE] = [h EXCEPT !.pc = "go", !.clean = FALSE]
    BY <1>1, <2>1 DEF CallType
  <2>3. ASSUME NEW b \in BOOLEAN, b => h.clean
        PROVE  Follows([h EXCEPT !.pc = "go", !.clean = b], h)
    BY <1>1, <1>4, <2>3 DEF Follows, CallType
  <2>4. (h.clean /\ ok) \in BOOLEAN
    BY <1>1 DEF CallType
  <2> QED
    BY <1>2, <2>1, <2>2, <2>3, <2>4
<1> QED
  BY <1>3, <1>4

FetchType == [st : {"idle", "asked", "served"}, got : SUBSET Present,
              by : Users \cup {None}, sure : BOOLEAN]

(* What most steps do with the query: a fetch starts for who is there, or  *)
(* goes on and is trusted no more than before; and where no page was, none *)
(* that goes on is trusted.                                                *)
Started == fetch' = [Idle EXCEPT !.st = "asked", !.by = user']

GoesOn ==
  /\ fetch'.st = fetch.st /\ fetch'.got = fetch.got /\ fetch'.by = fetch.by
  /\ fetch'.sure => fetch.sure

QueryStep ==
  /\ UNCHANGED <<cache, doubt>>
  /\ fetch' \in FetchType /\ ((Started /\ place' \in Observed) \/ GoesOn)
  /\ place \notin Observed /\ place' \in Observed =>
       Started \/ (fetch.st # "idle" /\ ~fetch'.sure)

LEMMA StartedTyped ==
  ASSUME UserTyped' PROVE [Idle EXCEPT !.st = "asked", !.by = user'] \in FetchType
BY DEF UserTyped, Idle, FetchType

LEMMA AskedIs ==
  ASSUME UserTyped
  PROVE  /\ Asked \in FetchType /\ Asked.st = "asked" /\ Asked.by = user
         /\ Asked = [Idle EXCEPT !.st = "asked", !.by = user]
BY DEF UserTyped, Idle, FetchType, Asked

LEMMA SureChanges ==
  ASSUME QueryTyped, NEW b \in BOOLEAN, b => fetch.sure,
         fetch' = [fetch EXCEPT !.sure = b]
  PROVE  fetch' \in FetchType /\ GoesOn /\ fetch'.sure = b
<1>1. fetch \in FetchType
  BY DEF QueryTyped, FetchType
<1>2. fetch' = [st |-> fetch.st, got |-> fetch.got, by |-> fetch.by, sure |-> b]
  BY <1>1 DEF FetchType
<1> QED
  BY <1>1, <1>2 DEF FetchType, GoesOn

LEMMA VisitQueries ==
  ASSUME QueryTyped, UserTyped, NEW p, NEW s, Visit(p, s), UNCHANGED <<user, doubt>>
  PROVE  QueryStep
<1>1. cache' = cache /\ place' = p /\ MountFetch(p)
  BY DEF Visit, Show, Render
<1>2. fetch \in FetchType
  BY DEF QueryTyped, FetchType
<1>3. CASE ~Mounts(p)
  <2>1. fetch' = fetch
    BY <1>1, <1>3 DEF MountFetch
  <2>2. place \notin Observed => place' \notin Observed
    BY <1>1, <1>3 DEF Mounts, Observed
  <2> QED
    BY <1>1, <1>2, <2>1, <2>2 DEF QueryStep, GoesOn
<1>4. CASE Mounts(p) /\ fetch.st = "idle"
  <2>1. fetch' = Asked
    BY <1>1, <1>4 DEF MountFetch
  <2> QED
    BY <1>1, <1>4, <2>1, AskedIs DEF QueryStep, Started, Mounts
<1>5. CASE Mounts(p) /\ fetch.st # "idle"
  <2>1. fetch' = [fetch EXCEPT !.sure = @ /\ place \in Observed]
    BY <1>1, <1>5 DEF MountFetch
  <2>2. PICK b : b = (fetch.sure /\ place \in Observed)
    OBVIOUS
  <2>3. fetch' = [fetch EXCEPT !.sure = b]
    BY <1>2, <2>1, <2>2 DEF FetchType
  <2>4. b \in BOOLEAN /\ (b => fetch.sure) /\ (place \notin Observed => ~b)
    BY <1>2, <2>2 DEF FetchType
  <2>5. fetch' \in FetchType /\ GoesOn /\ fetch'.sure = b
    BY <2>3, <2>4, SureChanges
  <2> QED
    BY <1>1, <1>5, <2>4, <2>5 DEF QueryStep
<1> QED
  BY <1>3, <1>4, <1>5

LEMMA RenewedQueries ==
  ASSUME QueryTyped, UserTyped, fetch' = Renewed, UNCHANGED <<user, doubt, cache, place>>
  PROVE  /\ QueryStep
         /\ place \in Observed => fetch'.st # "idle"
         /\ place \in Observed => fetch'.st = "asked" \/ ~fetch'.sure
         /\ place \in Observed /\ ~JoinsFirst => fetch'.st = "asked"
<1>1. fetch \in FetchType
  BY DEF QueryTyped, FetchType
<1>2. CASE place \notin Observed
  BY <1>1, <1>2 DEF Renewed, QueryStep, GoesOn
<1>3. CASE place \in Observed /\ JoinsFirst
  <2>1. fetch' = [fetch EXCEPT !.sure = FALSE]
    BY <1>3 DEF Renewed
  <2>2. fetch' \in FetchType /\ GoesOn /\ fetch'.sure = FALSE
    BY <2>1, SureChanges
  <2> QED
    BY <1>3, <2>2 DEF QueryStep, GoesOn, JoinsFirst
<1>4. CASE place \in Observed /\ ~JoinsFirst
  <2>1. fetch' = Asked
    BY <1>4 DEF Renewed
  <2> QED
    BY <1>4, <2>1, AskedIs DEF QueryStep, Started
<1> QED
  BY <1>2, <1>3, <1>4

LEMMA SameQueries ==
  ASSUME QueryTyped, UNCHANGED <<query, place>> PROVE QueryStep
BY DEF QueryTyped, FetchType, QueryStep, GoesOn, query

(* What such a step keeps. *)
LEMMA QueryKeepsFetch ==
  ASSUME QueryTyped, FetchOwn, QueryStep, UNCHANGED count, UserTyped', GuardOK',
         place \in Observed /\ place' \in Observed => UNCHANGED user
  PROVE  QueryTyped' /\ FetchOwn'
<1>1. QueryTyped'
  BY DEF QueryTyped, QueryStep, FetchType, Present
<1>0. ASSUME fetch'.st # "idle" PROVE fetch'.by \in Users
  <2>1. CASE Started /\ place' \in Observed
    <3>1. user' # None
      BY <2>1 DEF GuardOK, Observed, App
    <3> QED
      BY <2>1, <3>1 DEF Started, Idle, UserTyped
  <2>2. CASE GoesOn
    BY <1>0, <2>2 DEF FetchOwn, GoesOn
  <2> QED
    BY <2>1, <2>2 DEF QueryStep
<1>2. ASSUME place' \in Observed, fetch'.st # "idle", fetch'.sure
      PROVE  fetch'.by = user'
  <2>1. CASE Started
    BY <2>1 DEF Started, Idle
  <2>2. CASE GoesOn /\ place \in Observed
    BY <1>2, <2>2 DEF FetchOwn, GoesOn
  <2>3. CASE GoesOn /\ place \notin Observed
    BY <1>2, <2>1, <2>3 DEF QueryStep
  <2> QED
    BY <2>1, <2>2, <2>3 DEF QueryStep
<1> QED
  BY <1>0, <1>1, <1>2 DEF FetchOwn

LEMMA QueryKeepsDeletions ==
  ASSUME QueryTyped, DeletionsSeen, QueryStep,
         \A e \in deleted' : e \in deleted \/
           (place' \in Observed => fetch'.st = "asked" \/ (fetch'.st = "served" /\ ~fetch'.sure))
  PROVE  DeletionsSeen'
<1> SUFFICES ASSUME place' \in Observed, NEW e \in deleted'
             PROVE  \/ fetch'.st = "asked"
                    \/ fetch'.st = "served" /\ (~fetch'.sure \/ e \notin fetch'.got)
                    \/ fetch'.st = "idle" /\ (doubt' \/ e \notin List(cache'))
  BY DEF DeletionsSeen, List
<1>1. CASE Started
  BY <1>1 DEF Started, Idle
<1>2. CASE GoesOn /\ place \in Observed
  BY <1>2 DEF GoesOn, DeletionsSeen, QueryStep
<1>3. CASE GoesOn /\ place \notin Observed
  BY <1>3 DEF GoesOn, QueryStep, Started, Idle, QueryTyped, FetchType
<1> QED
  BY <1>1, <1>2, <1>3 DEF QueryStep

LEMMA QueryKeepsRenewal ==
  ASSUME QueryTyped, CallsTyped, NEW c \in Calls, RenewalOK(call[c]), QueryStep,
         UNCHANGED server,
         \/ UNCHANGED user /\ (place \in Observed => place' \in Observed)
         \/ ~call'[c].clean
         \/ place \notin Observed,
         Follows(call'[c], call[c]),
         call'[c].pc = "go" /\ call'[c].clean => call[c].pc = "go"
  PROVE  RenewalOK(call[c])'
<1>1. call[c] \in CallType
  BY DEF CallsTyped
<1>2. \A e : Gone(e)' <=> Gone(e)
  BY DEF Gone, server
<1> SUFFICES ASSUME call'[c].pc \in {"renew", "go"}, call'[c].clean
             PROVE  RenewalOK(call[c])'
  BY DEF RenewalOK
<1>3. /\ call[c].pc = call'[c].pc /\ call[c].clean
      /\ call'[c].event = call[c].event /\ call'[c].by = call[c].by
  BY <1>1, FollowsType DEF Follows
<1>4. place \in Observed /\ place' \in Observed /\ user' = user
  BY <1>3 DEF RenewalOK
<1>5. CASE Started
  BY <1>2, <1>3, <1>4, <1>5 DEF RenewalOK, Started, Idle, QueryStep, List
<1>6. CASE GoesOn
  BY <1>2, <1>3, <1>4, <1>6 DEF RenewalOK, GoesOn, QueryStep, List
<1> QED
  BY <1>5, <1>6 DEF QueryStep

LEMMA QueryKeepsWanted ==
  ASSUME QueryTyped, WantedKept, QueryStep, UNCHANGED <<user, server>>,
         wanted' # None => /\ wanted' = wanted /\ selected' = selected
                           /\ place' \in Observed
  PROVE  WantedKept'
<1> SUFFICES ASSUME wanted' # None PROVE WantedKept'
  BY DEF WantedKept
<1>1. CASE Started
  BY <1>1 DEF WantedKept, Started, Idle, QueryStep, List, server
<1>2. CASE GoesOn
  BY <1>2 DEF WantedKept, GoesOn, QueryStep, List, server
<1> QED
  BY <1>1, <1>2 DEF QueryStep

(* What a step that leaves the server alone owes. *)
LEMMA FollowPreserves ==
  ASSUME IInv, UNCHANGED server, AllFollow,
         \A e \in deleted' : e \in deleted \/ Gone(e),
         ViewTyped', QueryTyped', UserTyped', GuardOK',
         DeletionsSeen', SelectionListed', FetchOwn', WantedKept', PagesOK',
         \A c \in Calls : RenewalOK(call[c])'
  PROVE  IInv'
<1>1. ServerTyped' /\ UNCHANGED <<count, maker>>
  BY DEF IInv, Typed, ServerTyped, server, Present
<1>2. CallsTyped'
  BY <1>1, FollowTyped DEF IInv, Typed
<1>3. DeletionsDone' /\ MakersIn'
  BY FollowDeletions DEF IInv, Typed
<1> QED
  BY <1>1, <1>2, <1>3 DEF IInv, Typed

LEMMA QueryPreserves ==
  ASSUME IInv, UNCHANGED server, QueryStep, AllFollow,
         \/ UNCHANGED user /\ (place \in Observed => place' \in Observed)
         \/ \A c \in Calls : ~call'[c].clean
         \/ place \notin Observed,
         place \in Observed /\ place' \in Observed => UNCHANGED user,
         \A c \in Calls : call'[c].pc = "go" /\ call'[c].clean => call[c].pc = "go",
         \A e \in deleted' : e \in deleted \/
           /\ Gone(e)
           /\ place' \in Observed => fetch'.st = "asked" \/ (fetch'.st = "served" /\ ~fetch'.sure),
         ViewTyped', SelectionListed', PagesOK', UserTyped', GuardOK', WantedKept'
  PROVE  IInv'
<1>1. UNCHANGED count
  BY DEF server
<1>4. QueryTyped' /\ FetchOwn'
  BY <1>1, QueryKeepsFetch DEF IInv, Typed
<1>5. DeletionsSeen'
  BY QueryKeepsDeletions DEF IInv, Typed
<1>6. \A c \in Calls : RenewalOK(call[c])'
  <2> TAKE c \in Calls
  <2> QED
    BY QueryKeepsRenewal DEF IInv, Typed, AllFollow
<1> QED
  BY <1>4, <1>5, <1>6, FollowPreserves

LEMMA SameView ==
  ASSUME ViewTyped, SelectionListed, PagesOK, UNCHANGED <<view, cache, count>>
  PROVE  ViewTyped' /\ SelectionListed' /\ PagesOK'
BY DEF ViewTyped, SelectionListed, PagesOK, view, Present, List, PagesOf

LEMMA SameCalls ==
  ASSUME CallsTyped, UNCHANGED call
  PROVE  AllFollow /\ \A c \in Calls : call'[c] = call[c]
BY SameFollows DEF CallsTyped, AllFollow

LEMMA SameUser ==
  ASSUME UserTyped, UNCHANGED <<user, wanted, deleted, count>> PROVE UserTyped'
BY DEF UserTyped, Present

LEMMA FocusPreserves ==
  ASSUME IInv, Focus PROVE IInv'
<1>1. UNCHANGED <<server, view, user, call, wanted, deleted, cache, doubt>>
      /\ fetch' = Asked /\ place \in Observed
  BY DEF Focus
<1>2. UNCHANGED <<count, place, selected>>
  BY <1>1 DEF server, view
<1>3. QueryStep
  BY <1>1, <1>2, AskedIs DEF IInv, Typed, QueryStep, Started
<1>4. ViewTyped' /\ SelectionListed' /\ PagesOK' /\ UserTyped'
  BY <1>1, <1>2, SameView, SameUser DEF IInv, Typed
<1>5. GuardOK'
  BY <1>1, <1>2 DEF IInv, GuardOK
<1>6. WantedKept'
  BY <1>1, <1>2, <1>3, QueryKeepsWanted DEF IInv, Typed, WantedKept
<1>7. AllFollow /\ \A c \in Calls : call'[c] = call[c]
  BY <1>1, SameCalls DEF IInv, Typed
<1> QED
  BY <1>1, <1>2, <1>3, <1>4, <1>5, <1>6, <1>7, QueryPreserves

(* Calls that are released by a fetch that was abandoned. *)
LEMMA Abandoned ==
  ASSUME CallsTyped, call' \in {call, Released(call, FALSE)}
  PROVE  /\ AllFollow
         /\ \A c \in Calls : call'[c].pc = "go" /\ call'[c].clean => call[c].pc = "go"
<1>1. CASE call' = call
  BY <1>1, SameCalls
<1>2. CASE call' = Released(call, FALSE)
  <2>1. \A c \in Calls : call'[c] = Released(call, FALSE)[c] /\ Follows(call'[c], call[c])
    BY <1>2, ReleasedFollows
  <2>2. AllFollow
    BY <1>2, <2>1 DEF AllFollow, Released
  <2>3. \A c \in Calls : call[c] \in CallType
    BY DEF CallsTyped
  <2>4. \A c \in Calls : call'[c].pc = "go" /\ call'[c].clean => call[c].pc = "go"
    BY <1>2, <2>3 DEF Released, CallType
  <2> QED
    BY <2>2, <2>4
<1> QED
  BY <1>1, <1>2

LEMMA RefreshPreserves ==
  ASSUME IInv, handleRefresh PROVE IInv'
<1>1. UNCHANGED <<server, view, user, wanted, deleted, cache, doubt>>
      /\ fetch' = Renewed /\ place \in Observed
      /\ call' \in {call, Released(call, FALSE)}
  BY DEF handleRefresh
<1>2. UNCHANGED <<count, place, selected>>
  BY <1>1 DEF server, view
<1>3. QueryStep
  BY <1>1, <1>2, RenewedQueries DEF IInv, Typed
<1>4. ViewTyped' /\ SelectionListed' /\ PagesOK' /\ UserTyped'
  BY <1>1, <1>2, SameView, SameUser DEF IInv, Typed
<1>5. GuardOK'
  BY <1>1, <1>2 DEF IInv, GuardOK
<1>6. WantedKept'
  BY <1>1, <1>2, <1>3, QueryKeepsWanted DEF IInv, Typed, WantedKept
<1>7. /\ AllFollow
      /\ \A c \in Calls : call'[c].pc = "go" /\ call'[c].clean => call[c].pc = "go"
  BY <1>1, Abandoned DEF IInv, Typed
<1> QED
  BY <1>1, <1>2, <1>3, <1>4, <1>5, <1>6, <1>7, QueryPreserves

(* A visit, whatever becomes of the calls and of what the user wanted. *)
LEMMA VisitPreserves ==
  ASSUME IInv, NEW p \in Places, NEW s \in Present \cup {None}, Visit(p, s),
         UNCHANGED <<server, user, deleted, doubt>>, AllFollow,
         \A c \in Calls : call'[c].pc = "go" /\ call'[c].clean => call[c].pc = "go",
         user = None <=> p = "login", p = "invite" => place \notin Observed,
         wanted' # None =>
           /\ user # None /\ p \in Observed /\ wanted' = s
           /\ s \in members[user] \cap List(cache)
           /\ fetch.st = "served" /\ fetch.sure => s \in fetch.got
  PROVE  IInv'
<1>1. QueryStep
  BY VisitQueries DEF IInv, Typed
<1>2. Show(p, cache, s) /\ UNCHANGED count
  BY DEF Visit, server
<1>3. /\ ViewTyped' /\ SelectionListed' /\ PagesOK'
      /\ s \in List(cache) => selected' = s
      /\ place' = p /\ cache' = cache
  BY <1>2, Shown DEF IInv, Typed, ViewTyped
<1>4. GuardOK'
  BY <1>3 DEF GuardOK
<1>5. UserTyped'
  BY <1>2 DEF IInv, Typed, UserTyped, Present
<1>6. place \in Observed => place' \in Observed
  <2>1. place \in Observed => p # "login"
    BY DEF IInv, GuardOK, Observed, App
  <2> QED
    BY <1>3, <2>1 DEF Places
<1>7. WantedKept'
  <2> SUFFICES ASSUME wanted' # None
               PROVE  WantedKept'
    BY DEF WantedKept
  <2>1. fetch'.st = "served" /\ fetch'.sure => s \in fetch'.got
    <3>1. CASE Started
      BY <3>1 DEF Started, Idle
    <3>2. CASE GoesOn
      BY <3>2 DEF GoesOn
    <3> QED
      BY <1>1, <3>1, <3>2 DEF QueryStep
  <2>2. /\ user # None /\ p \in Observed /\ wanted' = s
        /\ s \in members[user] \cap List(cache)
    OBVIOUS
  <2>3. members' = members /\ user' = user /\ List(cache)' = List(cache)
    BY <1>3 DEF server, List
  <2>4. selected' = s /\ place' \in Observed
    BY <1>3, <2>2
  <2> QED
    BY <2>1, <2>2, <2>3, <2>4 DEF WantedKept
<1> QED
  BY <1>1, <1>3, <1>4, <1>5, <1>6, <1>7, QueryPreserves

LEMMA Inside ==
  ASSUME GuardOK, place \in Observed PROVE user # None
BY DEF GuardOK, Observed, App

LEMMA WantedTyped ==
  ASSUME IInv, wanted # None
  PROVE  /\ user # None /\ wanted = selected
         /\ wanted \in members[user] \cap List(cache)
         /\ fetch.st = "served" /\ fetch.sure => wanted \in fetch.got
BY Inside DEF IInv, WantedKept

LEMMA GoPreserves ==
  ASSUME IInv, NEW p \in Tour, Go(p) PROVE IInv'
<1>1. p \in Places /\ p \in Observed
  BY EPAssumption DEF Places, Observed, App
<1>2. p # "login" /\ p # "invite" /\ user # None
  BY <1>1, Inside DEF IInv, Go, Observed, App
<1>3. selected \in Present \cup {None}
  BY DEF IInv, Typed, ViewTyped
<1>4. AllFollow /\ \A c \in Calls : call'[c] = call[c]
  BY SameCalls DEF IInv, Typed, Go
<1> QED
  BY <1>1, <1>2, <1>3, <1>4, WantedTyped, VisitPreserves DEF Go

(* What is wanted of a choice. *)
LEMMA Chosen ==
  ASSUME ServerTyped, NEW e, wanted' = StillIn(e, members), wanted' # None
  PROVE  /\ user # None /\ wanted' = e /\ e \in members[user]
         /\ fetch.st = "served" => e \in fetch.got
BY DEF StillIn

LEMMA ChoosePreserves ==
  ASSUME IInv, NEW e \in Events, Choose(e) \/ handleNotificationClick(e) PROVE IInv'
<1>1. Visit("activity", e) /\ UNCHANGED <<server, user, call, deleted, doubt>>
  BY DEF Choose, handleNotificationClick
<1>2. place \in Observed
  BY DEF Choose, handleNotificationClick, Offered, SidebarEvents, HomeEvents, EventCards,
    ExpenseRows, Observed, App
<1>3. e \in Present
  <2>1. Offered \subseteq List(cache)
    BY DEF Offered, SidebarEvents, HomeEvents, EventCards, ExpenseRows, Slice, Filtered
  <2> QED
    BY <2>1 DEF Choose, handleNotificationClick, IInv, Typed, ViewTyped, Present
<1>4. wanted' # None => e \in List(cache) /\ wanted' = StillIn(e, members)
  <2>1. Offered \subseteq List(cache)
    BY DEF Offered, SidebarEvents, HomeEvents, EventCards, ExpenseRows, Slice, Filtered
  <2> QED
    BY <2>1 DEF Choose, handleNotificationClick
<1>5. user # None /\ "activity" \in Observed /\ "activity" \in Places
  BY <1>2, Inside DEF IInv, Observed, App, Places
<1>6. AllFollow /\ \A c \in Calls : call'[c] = call[c]
  BY <1>1, SameCalls DEF IInv, Typed
<1>7. wanted' # None =>
        /\ user # None /\ "activity" \in Observed /\ wanted' = e
        /\ e \in members[user] \cap List(cache)
        /\ fetch.st = "served" /\ fetch.sure => e \in fetch.got
  BY <1>4, <1>5, Chosen DEF IInv, Typed
<1> QED
  BY <1>1, <1>3, <1>5, <1>6, <1>7, VisitPreserves

(* Turning pages and filtering. *)
LEMMA TurnPreserves ==
  ASSUME IInv,
         \/ \E n \in Events : TurnSidebar(n) \/ TurnList(n)
         \/ \E f \in Filters : setTimeFilter(f)
  PROVE  IInv'
<1>1. UNCHANGED <<server, user, call, wanted, deleted, doubt, fetch>> /\ place \in App
  BY DEF TurnSidebar, TurnList, setTimeFilter, App
<1>0. place \in Places /\ selected \in Present \cup {None} /\ List(cache) \in SUBSET Present
      /\ side \in Nat \ {0} /\ current \in Nat \ {0}
  BY DEF IInv, Typed, ViewTyped, Places
<1>2. UNCHANGED count /\ ServerTyped /\ ViewTyped
  BY <1>1 DEF server, IInv, Typed
<1>3. \A n \in Events : n \in Nat \ {0}
  BY EPAssumption DEF Events
<1>4. /\ ViewTyped' /\ SelectionListed' /\ PagesOK'
      /\ selected \in List(cache) => selected' = selected
      /\ place' = place /\ cache' = cache
  <2>1. CASE \E n \in Events : TurnSidebar(n)
    <3>1. PICK n \in Events : TurnSidebar(n)
      BY <2>1
    <3>2. Render(place, cache, selected, n, current, filter)
      BY <3>1 DEF TurnSidebar
    <3>3. place = "list" /\ filter = "all" /\ List(cache) # {} => current <= PagesOf(List(cache))
      BY DEF IInv, PagesOK
    <3> HIDE DEF Places, Present
    <3>4. ViewTyped' /\ SelectionListed' /\ PagesOK'
          /\ (selected \in List(cache) => selected' = selected)
      BY <1>0, <1>2, <1>3, <3>2, <3>3, Rendered
    <3> QED
      BY <3>2, <3>4 DEF Render
  <2>2. CASE \E n \in Events : TurnList(n)
    <3>1. PICK n \in Events : TurnList(n)
      BY <2>2
    <3>2. Render(place, cache, selected, side, n, filter)
      BY <3>1 DEF TurnList
    <3>3. PagesOf(List(cache)) \in Nat
      BY <1>0, <1>2, PresentEvents, ListFacts, PageNumbers, EPAssumption DEF PagesOf
    <3>4. filter = "all" => n <= PagesOf(List(cache))
      BY <1>3, <3>1, <3>3 DEF TurnList, Filtered
    <3> HIDE DEF Places, Present
    <3>5. ViewTyped' /\ SelectionListed' /\ PagesOK'
          /\ (selected \in List(cache) => selected' = selected)
      BY <1>0, <1>2, <1>3, <3>2, <3>4, Rendered
    <3> QED
      BY <3>2, <3>5 DEF Render
  <2>3. CASE \E f \in Filters : setTimeFilter(f)
    <3>1. PICK f \in Filters : setTimeFilter(f)
      BY <2>3
    <3>2. Render(place, cache, selected, side, current, f) /\ f # filter
      BY <3>1 DEF setTimeFilter
    <3> HIDE DEF Places, Present
    <3>3. ViewTyped' /\ SelectionListed' /\ PagesOK'
          /\ (selected \in List(cache) => selected' = selected)
      BY <1>0, <1>2, <3>2, Rendered
    <3> QED
      BY <3>2, <3>3 DEF Render
  <2> QED
    BY <2>1, <2>2, <2>3
<1>5. QueryStep
  BY <1>1, <1>4, SameQueries DEF IInv, Typed, query
<1>6. UserTyped' /\ GuardOK'
  BY <1>1, <1>2, <1>4, SameUser DEF IInv, Typed, GuardOK
<1>7. WantedKept'
  <2>1. wanted' # None => selected' = selected /\ place' \in Observed
    BY <1>1, <1>4, WantedTyped DEF Observed
  <2> QED
    BY <1>1, <1>5, <2>1, QueryKeepsWanted DEF IInv, Typed
<1>8. AllFollow /\ \A c \in Calls : call'[c] = call[c]
  BY <1>1, SameCalls DEF IInv, Typed
<1> QED
  BY <1>1, <1>4, <1>5, <1>6, <1>7, <1>8, QueryPreserves

(* One call goes on, or ends, and nothing else changes. *)
LEMMA CallGoesOn ==
  ASSUME IInv, NEW c \in Calls, NEW g, Follows(g, call[c]), g.pc # "go",
         call' = [call EXCEPT ![c] = g],
         UNCHANGED <<server, query, view, user, wanted, deleted>>
  PROVE  IInv'
<1>1. UNCHANGED <<count, place, selected, cache, doubt, fetch>>
  BY DEF server, view, query
<1>2. QueryStep
  BY <1>1, SameQueries DEF IInv, Typed
<1>3. ViewTyped' /\ SelectionListed' /\ PagesOK' /\ UserTyped'
  BY <1>1, SameView, SameUser DEF IInv, Typed
<1>4. GuardOK'
  BY <1>1 DEF IInv, GuardOK
<1>5. WantedKept'
  BY <1>1, <1>2, QueryKeepsWanted DEF IInv, Typed, WantedKept
<1>6. /\ AllFollow
      /\ \A d \in Calls : call'[d].pc = "go" /\ call'[d].clean => call[d].pc = "go"
  <2>1. call \in [Calls -> CallType]
    BY DEF IInv, Typed, CallsTyped
  <2>2. \A d \in Calls : call'[d] = IF d = c THEN g ELSE call[d]
    BY <2>1
  <2>3. \A d \in Calls : Follows(call'[d], call[d])
    BY <2>1, <2>2, SameFollows
  <2>4. call' = [d \in Calls |-> call'[d]]
    BY <2>1
  <2> QED
    BY <2>2, <2>3, <2>4 DEF AllFollow
<1> QED
  BY <1>1, <1>2, <1>3, <1>4, <1>5, <1>6, QueryPreserves

LEMMA EndFollows ==
  ASSUME NEW h PROVE /\ Follows([Ready EXCEPT !.pc = "done"], h)
                     /\ [Ready EXCEPT !.pc = "done"].pc = "done"
BY ReadyTyped DEF Follows, Ready

LEMMA ConfirmPreserves ==
  ASSUME IInv, NEW c \in Calls, NEW yes \in BOOLEAN, onConfirm(c, yes) PROVE IInv'
<1> DEFINE g == [call[c] EXCEPT !.pc = IF yes THEN "sent" ELSE "done"]
<1>1. call[c] \in CallType /\ call \in [Calls -> CallType]
  BY DEF IInv, Typed, CallsTyped
<1>2. call' = [call EXCEPT ![c] = g]
  BY <1>1 DEF onConfirm
<1>3. g \in CallType /\ g.pc # "go"
  BY <1>1 DEF CallType
<1>4. CASE yes
  <2>1. g = [call[c] EXCEPT !.pc = "sent", !.clean = call[c].clean]
    BY <1>1, <1>4 DEF CallType
  <2>2. g.pc = "sent" /\ g.clean = call[c].clean /\ call[c].pc = "confirm"
        /\ call[c].clean \in BOOLEAN
    BY <1>1, <1>4 DEF CallType, onConfirm
  <2>3. \E at, clean : g = [call[c] EXCEPT !.pc = at, !.clean = clean]
    BY <2>1
  <2>4. Follows(g, call[c])
    <3> HIDE DEF g
    <3> QED
      BY <2>2, <2>3 DEF Follows
  <2> HIDE DEF g
  <2> QED
    BY <1>2, <1>3, <2>4, CallGoesOn DEF onConfirm
<1>5. CASE ~yes
  <2>1. g.pc = "done"
    BY <1>1, <1>5 DEF CallType
  <2>2. Follows(g, call[c])
    <3> HIDE DEF g
    <3> QED
      BY <1>3, <2>1 DEF Follows
  <2> HIDE DEF g
  <2> QED
    BY <1>2, <1>3, <2>2, CallGoesOn DEF onConfirm
<1> QED
  BY <1>4, <1>5

LEMMA FailPreserves ==
  ASSUME IInv, NEW c \in Calls, Fail(c) PROVE IInv'
BY EndFollows, CallGoesOn DEF Fail

LEMMA Ended ==
  ASSUME CallsTyped, NEW c \in Calls,
         call' = [call EXCEPT ![c] = [Ready EXCEPT !.pc = "done"]]
  PROVE  /\ AllFollow
         /\ \A d \in Calls : call'[d].pc = "go" /\ call'[d].clean => call[d].pc = "go"
<1> DEFINE g == [Ready EXCEPT !.pc = "done"]
<1>1. call \in [Calls -> CallType]
  BY DEF CallsTyped
<1>2. \A d \in Calls : call'[d] = IF d = c THEN g ELSE call[d]
  BY <1>1
<1>3. \A d \in Calls : Follows(g, call[d]) /\ g.pc = "done"
  BY EndFollows
<1>4. call' = [d \in Calls |-> call'[d]]
  BY <1>1
<1> HIDE DEF g
<1>5. \A d \in Calls : Follows(call'[d], call[d])
  BY <1>1, <1>2, <1>3, SameFollows
<1> QED
  BY <1>2, <1>3, <1>4, <1>5 DEF AllFollow

(* What an answer to the user, or a creation, is about. *)
LEMMA Answered ==
  ASSUME IInv, NEW c \in Calls, call[c].pc \in Awaiting
  PROVE  call[c].event \in Present /\ call[c].by \in Users
<1>1. call[c] \in CallType /\ CallOK(call[c])
  BY DEF IInv, Typed, CallsTyped
<1> QED
  BY <1>1 DEF CallType, CallOK

LEMMA AuthPlace ==
  ASSUME NEW p, p = RequireAuth("activity")
  PROVE  /\ p \in Places /\ p # "invite" /\ (user = None <=> p = "login")
         /\ user # None => p \in Observed
BY DEF RequireAuth, Places, Observed, App

LEMMA OpenPreserves ==
  ASSUME IInv, NEW c \in Calls, OpenCreated(c) PROVE IInv'
<1> DEFINE h == call[c]
           p == RequireAuth("activity")
<1>1. Visit(p, h.event) /\ UNCHANGED <<server, user, deleted, doubt>> /\ h.pc = "go"
  BY DEF OpenCreated
<1>2. h.event \in Present /\ h.by \in Users
  BY <1>1, Answered DEF Awaiting
<1>3. p \in Places /\ p # "invite" /\ (user = None <=> p = "login")
      /\ (user # None => p \in Observed)
  BY AuthPlace
<1>4. /\ AllFollow
      /\ \A d \in Calls : call'[d].pc = "go" /\ call'[d].clean => call[d].pc = "go"
  BY Ended DEF OpenCreated, IInv, Typed
<1>5. ASSUME wanted' # None
      PROVE  /\ user # None /\ p \in Observed /\ wanted' = h.event
             /\ h.event \in members[user] \cap List(cache)
             /\ fetch.st = "served" /\ fetch.sure => h.event \in fetch.got
  <2>1. h.clean /\ user = h.by /\ wanted' = StillIn(h.event, members)
    BY <1>5 DEF OpenCreated
  <2>2. /\ user # None /\ wanted' = h.event /\ h.event \in members[user]
        /\ fetch.st = "served" => h.event \in fetch.got
    BY <1>5, <2>1, Chosen DEF IInv, Typed
  <2>3. h.event \in List(cache) \/ Gone(h.event)
    BY <1>1, <2>1 DEF IInv, RenewalOK
  <2>4. ~Gone(h.event)
    BY <1>2, <2>1, <2>2 DEF Gone
  <2> QED
    BY <1>3, <2>2, <2>3, <2>4
<1> HIDE DEF p, h
<1> QED
  BY <1>1, <1>2, <1>3, <1>4, <1>5, VisitPreserves

LEMMA JoinedPreserves ==
  ASSUME IInv, NEW c \in Calls, Joined(c) PROVE IInv'
<1> DEFINE h == call[c]
           p == RequireAuth("activity")
<1>1. Visit(p, h.event) /\ UNCHANGED <<server, user, deleted, doubt>> /\ h.pc = "answered"
      /\ wanted' = None
  BY DEF Joined
<1>2. h.event \in Present
  BY <1>1, Answered DEF Awaiting
<1>3. p \in Places /\ p # "invite" /\ (user = None <=> p = "login")
  BY AuthPlace
<1>4. /\ AllFollow
      /\ \A d \in Calls : call'[d].pc = "go" /\ call'[d].clean => call[d].pc = "go"
  BY Ended DEF Joined, IInv, Typed
<1> HIDE DEF p, h
<1> QED
  BY <1>1, <1>2, <1>3, <1>4, VisitPreserves

LEMMA NobodyWanted ==
  ASSUME UserTyped, user' \in Users \cup {None}, UNCHANGED count, deleted' = deleted,
         wanted' = None
  PROVE  UserTyped' /\ WantedKept'
BY DEF UserTyped, WantedKept, Present

LEMMA LoadPreserves ==
  ASSUME IInv, NEW p \in {place, "invite"}, Load(p) PROVE IInv'
<1>1. /\ UNCHANGED <<server, user, deleted>> /\ user # None
      /\ place' = p /\ cache' = None /\ wanted' = None /\ doubt' = FALSE
  BY DEF Load
<1>2. UNCHANGED count /\ user \in Users
  BY <1>1 DEF server, IInv, Typed, UserTyped
<1>3. UserTyped' /\ WantedKept'
  BY <1>1, <1>2, NobodyWanted DEF IInv, Typed, UserTyped
<1>4. p \in Places /\ p # "login"
  BY <1>1 DEF IInv, Typed, ViewTyped, GuardOK, Places
<1>5. GuardOK'
  BY <1>1, <1>4 DEF GuardOK
<1>6. List(cache)' = {} /\ Newest({}) = None
  BY <1>1 DEF List, Newest
<1>7. selected' \in {selected, None} /\ (p = "activity" => selected' = None)
  BY <1>6 DEF Load, Adjusted
<1>8. side' = 1 /\ current' = 1
  BY DEF Load
<1>9. ViewTyped' /\ SelectionListed' /\ PagesOK'
  BY <1>1, <1>2, <1>4, <1>6, <1>7, <1>8
     DEF IInv, Typed, ViewTyped, Places, SelectionListed, PagesOK, Present
<1>10. /\ fetch' \in FetchType
       /\ p \in Observed => fetch'.st = "asked" /\ fetch'.by = user
       /\ p \notin Observed => fetch'.st = "idle"
  BY AskedIs DEF Load, IInv, Typed, Idle, FetchType
<1>11. QueryTyped' /\ FetchOwn' /\ DeletionsSeen'
  BY <1>1, <1>2, <1>10 DEF QueryTyped, FetchType, FetchOwn, DeletionsSeen, Present
<1>12. ASSUME NEW c \in Calls
       PROVE  Follows(call'[c], call[c]) /\ call'[c].pc \notin {"renew", "go"}
  <2>1. call[c] \in CallType
    BY DEF IInv, Typed, CallsTyped
  <2>2. CASE call[c].pc = "sent"
    <3>1. call'[c] = [call[c] EXCEPT !.pc = "lost"]
      BY <2>2 DEF Load
    <3>2. call'[c] = [call[c] EXCEPT !.pc = "lost", !.clean = call[c].clean]
          /\ call'[c].pc = "lost" /\ call'[c].clean = call[c].clean
      BY <2>1, <3>1 DEF CallType
    <3>3. \E at, clean : call'[c] = [call[c] EXCEPT !.pc = at, !.clean = clean]
      BY <3>2
    <3> QED
      BY <2>1, <2>2, <3>2, <3>3 DEF Follows, CallType
  <2>3. CASE call[c].pc # "sent" /\ Running(c) /\ call[c].pc # "lost"
    <3>1. call'[c] = [Ready EXCEPT !.pc = "done"]
      BY <2>3 DEF Load
    <3> QED
      BY <3>1, EndFollows
  <2>4. CASE call[c].pc # "sent" /\ ~(Running(c) /\ call[c].pc # "lost")
    <3>1. call'[c] = call[c]
      BY <2>4 DEF Load
    <3> QED
      BY <2>1, <2>4, <3>1, SameFollows DEF Running
  <2> QED
    BY <2>2, <2>3, <2>4
<1>13. AllFollow
  BY <1>12 DEF AllFollow, Load
<1>14. \A c \in Calls : RenewalOK(call[c])'
  BY <1>12 DEF RenewalOK
<1> QED
  BY <1>1, <1>3, <1>5, <1>9, <1>11, <1>13, <1>14, FollowPreserves

LEMMA LogoutPreserves ==
  ASSUME IInv, NEW clear \in BOOLEAN, logout(clear) PROVE IInv'
<1> DEFINE d == IF clear THEN None ELSE cache
<1>1. /\ UNCHANGED <<server, deleted, doubt>> /\ user' = None /\ wanted' = None
      /\ Show("login", d, selected) /\ fetch' \in {Idle, fetch}
  BY DEF logout
<1>2. UNCHANGED count
  BY <1>1 DEF server
<1>3. UserTyped' /\ WantedKept'
  BY <1>1, <1>2, NobodyWanted DEF IInv, Typed
<1>4. List(d) \in SUBSET Present /\ selected \in Present \cup {None}
  BY DEF IInv, Typed, ViewTyped, List
<1>5. ViewTyped' /\ SelectionListed' /\ PagesOK' /\ place' = "login"
  <2>1. "login" \in Places
    BY DEF Places
  <2>2. ServerTyped /\ ViewTyped /\ PagesOK
    BY DEF IInv, Typed
  <2> HIDE DEF d, Places, Present
  <2> QED
    BY <1>1, <1>2, <1>4, <2>1, <2>2, Shown
<1>6. GuardOK'
  BY <1>1, <1>5 DEF GuardOK
<1>7. place' \notin Observed
  BY <1>5 DEF Observed, App
<1>8. QueryTyped' /\ FetchOwn' /\ DeletionsSeen'
  <2>1. CASE fetch' = fetch
    BY <1>1, <1>2, <1>7, <2>1
       DEF IInv, Typed, QueryTyped, FetchOwn, DeletionsSeen, Present
  <2>2. CASE fetch' = Idle
    BY <1>1, <1>2, <1>7, <2>2
       DEF IInv, Typed, QueryTyped, FetchOwn, DeletionsSeen, Present, Idle
  <2> QED
    BY <1>1, <2>1, <2>2
<1>9. ASSUME NEW c \in Calls PROVE Follows(call'[c], call[c]) /\ ~call'[c].clean
  <2>1. call[c] \in CallType
    BY DEF IInv, Typed, CallsTyped
  <2>2. call'[c] \in {[call[c] EXCEPT !.clean = FALSE],
                      [Released(call, FALSE)[c] EXCEPT !.clean = FALSE]}
    BY DEF logout
  <2>3. Follows(call'[c], call[c])
    BY <2>2, ReleasedFollows DEF IInv, Typed
  <2>4. Released(call, FALSE)[c] \in CallType
    BY ReleasedFollows, FollowsType, <2>1 DEF IInv, Typed
  <2>5. ~call'[c].clean
    BY <2>1, <2>2, <2>4 DEF CallType
  <2> QED
    BY <2>3, <2>5
<1>10. AllFollow
  BY <1>9 DEF AllFollow, logout
<1>11. \A c \in Calls : RenewalOK(call[c])'
  BY <1>9 DEF RenewalOK
<1> QED
  BY <1>1, <1>3, <1>5, <1>6, <1>8, <1>10, <1>11, FollowPreserves

LEMMA LoginPreserves ==
  ASSUME IInv, NEW u \in Users, NEW p \in {"home", "invite"}, Login(u, p) PROVE IInv'
<1>1. /\ UNCHANGED <<server, call, wanted, deleted, doubt>> /\ user' = u
      /\ place = "login" /\ Show(p, cache, selected)
  BY DEF Login
<1>2. UNCHANGED count /\ place \notin Observed /\ wanted' = None /\ u # None
  BY <1>1, EPAssumption DEF server, Observed, App, IInv, WantedKept
<1>3. UserTyped' /\ WantedKept'
  BY <1>1, <1>2, NobodyWanted DEF IInv, Typed
<1>4. ViewTyped' /\ SelectionListed' /\ PagesOK' /\ place' = p /\ cache' = cache
  <2>1. p \in Places /\ List(cache) \in SUBSET Present /\ selected \in Present \cup {None}
    BY DEF Places, Observed, IInv, Typed, ViewTyped
  <2>2. ServerTyped /\ ViewTyped /\ PagesOK
    BY DEF IInv, Typed
  <2> HIDE DEF Places, Present
  <2> QED
    BY <1>1, <1>2, <2>1, <2>2, Shown
<1>5. GuardOK'
  BY <1>1, <1>2, <1>4 DEF GuardOK
<1>6. QueryStep
  <2>0. fetch \in FetchType
    BY DEF IInv, Typed, QueryTyped, FetchType
  <2>1. CASE p # "home"
    BY <1>1, <1>4, <2>0, <2>1 DEF Login, QueryStep, GoesOn, Observed, App
  <2>2. CASE p = "home" /\ fetch.st = "idle"
    <3>1. fetch' = [Idle EXCEPT !.st = "asked", !.by = user']
      BY <1>1, <2>2 DEF Login, Asked, Idle
    <3> QED
      BY <1>1, <1>3, <1>4, <2>2, <3>1, StartedTyped DEF QueryStep, Started, Observed
  <2>3. CASE p = "home" /\ fetch.st # "idle"
    <3>1. fetch' = [fetch EXCEPT !.sure = FALSE]
      BY <2>3 DEF Login
    <3>2. fetch' \in FetchType /\ GoesOn /\ fetch'.sure = FALSE
      BY <3>1, SureChanges DEF IInv, Typed
    <3> QED
      BY <1>1, <1>4, <2>3, <3>2 DEF QueryStep
  <2> QED
    BY <2>1, <2>2, <2>3
<1>7. AllFollow /\ \A c \in Calls : call'[c] = call[c]
  BY <1>1, SameCalls DEF IInv, Typed
<1> QED
  BY <1>1, <1>2, <1>3, <1>4, <1>5, <1>6, <1>7, QueryPreserves

LEMMA DeletedPreserves ==
  ASSUME IInv, NEW c \in Calls, Deleted(c) PROVE IInv'
<1> DEFINE h == call[c]
           g == [Ready EXCEPT !.pc = "done"]
<1>1. /\ Show(place, cache, Newest(h.rest)) /\ fetch' = Renewed
      /\ wanted' = None /\ deleted' = deleted \cup {h.event}
      /\ UNCHANGED <<server, user, doubt>>
      /\ h.kind = "delete" /\ h.pc = "answered"
  BY DEF Deleted
<1>2. UNCHANGED <<count, place, cache>>
  BY <1>1 DEF server, Show, Render
<1>3. /\ h.event \in Present /\ h.rest \in SUBSET Present
      /\ Gone(h.event)
  BY <1>1, Answered DEF Awaiting, IInv, Typed, CallsTyped, CallType, DeletionsDone
<1>4. /\ QueryStep
      /\ place \in Observed => fetch'.st # "idle"
      /\ place \in Observed => fetch'.st = "asked" \/ ~fetch'.sure
  BY <1>1, <1>2, RenewedQueries DEF IInv, Typed
<1>5. ViewTyped' /\ SelectionListed' /\ PagesOK'
  <2>1. Newest(h.rest) \in Present \cup {None}
    BY <1>3, NewestTyped DEF IInv, Typed
  <2>2. /\ ServerTyped /\ ViewTyped /\ PagesOK /\ place \in Places
        /\ List(cache) \in SUBSET Present
    BY DEF IInv, Typed, ViewTyped, Places
  <2> HIDE DEF h, Places, Present
  <2> QED
    BY <1>1, <1>2, <2>1, <2>2, Shown
<1>6. UserTyped' /\ GuardOK' /\ WantedKept'
  BY <1>1, <1>2, <1>3 DEF IInv, Typed, UserTyped, GuardOK, WantedKept, Present
<1>7. /\ AllFollow
      /\ \A d \in Calls : call'[d].pc = "go" /\ call'[d].clean => call[d].pc = "go"
  <2>1. PICK x \in {call, Released(call, FALSE)} : call' = [x EXCEPT ![c] = g]
    BY DEF Deleted
  <2>2. call \in [Calls -> CallType]
    BY DEF IInv, Typed, CallsTyped
  <2>3. x = [d \in Calls |-> x[d]]
    BY <2>2 DEF Released
  <2>4. ASSUME NEW d \in Calls
        PROVE  /\ Follows(x[d], call[d])
               /\ x[d].pc = "go" /\ x[d].clean => call[d].pc = "go"
    <3>1. CASE x = call
      BY <2>2, <3>1, SameFollows
    <3>2. CASE x = Released(call, FALSE)
      <4>1. CallsTyped /\ FALSE \in BOOLEAN
        BY DEF IInv, Typed
      <4>2. Follows(x[d], call[d])
        BY <3>2, <4>1, ReleasedFollows
      <4>3. x[d].pc = "go" /\ x[d].clean => call[d].pc = "go"
        BY <2>2, <3>2 DEF Released, CallType
      <4> QED
        BY <4>2, <4>3
    <3> QED
      BY <3>1, <3>2
  <2>5. \A d \in Calls : call'[d] = IF d = c THEN g ELSE x[d]
    BY <2>1, <2>3
  <2>6. \A d \in Calls : Follows(g, call[d]) /\ g.pc = "done"
    BY EndFollows
  <2>7. call' = [d \in Calls |-> call'[d]]
    BY <2>1, <2>3
  <2> HIDE DEF g
  <2> QED
    BY <2>4, <2>5, <2>6, <2>7 DEF AllFollow
<1>8. \A e \in deleted' : e \in deleted \/
        /\ Gone(e)
        /\ place' \in Observed => fetch'.st = "asked" \/ (fetch'.st = "served" /\ ~fetch'.sure)
  BY <1>1, <1>2, <1>3, <1>4 DEF QueryStep, FetchType
<1> QED
  BY <1>1, <1>2, <1>4, <1>5, <1>6, <1>7, <1>8, QueryPreserves

(* What a fetch that comes to its end does with the calls that await it. *)
LEMMA Release ==
  ASSUME CallsTyped, NEW ok \in BOOLEAN, call' = Released(call, ok)
  PROVE  /\ AllFollow
         /\ \A c \in Calls :
              /\ call'[c].pc # "renew"
              /\ call'[c].event = call[c].event /\ call'[c].by = call[c].by
              /\ call'[c].pc = "go" /\ call'[c].clean =>
                   call[c].clean /\ (call[c].pc = "go" \/ (call[c].pc = "renew" /\ ok))
<1>1. \A c \in Calls : call[c] \in CallType
  BY DEF CallsTyped
<1>2. AllFollow
  BY ReleasedFollows DEF AllFollow, Released
<1>3. ASSUME NEW c \in Calls
      PROVE  /\ call'[c].pc # "renew"
             /\ call'[c].event = call[c].event /\ call'[c].by = call[c].by
             /\ call'[c].pc = "go" /\ call'[c].clean =>
                  call[c].clean /\ (call[c].pc = "go" \/ (call[c].pc = "renew" /\ ok))
  <2>1. CASE call[c].pc # "renew"
    BY <2>1 DEF Released
  <2>2. CASE call[c].pc = "renew"
    <3>1. call'[c] = [call[c] EXCEPT !.pc = "go", !.clean = call[c].clean /\ ok]
      BY <1>1, <2>2 DEF Released, CallType
    <3> QED
      BY <1>1, <2>2, <3>1 DEF CallType
  <2> QED
    BY <2>1, <2>2
<1> QED
  BY <1>2, <1>3

LEMMA LandPreserves ==
  ASSUME IInv, Land PROVE IInv'
<1>1. /\ fetch.st = "served" /\ Show(place, fetch.got, selected)
      /\ fetch' = Idle /\ doubt' = ~fetch.sure /\ call' = Released(call, TRUE)
      /\ wanted' = IF fetch.sure THEN wanted ELSE None
      /\ UNCHANGED <<server, user, deleted>>
  BY DEF Land
<1>2. UNCHANGED count
  BY <1>1 DEF server
<1>3. fetch \in FetchType /\ fetch.got \in SUBSET Present
  BY DEF IInv, Typed, QueryTyped, FetchType
<1>4. List(fetch.got) = fetch.got
  <2>1. fetch.got \in SUBSET Events
    BY <1>3, PresentEvents DEF IInv, Typed
  <2> QED
    BY <2>1, EPAssumption DEF List, Events
<1>5. /\ ViewTyped' /\ SelectionListed' /\ PagesOK'
      /\ selected \in fetch.got => selected' = selected
      /\ place' = place /\ cache' = fetch.got
  <2>1. /\ place \in Places /\ selected \in Present \cup {None}
        /\ ServerTyped /\ ViewTyped /\ PagesOK
    BY DEF IInv, Typed, ViewTyped, Places
  <2> HIDE DEF Places, Present
  <2> QED
    BY <1>1, <1>2, <1>3, <1>4, <2>1, Shown
<1>6. UserTyped' /\ GuardOK'
  BY <1>1, <1>2, <1>5 DEF IInv, Typed, UserTyped, GuardOK, Present
<1>7. QueryTyped' /\ FetchOwn'
  <2>1. Idle \in FetchType
    BY DEF Idle, FetchType
  <2> QED
    BY <1>1, <1>2, <1>3, <2>1 DEF QueryTyped, FetchType, FetchOwn, Idle, Present
<1>8. DeletionsSeen'
  BY <1>1, <1>4, <1>5 DEF IInv, DeletionsSeen, Idle, List
<1>9. WantedKept'
  <2> SUFFICES ASSUME wanted' # None PROVE WantedKept'
    BY DEF WantedKept
  <2>1. /\ wanted' = wanted /\ fetch.sure /\ place \in Observed /\ selected = wanted
        /\ wanted \in members[user] /\ wanted \in fetch.got
    BY <1>1 DEF IInv, WantedKept
  <2> QED
    BY <1>1, <1>4, <1>5, <2>1 DEF WantedKept, Idle, List, server
<1>10. AllFollow /\ \A c \in Calls :
         /\ call'[c].pc # "renew"
         /\ call'[c].event = call[c].event /\ call'[c].by = call[c].by
         /\ call'[c].pc = "go" /\ call'[c].clean =>
              call[c].clean /\ (call[c].pc = "go" \/ call[c].pc = "renew")
  BY <1>1, Release DEF IInv, Typed
<1>11. ASSUME NEW c \in Calls PROVE RenewalOK(call[c])'
  <2>1. \A e : Gone(e)' <=> Gone(e)
    BY <1>1 DEF Gone, server
  <2> SUFFICES ASSUME call'[c].pc = "go", call'[c].clean PROVE RenewalOK(call[c])'
    BY <1>10 DEF RenewalOK
  <2>2. /\ call[c].clean /\ call[c].pc \in {"renew", "go"}
        /\ call'[c].event = call[c].event /\ call'[c].by = call[c].by
    BY <1>10
  <2>3. place \in Observed /\ (user = call[c].by => call[c].event \in fetch.got \/ Gone(call[c].event))
    BY <1>1, <2>2 DEF IInv, RenewalOK
  <2> QED
    BY <1>1, <1>4, <1>5, <2>1, <2>2, <2>3 DEF RenewalOK, Idle, List
<1> QED
  BY <1>1, <1>5, <1>6, <1>7, <1>8, <1>9, <1>10, <1>11, FollowPreserves

LEMMA FetchFailsPreserves ==
  ASSUME IInv, FetchFails PROVE IInv'
<1>1. /\ fetch' = Idle /\ doubt' = TRUE /\ call' = Released(call, FALSE)
      /\ UNCHANGED <<server, view, user, wanted, deleted, cache>>
  BY DEF FetchFails
<1>2. UNCHANGED <<count, place, selected>>
  BY <1>1 DEF server, view
<1>3. ViewTyped' /\ SelectionListed' /\ PagesOK' /\ UserTyped' /\ GuardOK'
  BY <1>1, <1>2, SameView, SameUser DEF IInv, Typed, GuardOK
<1>4. QueryTyped' /\ FetchOwn' /\ DeletionsSeen'
  BY <1>1, <1>2 DEF QueryTyped, FetchOwn, DeletionsSeen, Idle, Present
<1>5. WantedKept'
  BY <1>1, <1>2 DEF IInv, WantedKept, Idle, List, server
<1>6. AllFollow /\ \A c \in Calls :
         /\ call'[c].pc # "renew"
         /\ call'[c].event = call[c].event /\ call'[c].by = call[c].by
         /\ call'[c].pc = "go" /\ call'[c].clean => call[c].clean /\ call[c].pc = "go"
  BY <1>1, Release DEF IInv, Typed
<1>7. ASSUME NEW c \in Calls PROVE RenewalOK(call[c])'
  <2>1. \A e : Gone(e)' <=> Gone(e)
    BY <1>1 DEF Gone, server
  <2> SUFFICES ASSUME call'[c].pc = "go", call'[c].clean PROVE RenewalOK(call[c])'
    BY <1>6 DEF RenewalOK
  <2>2. /\ call[c].clean /\ call[c].pc = "go"
        /\ call'[c].event = call[c].event /\ call'[c].by = call[c].by
    BY <1>6
  <2> QED
    BY <1>1, <1>2, <2>1, <2>2 DEF IInv, RenewalOK, Idle, List
<1> QED
  BY <1>1, <1>3, <1>4, <1>5, <1>6, <1>7, FollowPreserves

LEMMA ServeListPreserves ==
  ASSUME IInv, ServeList PROVE IInv'
<1> DEFINE m == members[fetch.by]
<1>1. /\ fetch.st = "asked" /\ fetch' = [fetch EXCEPT !.st = "served", !.got = m]
      /\ UNCHANGED <<server, view, user, call, wanted, deleted, cache, doubt>>
  BY DEF ServeList
<1>2. UNCHANGED <<count, place, selected>>
  BY <1>1 DEF server, view
<1>3. /\ fetch \in FetchType /\ fetch.by \in Users
      /\ place \in Observed /\ fetch.sure => fetch.by = user
  BY <1>1 DEF IInv, Typed, QueryTyped, FetchType, FetchOwn
<1>4. m \in SUBSET Present
  BY <1>3 DEF IInv, Typed, ServerTyped
<1>5. fetch' = [st |-> "served", got |-> m, by |-> fetch.by, sure |-> fetch.sure]
  BY <1>1, <1>3 DEF FetchType
<1>6. ViewTyped' /\ SelectionListed' /\ PagesOK' /\ UserTyped' /\ GuardOK'
  BY <1>1, <1>2, SameView, SameUser DEF IInv, Typed, GuardOK
<1>7. QueryTyped' /\ FetchOwn'
  BY <1>1, <1>2, <1>3, <1>4, <1>5
     DEF IInv, Typed, QueryTyped, FetchType, FetchOwn, Present
<1>8. DeletionsSeen'
  BY <1>1, <1>3, <1>5 DEF IInv, DeletionsSeen, DeletionsDone, Gone
<1>9. WantedKept'
  <2> SUFFICES ASSUME wanted # None PROVE WantedKept'
    BY <1>1 DEF WantedKept
  <2>1. fetch.sure => wanted \in m
    BY <1>3 DEF IInv, WantedKept
  <2> QED
    BY <1>1, <1>2, <1>5, <2>1 DEF IInv, WantedKept, List, server
<1>10. AllFollow
  BY <1>1, SameCalls DEF IInv, Typed
<1>11. ASSUME NEW c \in Calls PROVE RenewalOK(call[c])'
  <2>1. \A e : Gone(e)' <=> Gone(e)
    BY <1>1 DEF Gone, server
  <2> SUFFICES ASSUME call[c].pc \in {"renew", "go"}, call[c].clean PROVE RenewalOK(call[c])'
    BY <1>1 DEF RenewalOK
  <2>2. RenewalOK(call[c])
    BY DEF IInv
  <2>3. call[c].event \in members[call[c].by] \/ Gone(call[c].event)
    <3>1. call[c] \in CallType /\ CallOK(call[c])
      BY DEF IInv, Typed, CallsTyped
    <3>2. call[c].event \in Present /\ call[c].by \in Users
      BY Answered DEF Awaiting
    <3>3. maker[call[c].event] = call[c].by
      BY <3>1 DEF CallOK, Awaiting
    <3>4. call[c].by # None
      BY <3>2, EPAssumption
    <3> QED
      BY <3>2, <3>3, <3>4 DEF IInv, MakersIn
  <2>4. user = call[c].by => fetch.by = user
    BY <1>1, <2>2 DEF RenewalOK
  <2>5. user = call[c].by => call[c].event \in m \/ Gone(call[c].event)
    BY <2>3, <2>4
  <2> HIDE DEF m
  <2> QED
    BY <1>1, <1>2, <1>5, <2>1, <2>2, <2>4, <2>5 DEF RenewalOK, List
<1> QED
  BY <1>1, <1>6, <1>7, <1>8, <1>9, <1>10, <1>11, FollowPreserves

LEMMA CallKnown ==
  ASSUME IInv, NEW c \in Calls
  PROVE  call[c] \in CallType /\ CallOK(call[c]) /\ call \in [Calls -> CallType]
BY DEF IInv, Typed, CallsTyped

LEMMA Patched ==
  ASSUME NEW h \in CallType, NEW x, NEW y, NEW g, g = [h EXCEPT !.clean = x, !.pc = y]
  PROVE  g =
           [kind |-> h.kind, pc |-> y, host |-> h.host, by |-> h.by,
            event |-> h.event, rest |-> h.rest, clean |-> x]
BY DEF CallType

LEMMA ReadyCreate ==
  ASSUME NEW x, NEW y, NEW g,
         g = [Ready EXCEPT !.kind = "create", !.pc = "sent", !.host = x, !.by = y]
  PROVE  g =
           [kind |-> "create", pc |-> "sent", host |-> x, by |-> y,
            event |-> 0, rest |-> {}, clean |-> TRUE]
BY DEF Ready

LEMMA ReadyDelete ==
  ASSUME NEW x, NEW y, NEW z, NEW g,
         g = [Ready EXCEPT !.kind = "delete", !.pc = "confirm", !.by = x,
                           !.event = y, !.rest = z]
  PROVE  g =
           [kind |-> "delete", pc |-> "confirm", host |-> None, by |-> x,
            event |-> y, rest |-> z, clean |-> TRUE]
BY DEF Ready

LEMMA ReadyJoin ==
  ASSUME NEW x, NEW y, NEW g,
         g = [Ready EXCEPT !.kind = "join", !.pc = "sent", !.by = x, !.event = y]
  PROVE  g =
           [kind |-> "join", pc |-> "sent", host |-> None, by |-> x,
            event |-> y, rest |-> {}, clean |-> TRUE]
BY DEF Ready

(* One call starts. *)
LEMMA StartPreserves ==
  ASSUME IInv, NEW c \in Calls, NEW h \in CallType, CallOK(h), Start(c, h),
         h.pc \in {"sent", "confirm"},
         h.kind = "create" => count + Cardinality(Creating) < MaxEvents
  PROVE  IInv'
<1>1. /\ UNCHANGED <<server, query, view, user, wanted, deleted>>
      /\ call[c].pc = "ready" /\ call' = [call EXCEPT ![c] = h]
  BY DEF Start
<1>2. /\ UNCHANGED <<count, maker, members, place, selected, cache, fetch, doubt>>
  BY <1>1 DEF server, view, query
<1>3. \A d \in Calls : call'[d] = IF d = c THEN h ELSE call[d]
  BY <1>1, CallKnown
<1>4. ViewTyped' /\ SelectionListed' /\ PagesOK' /\ UserTyped'
  BY <1>1, <1>2, SameView, SameUser DEF IInv, Typed
<1>5. /\ ServerTyped' /\ QueryTyped' /\ GuardOK' /\ MakersIn' /\ DeletionsSeen'
      /\ FetchOwn' /\ WantedKept'
  BY <1>1, <1>2
     DEF IInv, Typed, ServerTyped, QueryTyped, GuardOK, MakersIn, Gone, DeletionsSeen,
         FetchOwn, WantedKept, List, Present
<1>6. \A e : Gone(e)' <=> Gone(e)
  BY <1>2 DEF Gone
<1>7. DeletionsDone'
  BY <1>1, <1>3, <1>6 DEF IInv, DeletionsDone
<1>8. \A d \in Calls : RenewalOK(call[d])'
  BY <1>1, <1>2, <1>3, <1>6 DEF IInv, RenewalOK, List
<1>9. call' \in [Calls -> CallType] /\ CallType' = CallType
  BY <1>1, <1>2, CallKnown DEF CallType, Present
<1>10. \A d \in Calls : CallOK(call[d])'
  BY <1>2, <1>3, CallKnown DEF CallOK
<1>11. count' + Cardinality(Creating') <= MaxEvents
  <2>1. Creating' \subseteq Creating \cup {c}
    BY <1>3 DEF Creating, Running
  <2>2. IsFiniteSet(Creating)
    BY EPAssumption, FS_Subset DEF Creating
  <2>3. Cardinality(Creating) \in Nat /\ count \in Nat
        /\ count + Cardinality(Creating) <= MaxEvents
    BY <2>2, FS_CardinalityType DEF IInv, Typed, CallsTyped, ServerTyped
  <2>4. CASE h.kind = "create"
    <3>1. IsFiniteSet(Creating \cup {c})
          /\ Cardinality(Creating \cup {c}) <= Cardinality(Creating) + 1
      <4>1. /\ IsFiniteSet(Creating \cup {c})
            /\ Cardinality(Creating \cup {c})
                 = IF c \in Creating THEN Cardinality(Creating) ELSE Cardinality(Creating) + 1
        BY <2>2, FS_AddElement, Zenon
      <4> QED
        BY <2>3, <4>1
    <3>2. Cardinality(Creating') <= Cardinality(Creating \cup {c})
          /\ Cardinality(Creating') \in Nat /\ Cardinality(Creating \cup {c}) \in Nat
      BY <2>1, <3>1, FS_Subset, FS_CardinalityType
    <3> QED
      BY <1>2, <2>3, <2>4, <3>1, <3>2, EPAssumption
  <2>5. CASE h.kind # "create"
    <3>1. Creating' \subseteq Creating
      BY <1>3, <2>5 DEF Creating, Running
    <3> QED
      BY <1>2, <2>3, <3>1, FewerCreating
  <2> QED
    BY <2>4, <2>5
<1> QED
  BY <1>4, <1>5, <1>7, <1>8, <1>9, <1>10, <1>11 DEF IInv, Typed, CallsTyped

LEMMA StartsPreserve ==
  ASSUME IInv, NEW c \in Calls,
         \/ \E host \in {"sidebar", "list"} : handleCreateEvent(c, host)
         \/ handleDeleteActivity(c)
         \/ \E e \in Events : handleJoin(c, e)
  PROVE  IInv'
<1>1. CASE \E host \in {"sidebar", "list"} : handleCreateEvent(c, host)
  <2>1. PICK host \in {"sidebar", "list"} : handleCreateEvent(c, host)
    BY <1>1
  <2> DEFINE h == [Ready EXCEPT !.kind = "create", !.pc = "sent", !.host = host, !.by = user]
  <2>2. h = [kind |-> "create", pc |-> "sent", host |-> host, by |-> user,
             event |-> 0, rest |-> {}, clean |-> TRUE]
    BY ReadyCreate
  <2>3. user \in Users
    BY <2>1, Inside DEF handleCreateEvent, CanCreate, Observed, IInv, Typed, UserTyped
  <2>4. h \in CallType /\ CallOK(h) /\ h.pc = "sent"
    BY <2>2, <2>3 DEF CallType, CallOK, Awaiting
  <2>5. Start(c, h) /\ count + Cardinality(Creating) < MaxEvents
    BY <2>1 DEF handleCreateEvent
  <2> HIDE DEF h
  <2> QED
    BY <2>4, <2>5, StartPreserves
<1>2. CASE handleDeleteActivity(c)
  <2> DEFINE h == [Ready EXCEPT !.kind = "delete", !.pc = "confirm", !.by = user,
                                !.event = selected, !.rest = cache \ {selected}]
  <2>1. h = [kind |-> "delete", pc |-> "confirm", host |-> None, by |-> user,
             event |-> selected, rest |-> cache \ {selected}, clean |-> TRUE]
    BY ReadyDelete
  <2>2. user \in Users
    BY <1>2, Inside DEF handleDeleteActivity, Observed, App, IInv, Typed, UserTyped
  <2>3. selected \in List(cache) /\ maker[selected] = user /\ List(cache) \in SUBSET Present
    BY <1>2 DEF handleDeleteActivity, isCreator, IInv, Typed, ViewTyped
  <2>4. cache = List(cache)
    BY <2>3 DEF List
  <2>5. selected # 0 /\ user # None
    BY <2>2, <2>3, EPAssumption DEF Present
  <2>6. h \in CallType /\ CallOK(h) /\ h.pc = "confirm" /\ h.kind = "delete"
    BY <2>1, <2>2, <2>3, <2>4, <2>5 DEF CallType, CallOK, Awaiting
  <2>7. Start(c, h)
    BY <1>2 DEF handleDeleteActivity
  <2> HIDE DEF h
  <2> QED
    BY <2>6, <2>7, StartPreserves
<1>3. CASE \E e \in Events : handleJoin(c, e)
  <2>1. PICK e \in Events : handleJoin(c, e)
    BY <1>3
  <2> DEFINE h == [Ready EXCEPT !.kind = "join", !.pc = "sent", !.by = user, !.event = e]
  <2>2. h = [kind |-> "join", pc |-> "sent", host |-> None, by |-> user,
             event |-> e, rest |-> {}, clean |-> TRUE]
    BY ReadyJoin
  <2>3. user \in Users /\ e \in Rows
    BY <2>1 DEF handleJoin, CanJoin, IInv, Typed, UserTyped
  <2>4. e \in Present /\ e # 0
    BY <2>3, EPAssumption DEF Rows, IInv, Typed, ServerTyped, Present, Events
  <2>5. h \in CallType /\ CallOK(h) /\ h.pc = "sent" /\ h.kind = "join"
    BY <2>2, <2>3, <2>4 DEF CallType, CallOK, Awaiting
  <2>6. Start(c, h)
    BY <2>1 DEF handleJoin
  <2> HIDE DEF h
  <2> QED
    BY <2>5, <2>6, StartPreserves
<1> QED
  BY <1>1, <1>2, <1>3

LEMMA CreatedPreserves ==
  ASSUME IInv, NEW c \in Calls, Created(c) PROVE IInv'
<1> DEFINE h == call[c]
           alone == place \in Observed /\ ~JoinsFirst
           others == IF alone THEN Released(call, FALSE) ELSE call
           next == IF place \in Observed THEN "renew" ELSE "go"
           g == [kind |-> h.kind, pc |-> next, host |-> h.host, by |-> h.by,
                 event |-> h.event, rest |-> h.rest, clean |-> alone]
<1>1. /\ h.kind = "create" /\ h.pc = "answered" /\ fetch' = Renewed
      /\ call' = [others EXCEPT ![c] = [h EXCEPT !.clean = alone, !.pc = next]]
      /\ UNCHANGED <<server, view, user, wanted, deleted, cache, doubt>>
  BY DEF Created
<1>2. UNCHANGED <<count, maker, members, place, selected>>
  BY <1>1 DEF server, view
<1>3. h \in CallType /\ CallOK(h) /\ call \in [Calls -> CallType]
  BY CallKnown
<1>4. [h EXCEPT !.clean = alone, !.pc = next] = g
  BY <1>3, Patched
<1>5. g \in CallType /\ CallOK(g)
  BY <1>1, <1>3 DEF CallType, CallOK, Awaiting
<1>0. g.kind = "create" /\ g.pc = next /\ g.by = h.by /\ g.event = h.event
      /\ g.clean = alone
  BY <1>1
<1>6. others = [d \in Calls |-> others[d]]
  BY <1>3 DEF Released
<1>7. \A d \in Calls : call'[d] = IF d = c THEN g ELSE others[d]
  BY <1>1, <1>4, <1>6
<1>8. ASSUME NEW d \in Calls
      PROVE  /\ Follows(others[d], call[d])
             /\ others[d].pc = "go" /\ others[d].clean => call[d].pc = "go"
  <2>1. CASE ~alone
    BY <1>3, <2>1, SameFollows
  <2>2. CASE alone
    <3>1. CallsTyped /\ FALSE \in BOOLEAN
      BY DEF IInv, Typed
    <3>2. Follows(others[d], call[d])
      BY <2>2, <3>1, ReleasedFollows
    <3>3. others[d].pc = "go" /\ others[d].clean => call[d].pc = "go"
      BY <1>3, <2>2 DEF Released, CallType
    <3> QED
      BY <3>2, <3>3
  <2> QED
    BY <2>1, <2>2
<1>9. /\ QueryStep
      /\ place \in Observed /\ ~JoinsFirst => fetch'.st = "asked" /\ fetch' = Asked
  BY <1>1, <1>2, RenewedQueries DEF IInv, Typed, Renewed
<1>10. ViewTyped' /\ SelectionListed' /\ PagesOK' /\ UserTyped' /\ GuardOK'
  BY <1>1, <1>2, SameView, SameUser DEF IInv, Typed, GuardOK
<1>11. QueryTyped' /\ FetchOwn' /\ DeletionsSeen'
  BY <1>1, <1>2, <1>9, <1>10, QueryKeepsFetch, QueryKeepsDeletions DEF IInv, Typed
<1>12. WantedKept'
  BY <1>1, <1>2, <1>9, QueryKeepsWanted DEF IInv, Typed, WantedKept
<1>13. ServerTyped' /\ MakersIn' /\ \A e : Gone(e)' <=> Gone(e)
  BY <1>2 DEF IInv, Typed, ServerTyped, MakersIn, Gone, Present
<1>14. \A d \in Calls \ {c} : call'[d].kind = "delete" /\ call'[d].pc = "answered"
         => Gone(call'[d].event)
  <2> TAKE d \in Calls \ {c}
  <2> HAVE call'[d].kind = "delete" /\ call'[d].pc = "answered"
  <2>1. call'[d] = others[d] /\ Follows(others[d], call[d]) /\ call[d] \in CallType
    BY <1>3, <1>7, <1>8
  <2> HIDE DEF others
  <2>2. call'[d].event = call[d].event /\ call'[d].kind = call[d].kind
    BY <2>1, FollowsType
  <2>3. call[d].pc = "answered"
    BY <2>1 DEF Follows
  <2> QED
    BY <2>2, <2>3 DEF IInv, DeletionsDone
<1>15. DeletionsDone'
  <2> HIDE DEF g, others
  <2> QED
    BY <1>0, <1>1, <1>7, <1>13, <1>14 DEF IInv, DeletionsDone
<1>16. CallsTyped'
  <2>1. \A d \in Calls : others[d] \in CallType /\ CallOK(others[d])
    <3> TAKE d \in Calls
    <3>1. call[d] \in CallType /\ CallOK(call[d]) /\ Follows(others[d], call[d])
      BY <1>8, CallKnown
    <3> HIDE DEF others
    <3> QED
      BY <3>1, FollowsType
  <2>2. \A d \in Calls : call'[d] \in CallType /\ CallOK(call'[d])
    BY <1>5, <1>7, <2>1
  <2>3. call' \in [Calls -> CallType] /\ CallType' = CallType
    <3>1. call' = [d \in Calls |-> call'[d]]
      BY <1>1, <1>6
    <3> QED
      BY <1>2, <2>2, <3>1 DEF CallType, Present
  <2>4. \A d \in Calls : CallOK(call[d])'
    BY <1>2, <2>2 DEF CallOK
  <2>5. Creating' \subseteq Creating
    <3> SUFFICES ASSUME NEW d \in Creating' PROVE d \in Creating
      OBVIOUS
    <3>1. d \in Calls /\ call'[d].kind = "create" /\ call'[d].event = 0
          /\ call'[d].pc \notin {"ready", "done"}
      BY DEF Creating, Running
    <3>2. d # c
      <4>1. h.event # 0
        BY <1>1, <1>3 DEF CallOK, Awaiting
      <4> HIDE DEF g, others
      <4> QED
        BY <1>0, <1>7, <3>1, <4>1
    <3>3. /\ call'[d] = others[d] /\ Follows(others[d], call[d]) /\ call[d] \in CallType
          /\ CallOK(call[d])
      BY <1>7, <1>8, <3>1, <3>2, CallKnown
    <3> HIDE DEF others
    <3> QED
      BY <3>1, <3>3, FollowsType DEF Creating, Running
  <2>6. count' + Cardinality(Creating') <= MaxEvents
    BY <1>2, <2>5, FewerCreating DEF IInv, Typed, ServerTyped, CallsTyped
  <2> QED
    BY <2>3, <2>4, <2>6 DEF CallsTyped
<1>17. \A d \in Calls \ {c} : RenewalOK(call[d])'
  <2> TAKE d \in Calls \ {c}
  <2>1. /\ call'[d] = others[d] /\ Follows(others[d], call[d])
        /\ others[d].pc = "go" /\ others[d].clean => call[d].pc = "go"
    BY <1>7, <1>8
  <2>2. RenewalOK(call[d]) /\ QueryTyped /\ CallsTyped
    BY DEF IInv, Typed
  <2> HIDE DEF others
  <2> QED
    BY <1>1, <1>2, <1>9, <2>1, <2>2, QueryKeepsRenewal
<1>18. RenewalOK(call[c])'
  <2> SUFFICES ASSUME alone PROVE RenewalOK(call[c])'
    <3> HIDE DEF g, others
    <3> QED
      BY <1>0, <1>7 DEF RenewalOK
  <2>1. /\ call'[c].pc = "renew" /\ call'[c].by = h.by /\ call'[c].event = h.event
        /\ fetch'.st = "asked" /\ fetch'.by = user
    <3>1. call'[c] = g
      BY <1>7
    <3>2. UserTyped
      BY DEF IInv, Typed
    <3> HIDE DEF g, others
    <3> QED
      BY <1>0, <1>9, <3>1, <3>2, AskedIs
  <2> QED
    BY <1>1, <1>2, <2>1 DEF RenewalOK
<1> QED
  BY <1>10, <1>11, <1>12, <1>13, <1>15, <1>16, <1>17, <1>18 DEF IInv, Typed

(* What a step of the server owes. *)
LEMMA ServerPreserves ==
  ASSUME IInv, UNCHANGED <<query, view, user, deleted>>, ServerTyped', CallsTyped',
         Present \subseteq Present', MakersIn', DeletionsDone',
         \A e \in Present : Gone(e) => Gone(e)',
         wanted' = StillIn(wanted, members'),
         \A c \in Calls : call'[c] = call[c] \/ call'[c].pc \notin {"renew", "go"}
  PROVE  IInv'
<1>1. UNCHANGED <<place, selected, side, current, filter, cache, fetch, doubt, user, deleted>>
  BY DEF query, view
<1>2. ViewTyped' /\ SelectionListed' /\ PagesOK' /\ GuardOK'
  BY <1>1 DEF IInv, Typed, ViewTyped, SelectionListed, PagesOK, GuardOK, List, PagesOf
<1>3. QueryTyped' /\ DeletionsSeen' /\ FetchOwn'
  BY <1>1 DEF IInv, Typed, QueryTyped, DeletionsSeen, FetchOwn, List
<1>4. wanted' # None => /\ wanted' = wanted /\ wanted' \in members'[user]
                        /\ fetch.st = "served" => wanted' \in fetch.got
  BY DEF StillIn
<1>5. UserTyped'
  BY <1>1, <1>4 DEF IInv, Typed, UserTyped
<1>6. WantedKept'
  BY <1>1, <1>4 DEF IInv, WantedKept, List
<1>7. ASSUME NEW c \in Calls PROVE RenewalOK(call[c])'
  <2> SUFFICES ASSUME call'[c].pc \in {"renew", "go"} PROVE RenewalOK(call[c])'
    BY DEF RenewalOK
  <2>1. call'[c] = call[c]
    OBVIOUS
  <2>2. call[c].event \in Present
    BY <2>1, Answered DEF Awaiting
  <2> QED
    BY <1>1, <2>1, <2>2 DEF IInv, RenewalOK, List
<1> QED
  BY <1>2, <1>3, <1>5, <1>6, <1>7 DEF IInv, Typed

(* What a call is after the server has carried it out. *)
LEMMA Replied ==
  ASSUME IInv, NEW c \in Calls, NEW n, Reply(c, call[c], n)
  PROVE  /\ call' \in [Calls -> {call'[d] : d \in Calls}]
         /\ \A d \in Calls \ {c} : call'[d] = call[d]
         /\ \/ call'[c] = [Ready EXCEPT !.pc = "done"] /\ call'[c].pc = "done"
            \/ /\ call'[c] = [kind |-> call[c].kind, pc |-> "answered", host |-> call[c].host,
                              by |-> call[c].by, event |-> n, rest |-> call[c].rest,
                              clean |-> call[c].clean]
               /\ call'[c].kind = call[c].kind /\ call'[c].pc = "answered"
               /\ call'[c].by = call[c].by /\ call'[c].event = n
<1> DEFINE h == call[c]
<1>1. h \in CallType /\ call \in [Calls -> CallType]
  BY CallKnown
<1>2. call' = [call EXCEPT ![c] = IF h.pc = "lost" THEN [Ready EXCEPT !.pc = "done"]
                                  ELSE [h EXCEPT !.pc = "answered", !.event = n]]
  BY DEF Reply
<1>3. ASSUME NEW g, g = [h EXCEPT !.pc = "answered", !.event = n]
      PROVE  g = [kind |-> h.kind, pc |-> "answered", host |-> h.host,
                  by |-> h.by, event |-> n, rest |-> h.rest, clean |-> h.clean]
  BY <1>1, <1>3 DEF CallType
<1>4. CASE h.pc = "lost"
  BY <1>1, <1>2, <1>4, EndFollows
<1>5. CASE h.pc # "lost"
  BY <1>1, <1>2, <1>3, <1>5
<1> QED
  BY <1>4, <1>5

LEMMA RepliedTyped ==
  ASSUME IInv, NEW c \in Calls, NEW n \in Present', Reply(c, call[c], n),
         call[c].pc \in {"sent", "lost"}, n # 0, count' \in Nat,
         Present \subseteq Present',
         \A e \in Present : maker'[e] = maker[e],
         call[c].kind = "create" => maker'[n] = call[c].by,
         call[c].kind = "delete" => maker'[n] # None,
         count' + Cardinality(Creating') <= MaxEvents
  PROVE  CallsTyped'
<1>1. /\ call[c] \in CallType /\ CallOK(call[c]) /\ call \in [Calls -> CallType]
      /\ \A d \in Calls : call[d] \in CallType /\ CallOK(call[d])
  BY CallKnown
<1>2. CallType \subseteq CallType'
  BY DEF CallType
<1>3. ASSUME NEW d \in Calls PROVE call'[d] \in CallType' /\ CallOK(call[d])'
  <2>1. CASE d # c
    <3>1. call'[d] = call[d]
      BY <2>1, Replied
    <3>2. call[d].event \in {0} \cup Present
      BY <1>1 DEF CallType
    <3> QED
      BY <1>1, <1>2, <3>1, <3>2 DEF CallOK, Awaiting
  <2>2. CASE d = c /\ call'[c] = [Ready EXCEPT !.pc = "done"]
    <3>1. call'[c].pc = "done"
      BY <2>2, EndFollows
    <3> QED
      BY <1>2, <2>2, <3>1, ReadyTyped DEF CallOK, Awaiting
  <2>3. CASE d = c /\ call'[c] # [Ready EXCEPT !.pc = "done"]
    <3> DEFINE h == call[c]
               g == [kind |-> h.kind, pc |-> "answered", host |-> h.host,
                     by |-> h.by, event |-> n, rest |-> h.rest, clean |-> h.clean]
    <3>1. call'[c] = g
      BY <2>3, Replied
    <3>2. g \in CallType'
      BY <1>1 DEF CallType, Awaiting
    <3>3. h.kind # "none" /\ h.by \in Users
      BY <1>1 DEF CallOK
    <3>4. /\ call'[c].kind = h.kind /\ call'[c].pc = "answered"
          /\ call'[c].by = h.by /\ call'[c].event = n
      BY <3>1
    <3> HIDE DEF g
    <3>5. CallOK(call[c])'
      BY <3>3, <3>4 DEF CallOK, Awaiting
    <3> QED
      BY <2>3, <3>1, <3>2, <3>5
  <2> QED
    BY <2>1, <2>2, <2>3
<1>4. call' \in [Calls -> CallType']
  BY <1>3, Replied
<1> QED
  BY <1>3, <1>4 DEF CallsTyped

(* The server carries out a creation. *)
LEMMA ServeCreatePreserves ==
  ASSUME IInv, NEW c \in Calls, ServeCall(c), call[c].kind = "create" PROVE IInv'
<1> DEFINE h == call[c]
           n == count + 1
<1>1. /\ h.pc \in {"sent", "lost"}
      /\ count' = n /\ maker' = [maker EXCEPT ![n] = h.by]
      /\ members' = [members EXCEPT ![h.by] = @ \cup {n}]
      /\ Reply(c, h, n)
      /\ wanted' = StillIn(wanted, members')
      /\ UNCHANGED <<query, view, user, deleted>>
  BY DEF ServeCall
<1>2. h.by \in Users /\ h.event = 0 /\ h.by # None
  BY <1>1, CallKnown, EPAssumption DEF CallOK
<1>3. /\ count \in Nat /\ maker \in [Events -> Users \cup {None}]
      /\ members \in [Users -> SUBSET Present]
  BY DEF IInv, Typed, ServerTyped
<1>4. c \in Creating
  BY <1>1, <1>2 DEF Creating, Running
<1>5. /\ IsFiniteSet(Creating) /\ Cardinality(Creating) \in Nat
      /\ Cardinality(Creating \ {c}) = Cardinality(Creating) - 1
      /\ Cardinality(Creating \ {c}) \in Nat /\ IsFiniteSet(Creating \ {c})
      /\ count + Cardinality(Creating) <= MaxEvents
  <2>1. IsFiniteSet(Creating)
    BY EPAssumption, FS_Subset DEF Creating
  <2> QED
    BY <1>4, <2>1, FS_CardinalityType, FS_RemoveElement DEF IInv, Typed, CallsTyped
<1>6. n \in 1..MaxEvents /\ n \in Events /\ n \notin Present
  BY <1>3, <1>5, EPAssumption DEF Events, Present
<1>7. Present' = Present \cup {n}
  BY <1>1, <1>3 DEF Present
<1>8. Creating' \subseteq Creating \ {c}
  <2> SUFFICES ASSUME NEW d \in Creating' PROVE d \in Creating \ {c}
    OBVIOUS
  <2>1. d \in Calls /\ call'[d].kind = "create" /\ call'[d].event = 0
        /\ call'[d].pc \notin {"ready", "done"}
    BY DEF Creating, Running
  <2>2. d # c
    <3>1. call'[c].pc = "done" \/ call'[c].event = n
      BY <1>1, Replied
    <3> QED
      BY <1>3, <2>1, <3>1
  <2>3. call'[d] = call[d]
    BY <1>1, <2>1, <2>2, Replied
  <2> QED
    BY <2>1, <2>2, <2>3 DEF Creating, Running
<1>9. count' + Cardinality(Creating') <= MaxEvents
  <2>1. Cardinality(Creating') <= Cardinality(Creating \ {c}) /\ Cardinality(Creating') \in Nat
    BY <1>5, <1>8, FS_Subset, FS_CardinalityType
  <2> QED
    BY <1>1, <1>3, <1>5, <2>1, EPAssumption
<1>10. /\ \A e \in Present : maker'[e] = maker[e]
       /\ maker'[n] = h.by
  BY <1>1, <1>3, <1>6, PresentEvents DEF IInv, Typed
<1>11. \A u \in Users : /\ members[u] \subseteq members'[u]
                        /\ members'[u] \subseteq members[u] \cup {n}
                        /\ n \in members'[h.by]
  BY <1>1, <1>2, <1>3
<1>12. ServerTyped'
  <2>1. maker' \in [Events -> Users \cup {None}]
    BY <1>1, <1>2, <1>3
  <2>2. members' \in [Users -> SUBSET Present']
    BY <1>1, <1>2, <1>3, <1>7
  <2>3. count' \in 0..MaxEvents
    BY <1>1, <1>3, <1>6
  <2> QED
    BY <2>1, <2>2, <2>3 DEF ServerTyped
<1>13. CallsTyped'
  <2>1. n # 0 /\ count' \in Nat /\ n \in Present' /\ Present \subseteq Present'
    BY <1>1, <1>3, <1>7
  <2> HIDE DEF n, h
  <2> QED
    BY <1>1, <1>9, <1>10, <2>1, RepliedTyped DEF h
<1>14. \A e \in Present : Gone(e)' <=> Gone(e)
  BY <1>6, <1>10, <1>11 DEF Gone
<1>15. MakersIn'
  <2> SUFFICES ASSUME NEW e \in Present', maker'[e] # None
               PROVE  e \in members'[maker'[e]] \/ Gone(e)'
    BY DEF MakersIn
  <2>1. CASE e = n
    BY <1>10, <1>11, <1>2, <2>1
  <2>2. CASE e # n
    <3>1. e \in Present /\ maker'[e] = maker[e]
      BY <1>7, <1>10, <2>2
    <3>2. maker[e] \in Users
      BY <1>3, <3>1, PresentEvents DEF IInv, Typed
    <3> QED
      BY <1>11, <1>14, <3>1, <3>2 DEF IInv, MakersIn
  <2> QED
    BY <2>1, <2>2
<1>16. DeletionsDone'
  <2>1. \A e \in deleted' : Gone(e)'
    BY <1>1, <1>14 DEF IInv, Typed, UserTyped, DeletionsDone
  <2>2. ASSUME NEW d \in Calls, call'[d].kind = "delete", call'[d].pc = "answered"
        PROVE  Gone(call[d].event)'
    <3>1. d # c
      <4>1. call'[c].pc = "done" \/ call'[c].kind = "create"
        BY <1>1, Replied
      <4> QED
        BY <2>2, <4>1
    <3>2. call'[d] = call[d]
      BY <1>1, <3>1, Replied
    <3>3. call[d].event \in Present
      BY <2>2, <3>2, Answered DEF Awaiting
    <3> QED
      BY <1>14, <2>2, <3>2, <3>3 DEF IInv, DeletionsDone
  <2> QED
    BY <2>1, <2>2 DEF DeletionsDone
<1>17. \A d \in Calls : call'[d] = call[d] \/ call'[d].pc \notin {"renew", "go"}
  <2>1. call'[c].pc \in {"done", "answered"}
    BY <1>1, Replied
  <2> QED
    BY <1>1, <2>1, Replied
<1> QED
  BY <1>1, <1>7, <1>12, <1>13, <1>14, <1>15, <1>16, <1>17, ServerPreserves

(* A deletion and a join: the rows of one event change. *)
LEMMA ServeOtherPreserves ==
  ASSUME IInv, NEW c \in Calls, ServeCall(c), call[c].kind # "create" PROVE IInv'
<1> DEFINE h == call[c]
           n == h.event
<1>1. /\ h.pc \in {"sent", "lost"} /\ UNCHANGED <<count, maker>> /\ Reply(c, h, n)
      /\ wanted' = StillIn(wanted, members')
      /\ UNCHANGED <<query, view, user, deleted>>
      /\ \/ h.kind = "delete" /\ members' = [u \in Users |-> members[u] \ {n}]
         \/ /\ h.kind = "join" /\ n \in Rows
            /\ members' = [members EXCEPT ![h.by] = @ \cup {n}]
  BY DEF ServeCall
<1>2. /\ h.by \in Users /\ n \in Present /\ n # 0
      /\ h.kind = "delete" => maker[n] # None
  <2>1. h \in CallType /\ CallOK(h)
    BY CallKnown
  <2> QED
    BY <1>1, <2>1 DEF CallType, CallOK
<1>3. /\ count \in Nat /\ maker \in [Events -> Users \cup {None}]
      /\ members \in [Users -> SUBSET Present] /\ Present' = Present
  BY <1>1 DEF IInv, Typed, ServerTyped, Present
<1>4. ServerTyped'
  <2>1. members' \in [Users -> SUBSET Present]
    BY <1>1, <1>2, <1>3
  <2> QED
    BY <1>1, <1>3, <2>1 DEF IInv, Typed, ServerTyped
<1>5. Creating' \subseteq Creating
  <2> SUFFICES ASSUME NEW d \in Creating' PROVE d \in Creating
    OBVIOUS
  <2>1. d \in Calls /\ call'[d].kind = "create" /\ call'[d].event = 0
        /\ call'[d].pc \notin {"ready", "done"}
    BY DEF Creating, Running
  <2>2. d # c
    <3>1. call'[c].pc = "done" \/ call'[c].event = n
      BY <1>1, Replied
    <3> QED
      BY <1>2, <2>1, <3>1
  <2>3. call'[d] = call[d]
    BY <1>1, <2>1, <2>2, Replied
  <2> QED
    BY <2>1, <2>2, <2>3 DEF Creating, Running
<1>6. count' + Cardinality(Creating') <= MaxEvents
  BY <1>1, <1>3, <1>5, FewerCreating DEF IInv, Typed, CallsTyped
<1>7. CallsTyped'
  <2>1. n \in Present' /\ Present \subseteq Present' /\ count' \in Nat
        /\ (\A e \in Present : maker'[e] = maker[e]) /\ h.kind # "create"
        /\ (h.kind = "delete" => maker'[n] # None)
    BY <1>1, <1>2, <1>3
  <2> HIDE DEF n, h
  <2> QED
    BY <1>1, <1>2, <1>6, <2>1, RepliedTyped DEF h
<1>8. /\ \A e \in Present : Gone(e) => Gone(e)'
      /\ h.kind = "delete" => \A e \in Present : e = n => Gone(e)'
      /\ \A u \in Users, e \in Present :
           e \in members[u] => e \in members'[u] \/ Gone(e)'
  <2>1. CASE h.kind = "delete" /\ members' = [u \in Users |-> members[u] \ {n}]
    <3>1. \A u \in Users : members'[u] = members[u] \ {n}
      BY <2>1
    <3>2. \A u \in Users : n \notin members'[u]
      BY <3>1
    <3>3. \A e \in Present : Gone(e) => Gone(e)'
      BY <1>1, <3>1 DEF Gone
    <3>4. PICK k \in Present : k = n
      BY <1>2
    <3>5. maker'[k] # None /\ \A u \in Users : k \notin members'[u]
      BY <1>1, <1>2, <2>1, <3>2, <3>4
    <3>6. Gone(k)'
      BY <3>5 DEF Gone
    <3>7. \A u \in Users, e \in Present : e \in members[u] => e \in members'[u] \/ e = k
      BY <3>1, <3>4
    <3> QED
      BY <3>3, <3>4, <3>6, <3>7
  <2>2. CASE h.kind = "join" /\ n \in Rows /\ members' = [members EXCEPT ![h.by] = @ \cup {n}]
    <3>1. \A u \in Users : members[u] \subseteq members'[u]
                           /\ members'[u] \subseteq members[u] \cup {n}
      BY <1>2, <1>3, <2>2
    <3>2. ~Gone(n)
      BY <2>2 DEF Rows, Gone
    <3>3. \A e \in Present : Gone(e) => Gone(e)'
      BY <1>1, <3>1, <3>2 DEF Gone
    <3> QED
      BY <2>2, <3>1, <3>3
  <2> QED
    BY <1>1, <2>1, <2>2
<1>9. MakersIn'
  <2> SUFFICES ASSUME NEW e \in Present, maker[e] # None
               PROVE  e \in members'[maker[e]] \/ Gone(e)'
    BY <1>1, <1>3 DEF MakersIn
  <2>1. maker[e] \in Users
    BY <1>3, PresentEvents DEF IInv, Typed
  <2>2. e \in members[maker[e]] \/ Gone(e)
    BY DEF IInv, MakersIn
  <2> QED
    BY <1>8, <2>1, <2>2
<1>10. DeletionsDone'
  <2>1. \A e \in deleted' : Gone(e)'
    BY <1>1, <1>8 DEF IInv, Typed, UserTyped, DeletionsDone
  <2>2. ASSUME NEW d \in Calls, call'[d].kind = "delete", call'[d].pc = "answered"
        PROVE  Gone(call[d].event)'
    <3>1. CASE d = c
      <4>1. call'[c].kind = h.kind /\ call'[c].event = n
        BY <1>1, <2>2, <3>1, Replied
      <4>2. PICK k \in Present : k = n
        BY <1>2
      <4>3. Gone(k)'
        BY <1>8, <2>2, <3>1, <4>1, <4>2
      <4>4. call'[d].event = k
        BY <3>1, <4>1, <4>2
      <4> QED
        BY <4>3, <4>4
    <3>2. CASE d # c
      <4>1. call'[d] = call[d]
        BY <1>1, <3>2, Replied
      <4>2. call[d].event \in Present
        BY <2>2, <4>1, Answered DEF Awaiting
      <4>3. Gone(call[d].event)
        BY <2>2, <4>1 DEF IInv, DeletionsDone
      <4>4. PICK e0 \in Present : e0 = call[d].event
        BY <4>2
      <4>5. Gone(e0)'
        BY <1>8, <4>3, <4>4
      <4>6. call'[d].event = e0
        BY <4>1, <4>4
      <4> QED
        BY <4>5, <4>6
    <3> QED
      BY <3>1, <3>2
  <2> QED
    BY <2>1, <2>2 DEF DeletionsDone
<1>11. \A d \in Calls : call'[d] = call[d] \/ call'[d].pc \notin {"renew", "go"}
  <2>1. call'[c].pc \in {"done", "answered"}
    BY <1>1, Replied
  <2> QED
    BY <1>1, <2>1, Replied
<1> QED
  BY <1>1, <1>3, <1>4, <1>7, <1>8, <1>9, <1>10, <1>11, ServerPreserves

LEMMA RemovedPreserves ==
  ASSUME IInv, NEW u \in Users, NEW e \in Events, Removed(u, e) PROVE IInv'
<1>1. /\ maker[e] # u /\ members' = [members EXCEPT ![u] = @ \ {e}]
      /\ wanted' = StillIn(wanted, members')
      /\ UNCHANGED <<count, maker, query, view, user, call, deleted>>
  BY DEF Removed
<1>2. /\ count \in 0..MaxEvents /\ maker \in [Events -> Users \cup {None}]
      /\ members \in [Users -> SUBSET Present] /\ Present' = Present
  BY <1>1 DEF IInv, Typed, ServerTyped, Present
<1>3. \A v \in Users : members'[v] = IF v = u THEN members[v] \ {e} ELSE members[v]
  BY <1>1, <1>2
<1>4. ServerTyped'
  BY <1>1, <1>2 DEF ServerTyped
<1>5. \A d : Gone(d) => Gone(d)'
  BY <1>1, <1>3 DEF Gone
<1>6. MakersIn'
  <2> SUFFICES ASSUME NEW d \in Present, maker[d] # None
               PROVE  d \in members'[maker[d]] \/ Gone(d)'
    BY <1>1, <1>2 DEF MakersIn
  <2>1. maker[d] \in Users
    BY <1>2, PresentEvents DEF IInv, Typed
  <2>2. d \in members[maker[d]] \/ Gone(d)
    BY DEF IInv, MakersIn
  <2>3. d \in members[maker[d]] => d \in members'[maker[d]]
    BY <1>1, <1>3, <2>1
  <2> QED
    BY <1>5, <2>2, <2>3
<1>7. DeletionsDone'
  BY <1>1, <1>5 DEF IInv, DeletionsDone
<1>8. CallsTyped'
  <2>1. AllFollow
    BY <1>1, SameCalls DEF IInv, Typed
  <2> QED
    BY <1>1, <2>1, FollowTyped DEF IInv, Typed
<1> QED
  BY <1>1, <1>2, <1>4, <1>5, <1>6, <1>7, <1>8, ServerPreserves

LEMMA InitInvariant == Init => IInv
<1> SUFFICES ASSUME Init PROVE IInv
  OBVIOUS
<1>1. PICK f \in Founders : /\ count = Cardinality(DOMAIN f)
                            /\ maker = [e \in Events |-> IF e <= count THEN f[e] ELSE None]
  BY DEF Init
<1>2. PICK n \in 0..MaxEvents : f \in [1..n -> Users \cup {None}]
  BY EPAssumption
<1>3. count = n
  <2>1. DOMAIN f = 1..n /\ n \in Nat
    BY <1>2, EPAssumption
  <2> QED
    BY <1>1, <2>1, FS_Interval
<1>4. maker \in [Events -> Users \cup {None}]
  <2>1. \A e \in Events : e <= count => e \in 1..n
    BY <1>2, <1>3, EPAssumption DEF Events
  <2> QED
    BY <1>1, <1>2, <2>1
<1>5. ServerTyped
  BY <1>2, <1>3, <1>4 DEF ServerTyped, Init, Present
<1>6. /\ user \in Users /\ selected = None /\ cache = None /\ place = "home"
      /\ fetch = Asked /\ doubt = FALSE /\ side = 1 /\ current = 1
      /\ call = [c \in Calls |-> Ready] /\ wanted = None /\ deleted = {}
  BY DEF Init
<1>7. ViewTyped /\ UserTyped /\ List(cache) = {}
  BY <1>6 DEF ViewTyped, UserTyped, List, Observed
<1>8. QueryTyped /\ FetchOwn /\ fetch.st = "asked"
  BY <1>6, <1>7, AskedIs DEF QueryTyped, FetchType, FetchOwn
<1>9. CallsTyped /\ \A c \in Calls : call[c].pc = "ready"
  <2>1. \A c \in Calls : call[c] = Ready
    BY <1>6
  <2>2. Ready.pc = "ready" /\ Ready.kind = "none"
    BY DEF Ready
  <2>3. CallOK(Ready)
    BY <2>2 DEF CallOK, Awaiting
  <2>4. Creating = {}
    BY <2>1, <2>2 DEF Creating
  <2>5. count + Cardinality(Creating) <= MaxEvents
    BY <1>3, <2>4, FS_EmptySet, EPAssumption
  <2>6. call \in [Calls -> CallType]
    BY <1>6, ReadyTyped
  <2> QED
    BY <2>1, <2>2, <2>3, <2>5, <2>6 DEF CallsTyped
<1>10. GuardOK /\ WantedKept /\ PagesOK /\ SelectionListed
  BY <1>6, <1>7, EPAssumption DEF GuardOK, WantedKept, PagesOK, SelectionListed
<1>11. DeletionsDone /\ DeletionsSeen
  BY <1>6, <1>9 DEF DeletionsDone, DeletionsSeen
<1>12. \A c \in Calls : RenewalOK(call[c])
  BY <1>9 DEF RenewalOK
<1>13. MakersIn
  <2> SUFFICES ASSUME NEW e \in Present, maker[e] # None PROVE e \in members[maker[e]]
    BY DEF MakersIn
  <2>1. maker[e] \in Users
    BY <1>4, <1>5, PresentEvents
  <2> QED
    BY <2>1 DEF Init, Present
<1> QED
  BY <1>5, <1>7, <1>8, <1>9, <1>10, <1>11, <1>12, <1>13 DEF IInv, Typed

LEMMA StutterPreserves ==
  ASSUME IInv, UNCHANGED vars PROVE IInv'
<1>1. UNCHANGED <<server, query, view, user, call, wanted, deleted>>
  BY DEF vars
<1>2. UNCHANGED <<count, place, selected, cache, doubt, fetch>>
  BY <1>1 DEF server, view, query
<1>3. QueryStep
  BY <1>1, <1>2, SameQueries DEF IInv, Typed
<1>4. ViewTyped' /\ SelectionListed' /\ PagesOK' /\ UserTyped'
  BY <1>1, <1>2, SameView, SameUser DEF IInv, Typed
<1>5. GuardOK'
  BY <1>1, <1>2 DEF IInv, GuardOK
<1>6. WantedKept'
  BY <1>1, <1>2, <1>3, QueryKeepsWanted DEF IInv, Typed, WantedKept
<1>7. AllFollow /\ \A c \in Calls : call'[c] = call[c]
  BY <1>1, SameCalls DEF IInv, Typed
<1> QED
  BY <1>1, <1>2, <1>3, <1>4, <1>5, <1>6, <1>7, QueryPreserves

LEMMA NextPreserves == IInv /\ [Next]_vars => IInv'
<1> SUFFICES ASSUME IInv, [Next]_vars PROVE IInv'
  OBVIOUS
<1>1. CASE Gestures
  <2>1. CASE \E p \in Tour : Go(p)
    BY <2>1, GoPreserves
  <2>2. CASE \E e \in Events : Choose(e) \/ handleNotificationClick(e)
    BY <2>2, ChoosePreserves
  <2>3. CASE \/ \E n \in Events : TurnSidebar(n) \/ TurnList(n)
             \/ \E f \in Filters : setTimeFilter(f)
    BY <2>3, TurnPreserves
  <2>4. CASE \E p \in {place, "invite"} : Load(p)
    BY <2>4, LoadPreserves
  <2>5. CASE \E clear \in BOOLEAN : logout(clear)
    BY <2>5, LogoutPreserves
  <2>6. CASE \E u \in Users, p \in {"home", "invite"} : Login(u, p)
    BY <2>6, LoginPreserves
  <2>7. CASE Focus \/ handleRefresh
    BY <2>7, FocusPreserves, RefreshPreserves
  <2> QED
    BY <1>1, <2>1, <2>2, <2>3, <2>4, <2>5, <2>6, <2>7 DEF Gestures
<1>2. CASE Network
  <2>1. CASE ServeList \/ Land \/ FetchFails
    BY <2>1, ServeListPreserves, LandPreserves, FetchFailsPreserves
  <2>2. CASE \E c \in Calls : ServeCall(c) \/ Fail(c)
    BY <2>2, ServeCreatePreserves, ServeOtherPreserves, FailPreserves
  <2>3. CASE \E u \in Users, e \in Events : Removed(u, e)
    BY <2>3, RemovedPreserves
  <2> QED
    BY <1>2, <2>1, <2>2, <2>3 DEF Network
<1>3. CASE \E c \in Calls : Handler(c)
  <2>1. PICK c \in Calls : Handler(c)
    BY <1>3
  <2>2. CASE \/ \E host \in {"sidebar", "list"} : handleCreateEvent(c, host)
             \/ handleDeleteActivity(c)
             \/ \E e \in Events : handleJoin(c, e)
    BY <2>2, StartsPreserve
  <2>3. CASE \E yes \in BOOLEAN : onConfirm(c, yes)
    BY <2>3, ConfirmPreserves
  <2>4. CASE Created(c) \/ OpenCreated(c) \/ Deleted(c) \/ Joined(c)
    BY <2>4, CreatedPreserves, OpenPreserves, DeletedPreserves, JoinedPreserves
  <2> QED
    BY <2>1, <2>2, <2>3, <2>4 DEF Handler
<1>4. CASE UNCHANGED vars
  BY <1>4, StutterPreserves
<1> QED
  BY <1>1, <1>2, <1>3, <1>4 DEF Next

LEMMA Invariant == Spec => []IInv
BY InitInvariant, NextPreserves, PTL DEF Spec

(* Every variable of the event pages keeps its type. *)
THEOREM TypeCorrect == Spec => []TypeOK
<1>1. IInv => TypeOK
  <2> SUFFICES ASSUME IInv PROVE TypeOK
    OBVIOUS
  <2>1. ServerTyped /\ ViewTyped /\ UserTyped /\ Present \in SUBSET Events
    BY PresentEvents DEF IInv, Typed
  <2>2. cache = None \/ cache \subseteq Events
    BY <2>1 DEF ViewTyped, List
  <2> QED
    BY <2>1, <2>2 DEF ServerTyped, ViewTyped, UserTyped, TypeOK
<1> QED
  BY <1>1, Invariant, PTL

(* What the user chose last stays selected as long as he is in it, whatever *)
(* fetches and calls come to an end meanwhile.                             *)
THEOREM Kept == Spec => []ChoiceKept
<1>1. IInv => ChoiceKept
  BY DEF IInv, WantedKept, ChoiceKept
<1> QED
  BY <1>1, Invariant, PTL

(* Once the page is at rest, no event that the user deleted is listed or   *)
(* selected.                                                               *)
THEOREM StayGone == Spec => []DeletedGone
<1>1. IInv => DeletedGone
  <2> SUFFICES ASSUME IInv, place \in Observed, fetch.st = "idle", ~doubt
               PROVE  /\ deleted \cap List(cache) = {}
                      /\ place = "activity" => selected \notin deleted
    BY DEF DeletedGone
  <2>1. deleted \cap List(cache) = {}
    BY DEF IInv, DeletionsSeen
  <2>2. None \notin deleted
    BY PresentEvents, EPAssumption DEF IInv, Typed, UserTyped, Events
  <2> QED
    BY <2>1, <2>2 DEF IInv, SelectionListed
<1> QED
  BY <1>1, Invariant, PTL

(* No page of the sidebar or of the list is empty while there are events.  *)
THEOREM Filled == Spec => []PagesShown
<1>1. IInv => PagesShown
  <2> SUFFICES ASSUME IInv, List(cache) # {}
               PROVE  /\ place \in App => Slice(List(cache), side, PerPage) # {}
                      /\ place = "list" /\ filter = "all"
                           => Slice(List(cache), current, PerPage) # {}
    BY DEF PagesShown
  <2>1. List(cache) \in SUBSET Events /\ side \in Nat \ {0} /\ current \in Nat \ {0}
    BY PresentEvents DEF IInv, Typed, ViewTyped
  <2>2. /\ place \in App => side <= PagesOf(List(cache))
        /\ place = "list" /\ filter = "all" => current <= PagesOf(List(cache))
    BY DEF IInv, PagesOK
  <2> QED
    BY <2>1, <2>2, PageHasEntries
<1> QED
  BY <1>1, Invariant, PTL
===============================================================================
