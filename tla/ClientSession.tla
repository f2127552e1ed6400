----------------------------- MODULE ClientSession -----------------------------
(***************************************************************************)
(* The session of one user in the browser.  The tabs share the tokens in   *)
(* localStorage; each has an interceptor of its own, which on the first    *)
(* 401 exchanges the refresh token, holds back the requests that come back *)
(* with 401 meanwhile, and sends them again.  Tokens are named after the   *)
(* login or after the request whose 401 led to the exchange.               *)
(***************************************************************************)
EXTENDS Integers, FiniteSets

CONSTANTS
  Tabs,
  Requests,  \* requests other than login and refresh, each sent once
  Tab,       \* Tab[r]: the tab that sends r
  Probes,    \* GET /users/me at start-up, whose failure ends the session
  Logins,    \* times the user logs in
  Faults,    \* whether the network and the server may fail
  NoToken    \* no token

ASSUME CSAssumption ==
  /\ Tab \in [Requests -> Tabs]
  /\ Probes \subseteq Requests
  /\ Requests \cap Logins = {}
  /\ Faults \in BOOLEAN
  /\ NoToken \notin Requests \cup Logins

VARIABLES
  access, refresh,  \* localStorage
  refreshing,       \* refreshing[t]: isRefreshing of the tab t
  pc,               \* pc[r]: where r and its exchange stand
  carried,          \* carried[r]: the access token r was last sent with
  presented,        \* presented[r]: the refresh token r leads the exchange of
  retry,            \* retry[r]: _retry
  live,             \* access tokens that have not expired
  valid,            \* refresh tokens that Redis holds
  loggedIn          \* logins made so far

storage == <<access, refresh>>
tokens == <<live, valid, loggedIn>>
sessionVars ==
  <<access, refresh, refreshing, pc, carried, presented, retry, live, valid, loggedIn>>

Tokens == Requests \cup Logins

(* The steps of an exchange, from POST /auth/refresh to its answer. *)
Exchange == {"asking", "checked", "granted", "denied", "lost"}

SessionTypeOK ==
  /\ access \in Tokens \cup {NoToken} /\ refresh \in Tokens \cup {NoToken}
  /\ refreshing \in [Tabs -> BOOLEAN]
  /\ pc \in [Requests -> {"idle", "sent", "queued", "ok", "failed"} \cup Exchange]
  /\ carried \in [Requests -> Tokens \cup {NoToken}]
  /\ presented \in [Requests -> Tokens \cup {NoToken}]
  /\ retry \in [Requests -> BOOLEAN]
  /\ live \subseteq Tokens /\ valid \subseteq Tokens
  /\ loggedIn \subseteq Logins
  /\ \A r \in Requests : pc[r] \in Exchange => presented[r] # NoToken

SessionInit ==
  /\ access = NoToken /\ refresh = NoToken
  /\ refreshing = [t \in Tabs |-> FALSE]
  /\ pc = [r \in Requests |-> "idle"]
  /\ carried = [r \in Requests |-> NoToken]
  /\ presented = [r \in Requests |-> NoToken]
  /\ retry = [r \in Requests |-> FALSE]
  /\ live = {} /\ valid = {} /\ loggedIn = {}

ClearToken == access' = NoToken /\ refresh' = NoToken

Queue(t) == {r \in Requests : Tab[r] = t /\ pc[r] = "queued"}

(* The request interceptor puts in the token of the storage. *)
Send(r) ==
  /\ pc[r] = "idle"
  /\ pc' = [pc EXCEPT ![r] = "sent"]
  /\ carried' = [carried EXCEPT ![r] = access]
  /\ UNCHANGED <<storage, refreshing, presented, retry, tokens>>

Settle(r, a) ==
  /\ pc' = [pc EXCEPT ![r] = a]
  /\ UNCHANGED <<refreshing, carried, presented, retry, tokens>>

Serve(r) ==
  /\ pc[r] = "sent" /\ carried[r] \in live
  /\ Settle(r, "ok") /\ UNCHANGED storage

(* 15 s are over, the network fails or the answer is a 5xx. *)
GiveUp(r) ==
  /\ Faults /\ pc[r] = "sent"
  /\ Settle(r, "failed")
  /\ IF r \in Probes THEN ClearToken ELSE UNCHANGED storage

Unauthorized(r) == pc[r] = "sent" /\ carried[r] \notin live

(* A second 401 is handed to the caller, which for hydrate is enough. *)
Reject(r) ==
  /\ Unauthorized(r) /\ retry[r]
  /\ Settle(r, "failed")
  /\ \/ r \in Probes /\ ClearToken
     \/ UNCHANGED storage

NoRefreshToken(r) ==
  /\ Unauthorized(r) /\ ~retry[r] /\ refresh = NoToken
  /\ Settle(r, "failed") /\ ClearToken

Enqueue(r) ==
  /\ Unauthorized(r) /\ ~retry[r] /\ refresh # NoToken /\ refreshing[Tab[r]]
  /\ Settle(r, "queued") /\ UNCHANGED storage

StartExchange(r) ==
  /\ refreshing' = [refreshing EXCEPT ![Tab[r]] = TRUE]
  /\ retry' = [retry EXCEPT ![r] = TRUE]
  /\ presented' = [presented EXCEPT ![r] = refresh]
  /\ pc' = [pc EXCEPT ![r] = "asking"]
  /\ UNCHANGED <<storage, carried, tokens>>

(* The token in the storage is not looked at first. *)
LeadWithout(r) ==
  Unauthorized(r) /\ ~retry[r] /\ ~refreshing[Tab[r]] /\ StartExchange(r)

(* Every request that comes back with 401 starts an exchange. *)
LeadAlways(r) ==
  Unauthorized(r) /\ ~retry[r] /\ refresh # NoToken /\ StartExchange(r)

Lead(r) ==
  /\ Unauthorized(r) /\ ~retry[r] /\ refresh # NoToken /\ ~refreshing[Tab[r]]
  /\ StartExchange(r)

(* The server looks for the token in Redis. *)
CheckRefresh(r) ==
  /\ pc[r] = "asking"
  /\ pc' = [pc EXCEPT ![r] = IF presented[r] \in valid THEN "checked" ELSE "denied"]
  /\ UNCHANGED <<storage, refreshing, carried, presented, retry, tokens>>

(* It deletes the token and stores and signs new ones. *)
Rotate(r) ==
  /\ pc[r] = "checked"
  /\ valid' = (valid \ {presented[r]}) \cup {r}
  /\ live' = live \cup {r}
  /\ pc' = [pc EXCEPT ![r] = "granted"]
  /\ UNCHANGED <<storage, refreshing, carried, presented, retry, loggedIn>>

(* The exchange fails before or after that, or its answer is lost. *)
ExchangeFails(r) ==
  /\ Faults /\ pc[r] \in {"asking", "checked", "granted"}
  /\ pc' = [pc EXCEPT ![r] = "lost"]
  /\ valid' \in {valid, valid \ {presented[r]}}
  /\ UNCHANGED <<storage, refreshing, carried, presented, retry, live, loggedIn>>

(* The queue waits for the request that led the exchange to succeed. *)
GrantedAlone(r) ==
  /\ pc[r] = "granted"
  /\ access' = r /\ refresh' = r
  /\ pc' = [pc EXCEPT ![r] = "sent"]
  /\ carried' = [carried EXCEPT ![r] = r]
  /\ refreshing' = [refreshing EXCEPT ![Tab[r]] = FALSE]
  /\ UNCHANGED <<presented, retry, tokens>>

(* Both tokens are stored; r and the queue are sent again. *)
Granted(r) ==
  LET again == Queue(Tab[r]) \cup {r} IN
  /\ pc[r] = "granted"
  /\ access' = r /\ refresh' = r
  /\ pc' = [q \in Requests |-> IF q \in again THEN "sent" ELSE pc[q]]
  /\ carried' = [q \in Requests |-> IF q \in again THEN r ELSE carried[q]]
  /\ retry' = [q \in Requests |-> q \in again \/ retry[q]]
  /\ refreshing' = [refreshing EXCEPT ![Tab[r]] = FALSE]
  /\ UNCHANGED <<presented, tokens>>

(* isRefreshing is reset only where the exchange succeeds. *)
RefusedForever(r) ==
  /\ pc[r] \in {"denied", "lost"}
  /\ pc' = [q \in Requests |-> IF q \in Queue(Tab[r]) \cup {r} THEN "failed" ELSE pc[q]]
  /\ ClearToken
  /\ UNCHANGED <<refreshing, carried, presented, retry, tokens>>

(* r and the queue are rejected and the user is logged out. *)
Refused(r) ==
  /\ pc[r] \in {"denied", "lost"}
  /\ pc' = [q \in Requests |-> IF q \in Queue(Tab[r]) \cup {r} THEN "failed" ELSE pc[q]]
  /\ refreshing' = [refreshing EXCEPT ![Tab[r]] = FALSE]
  /\ ClearToken
  /\ UNCHANGED <<carried, presented, retry, tokens>>

LogIn(l) ==
  /\ l \notin loggedIn /\ access = NoToken
  /\ loggedIn' = loggedIn \cup {l}
  /\ access' = l /\ refresh' = l
  /\ live' = live \cup {l} /\ valid' = valid \cup {l}
  /\ UNCHANGED <<refreshing, pc, carried, presented, retry>>

(* The user logs out: the server is not told. *)
Logout ==
  /\ access # NoToken /\ ClearToken
  /\ UNCHANGED <<refreshing, pc, carried, presented, retry, tokens>>

AccessExpires(t) ==
  /\ t \in live /\ live' = live \ {t}
  /\ UNCHANGED <<storage, refreshing, pc, carried, presented, retry, valid, loggedIn>>

RefreshExpires(t) ==
  /\ t \in valid /\ valid' = valid \ {t}
  /\ UNCHANGED <<storage, refreshing, pc, carried, presented, retry, live, loggedIn>>

Answer(r) ==
  \/ Serve(r) \/ Reject(r) \/ NoRefreshToken(r) \/ Enqueue(r) \/ Lead(r)
  \/ CheckRefresh(r) \/ Rotate(r) \/ Granted(r) \/ Refused(r)

SessionNext ==
  \/ \E r \in Requests : Send(r) \/ Answer(r) \/ GiveUp(r) \/ ExchangeFails(r)
  \/ \E l \in Logins : LogIn(l)
  \/ \E t \in Tokens : AccessExpires(t) \/ RefreshExpires(t)
  \/ Logout

SessionSpec == SessionInit /\ [][SessionNext]_sessionVars

(* The answer to a request, or the error for want of one. *)
Settled(r) ==
  Serve(r) \/ GiveUp(r) \/ Reject(r) \/ NoRefreshToken(r) \/ Enqueue(r) \/ Lead(r)

(* A request has 15 s.  The exchange of a token has no limit: it is posted *)
(* with plain axios and its answer may never come.                         *)
SessionFairSpec == SessionSpec /\ \A r \in Requests : WF_sessionVars(Settled(r))

-----------------------------------------------------------------------------
(* Properties *)

(* A tab exchanges one token at a time, and isRefreshing says whether it   *)
(* does: it is neither left set by an exchange that ended nor reset under  *)
(* one that goes on.                                                       *)
OneExchange ==
  \A t \in Tabs :
    Cardinality({r \in Requests : Tab[r] = t /\ pc[r] \in Exchange})
      = (IF refreshing[t] THEN 1 ELSE 0)

(* Whoever waits in the queue of a tab waits for an exchange of that tab,  *)
(* which will empty it.                                                    *)
QueueServed ==
  \A q \in Requests : pc[q] = "queued" =>
    \E r \in Requests : Tab[r] = Tab[q] /\ pc[r] \in Exchange

(* "handle token hết hạn với refresh token": the user is logged out only if *)
(* he asks for it, if the exchange or the start-up call fails, or if the    *)
(* server no longer knows his refresh token; but a login made while an      *)
(* exchange of the former session goes on falls with it, see LoginKept.  So *)
(* it is with one tab, which makes one exchange at a time.  With two, one   *)
(* tab exchanges the token again that the other has just exchanged, and on  *)
(* the refusal removes the new one.                                         *)
SessionKept ==
  [][access # NoToken /\ access' = NoToken =>
       \/ Logout \/ refresh \notin valid
       \/ \E r \in Requests : GiveUp(r) \/ (Refused(r) /\ pc[r] = "lost")
       \/ \E r \in Probes : Reject(r)
       \/ refresh \in Logins /\ \E r \in Requests : Refused(r) /\ presented[r] # refresh]_sessionVars

(* A new login stands, whatever becomes of the exchanges of the session     *)
(* before it.  Violated: the refusal of an exchange clears the storage      *)
(* without a look at what is in it now.                                     *)
LoginKept ==
  [][access' = NoToken /\ refresh \in Logins =>
       Logout \/ \A r \in Requests : Refused(r) => presented[r] = refresh]_sessionVars

(* A request gets an answer or an error, whatever becomes of the tokens    *)
(* meanwhile, unless it leads an exchange that never ends or waits in the  *)
(* queue of a tab for one: nothing else makes a request wait for ever.     *)
OnlyExchangesHang ==
  \A r \in Requests :
    [](pc[r] = "sent" =>
         <>(\/ pc[r] \in {"ok", "failed"}
            \/ \E q \in Requests :
                 /\ Tab[q] = Tab[r]
                 /\ [](pc[q] \in Exchange /\ (q = r \/ pc[r] = "queued"))))

(* "timeout: 15000": every request gets an answer or an error.  Violated:  *)
(* the exchange has no limit, and the queue of its tab waits with it.      *)
EveryRequestSettles ==
  \A r \in Requests : pc[r] = "sent" ~> pc[r] \in {"ok", "failed"}
=============================================================================
