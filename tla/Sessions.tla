------------------------------- MODULE Sessions -------------------------------
(***************************************************************************)
(* The sessions and the password of one account on the server.  A login    *)
(* leaves the id of a refresh token in Redis; a refresh looks the id up,   *)
(* deletes it and stores a new one; a logout deletes it.  Concurrent calls *)
(* interleave between these commands.  The id of a token is named after    *)
(* the call that stores it, a password after the call that sets it.        *)
(***************************************************************************)
EXTENDS Integers

CONSTANTS
  Calls,     \* HTTP calls, each served once
  Endpoint,  \* Endpoint[c]: what the call c asks for
  First,     \* the password the account was registered with
  None       \* nothing presented

ASSUME SEAssumption ==
  /\ Endpoint \in [Calls -> {"login", "refresh", "logout", "change"}]
  /\ First \notin Calls
  /\ None \notin Calls \cup {First}

VARIABLES
  password,   \* the call that set the stored hash, or First
  tokens,     \* ids under rt:<jti> in Redis
  issued,     \* ids a client was given
  pc,         \* pc[c]: the next step of the handler of c
  presented,  \* presented[c]: the password or the refresh token c came with
  answer      \* answer[c]: what the client was told

vars == <<password, tokens, issued, pc, presented, answer>>

TypeOK ==
  /\ password \in Calls \cup {First}
  /\ tokens \subseteq Calls
  /\ issued \subseteq Calls
  /\ pc \in [Calls -> {"idle", "rotate", "store", "send", "update", "done"}]
  /\ presented \in [Calls -> Calls \cup {First, None}]
  /\ answer \in [Calls -> {"none", "ok", "refused", "error"}]

Init ==
  /\ password = First
  /\ tokens = {} /\ issued = {}
  /\ pc = [c \in Calls |-> "idle"]
  /\ presented = [c \in Calls |-> None]
  /\ answer = [c \in Calls |-> "none"]

Goto(c, step) == pc' = [pc EXCEPT ![c] = step] /\ UNCHANGED answer

Reply(c, a) ==
  /\ pc' = [pc EXCEPT ![c] = "done"]
  /\ answer' = [answer EXCEPT ![c] = a]

(* A call arrives with x and is let through or not. *)
Present(c, x, admitted, step) ==
  /\ pc[c] = "idle"
  /\ presented' = [presented EXCEPT ![c] = x]
  /\ IF admitted THEN Goto(c, step) ELSE Reply(c, "refused")
  /\ UNCHANGED <<password, tokens, issued>>

(* Any password will do. *)
AnyPassword(c, w) ==
  Endpoint[c] = "login" /\ Present(c, w, TRUE, "store")

(* Both compare with the row they read just before. *)
CheckLogin(c, w) ==
  Endpoint[c] = "login" /\ Present(c, w, w = password, "store")

CheckChange(c, w) ==
  Endpoint[c] = "change" /\ Present(c, w, w = password, "update")

(* Only the signature of the token is looked at. *)
Signed(t) == t \in issued

InRedis(t) == t \in tokens

CheckRefresh(c, t) ==
  /\ Endpoint[c] = "refresh" /\ t \in issued
  /\ Present(c, t, InRedis(t), "rotate")

(* DEL, whose error is ignored. *)
Rotate(c) ==
  /\ pc[c] = "rotate"
  /\ tokens' = tokens \ {presented[c]} \/ UNCHANGED tokens
  /\ Goto(c, "store")
  /\ UNCHANGED <<password, issued, presented>>

(* The refreshed token keeps its id. *)
SameId(c) == IF presented[c] \in Calls THEN presented[c] ELSE c

(* The claims leave the id out. *)
NoId(c) == None

(* uuid.New() *)
NewId(c) == c

Store(c) ==
  /\ pc[c] = "store"
  /\ tokens' = tokens \cup {NewId(c)}
  /\ Goto(c, "send")
  /\ UNCHANGED <<password, issued, presented>>

Send(c) ==
  /\ pc[c] = "send"
  /\ issued' = issued \cup {NewId(c)}
  /\ Reply(c, "ok")
  /\ UNCHANGED <<password, tokens, presented>>

(* The server does not delete anything. *)
KeepToken(c, t) ==
  /\ Endpoint[c] = "logout" /\ t \in issued
  /\ pc[c] = "idle"
  /\ presented' = [presented EXCEPT ![c] = t]
  /\ Reply(c, "ok")
  /\ UNCHANGED <<password, tokens, issued>>

(* DEL of the presented id, whether or not it is there. *)
Logout(c, t) ==
  /\ Endpoint[c] = "logout" /\ t \in issued
  /\ pc[c] = "idle"
  /\ presented' = [presented EXCEPT ![c] = t]
  /\ \/ tokens' = tokens \ {t} /\ Reply(c, "ok")
     \/ UNCHANGED tokens /\ Reply(c, "error")
  /\ UNCHANGED <<password, issued>>

(* The UPDATE has no condition on the hash that was compared. *)
UpdatePassword(c) ==
  /\ pc[c] = "update"
  /\ password' = c
  /\ Reply(c, "ok")
  /\ UNCHANGED <<tokens, issued, presented>>

(* A command fails, or the server stops. *)
Abort(c) ==
  /\ pc[c] \notin {"idle", "done"}
  /\ Reply(c, "error")
  /\ UNCHANGED <<password, tokens, issued, presented>>

(* The time to live of an id runs out. *)
Expire(t) ==
  /\ t \in tokens
  /\ tokens' = tokens \ {t}
  /\ UNCHANGED <<password, issued, pc, presented, answer>>

Next ==
  \/ \E c \in Calls :
       \/ \E w \in Calls \cup {First} : CheckLogin(c, w) \/ CheckChange(c, w)
       \/ \E t \in Calls : CheckRefresh(c, t) \/ Logout(c, t)
       \/ Rotate(c) \/ Store(c) \/ Send(c) \/ UpdatePassword(c) \/ Abort(c)
  \/ \E t \in Calls : Expire(t)

Spec == Init /\ [][Next]_vars

-----------------------------------------------------------------------------
(* Properties *)

(* A token that a client was given and that is no longer in Redis, because *)
(* it was refreshed, revoked or has expired, never gets there again,       *)
(* whatever refreshes of it are still under way.                           *)
NeverRevived == [][\A t \in issued \ tokens : t \notin tokens']_vars

(* Who was told that his session was logged out finds its token refused    *)
(* ever after: no refresh that starts later succeeds with it.              *)
LogoutHolds ==
  [][\A c, d \in Calls :
       /\ answer[d] = "ok" /\ Endpoint[d] = "logout"
       /\ pc[c] = "idle" /\ pc'[c] = "rotate"
       => presented'[c] # presented[d]]_vars

(* Nobody gets a session without the password or a session: every token    *)
(* was stored by a call that presented a password that was the account's,  *)
(* or a token that had been given out before.                              *)
SessionsProven ==
  \A t \in tokens \cup issued :
    \/ Endpoint[t] = "login"
       /\ \/ presented[t] = First
          \/ presented[t] \in Calls /\ answer[presented[t]] = "ok"
    \/ Endpoint[t] = "refresh" /\ presented[t] \in issued

(* "Rotate: delete old and create new": a token that was exchanged for a   *)
(* new one is gone, so it is exchanged once.                               *)
ExchangedOnce ==
  \A c, d \in Calls :
    (/\ c # d /\ answer[c] = "ok" /\ answer[d] = "ok"
     /\ Endpoint[c] = "refresh" /\ Endpoint[d] = "refresh")
      => presented[c] # presented[d]
=============================================================================
