----------------------------- MODULE Registration -----------------------------
(***************************************************************************)
(* Registering one e-mail address: a code is stored in Redis for five      *)
(* minutes and mailed, may be sent again, and is exchanged for an account. *)
(* Redis executes one command at a time; the handlers of concurrent calls  *)
(* interleave between their commands.  A new code is named after the call  *)
(* that generates it.  Timers may run out at any moment.                   *)
(***************************************************************************)
EXTENDS Integers, FiniteSets

CONSTANTS
  Calls,        \* HTTP calls, each served once
  Endpoint,     \* Endpoint[c]: what the call c asks for
  ResendLimit,  \* how many resends an hour the service lets through
  None          \* no code, no account

ASSUME RGAssumption ==
  /\ Endpoint \in [Calls -> {"request", "resend", "confirm"}]
  /\ ResendLimit \in Nat \ {0}
  /\ None \notin Calls /\ IsFiniteSet(Calls)

ResendCalls == {c \in Calls : Endpoint[c] = "resend"}

Steps == {"idle", "setOTP", "count", "expire", "getOTP", "createUser",
          "deleteOTP", "mail", "done"}

VARIABLES
  account,  \* the call that inserted the users row of the address, or None
  otp,      \* key otp:<email>: the stored code, or None
  resends,  \* key otp_resend:<email>; 0 when it does not exist
  timed,    \* whether that key has an expiry
  mailed,   \* codes that reached the mailbox
  outbox,   \* codes that were handed to the sender and are under way
  pc,       \* pc[c]: the next step of the handler of c
  code,     \* code[c]: the code the handler works with
  count,    \* count[c]: what IncrResendCount returned to it
  answer    \* answer[c]: what the client was told

redis == <<otp, resends, timed>>
mails == <<mailed, outbox>>
local == <<pc, code, count, answer>>
vars  == <<account, redis, mails, local>>

TypeOK ==
  /\ account \in Calls \cup {None}
  /\ otp \in Calls \cup {None}
  /\ resends \in 0 .. Cardinality(ResendCalls)
  /\ timed \in BOOLEAN /\ (timed => resends > 0)
  /\ mailed \subseteq Calls /\ outbox \subseteq Calls
  /\ pc \in [Calls -> Steps]
  /\ code \in [Calls -> Calls \cup {None}]
  /\ count \in [Calls -> 0 .. Cardinality(ResendCalls)]
  /\ answer \in [Calls -> {"none", "ok", "refused", "error"}]

Init ==
  /\ account = None /\ otp = None /\ resends = 0 /\ timed = FALSE
  /\ mailed = {} /\ outbox = {}
  /\ pc = [c \in Calls |-> "idle"]
  /\ code = [c \in Calls |-> None]
  /\ count = [c \in Calls |-> 0]
  /\ answer = [c \in Calls |-> "none"]

Goto(c, step) == pc' = [pc EXCEPT ![c] = step] /\ UNCHANGED answer

Reply(c, a) ==
  /\ pc' = [pc EXCEPT ![c] = "done"]
  /\ answer' = [answer EXCEPT ![c] = a]

Keep(c, k) == code' = [code EXCEPT ![c] = k]

(* GetUserByEmail: whoever is registered needs no code.  An error of the   *)
(* lookup is taken for "not registered", so the call may go on regardless. *)
Lookup(c) ==
  /\ pc[c] = "idle" /\ Endpoint[c] \in {"request", "resend"}
  /\ \/ /\ account # None
        /\ Reply(c, "refused")
        /\ UNCHANGED code
     \/ /\ Endpoint[c] = "request"
        /\ Keep(c, c)
        /\ Goto(c, "setOTP")
     \/ /\ Endpoint[c] = "resend"
        /\ Goto(c, "count")
        /\ UNCHANGED code
  /\ UNCHANGED <<account, redis, mails, count>>

(* The counter goes up again when the code is sent. *)
CountTwice(c) ==
  /\ pc[c] = "count"
  /\ resends' = resends + 2
  /\ count' = [count EXCEPT ![c] = resends + 1]
  /\ Goto(c, "getOTP")
  /\ UNCHANGED <<account, otp, timed, mails, code>>

(* INCR creates the key without an expiry; that is a second command. *)
Count(c) ==
  /\ pc[c] = "count"
  /\ resends' = resends + 1
  /\ count' = [count EXCEPT ![c] = resends + 1]
  /\ \/ /\ resends + 1 > ResendLimit
        /\ Reply(c, "refused")
     \/ /\ resends + 1 <= ResendLimit
        /\ Goto(c, IF resends = 0 THEN "expire" ELSE "getOTP")
  /\ UNCHANGED <<account, otp, timed, mails, code>>

(* EXPIRE, whose error is ignored, as is a key that is gone. *)
Expire(c) ==
  /\ pc[c] = "expire"
  /\ timed' = (resends > 0) \/ timed' = timed
  /\ Goto(c, "getOTP")
  /\ UNCHANGED <<account, otp, resends, mails, code, count>>

(* The stored code is sent again; without one a new code is generated. *)
GetOTP(c) ==
  /\ pc[c] = "getOTP"
  /\ Keep(c, IF otp = None THEN c ELSE otp)
  /\ Goto(c, "setOTP")
  /\ UNCHANGED <<account, redis, mails, count>>

(* SET with a new expiry.  A failure ends the call if the code is new; the *)
(* longer life of an old code is not insisted on.                          *)
SetOTP(c) ==
  /\ pc[c] = "setOTP"
  /\ \/ /\ otp' = code[c]
        /\ Goto(c, "mail")
     \/ /\ UNCHANGED otp
        /\ IF code[c] = c THEN Reply(c, "error") ELSE Goto(c, "mail")
  /\ UNCHANGED <<account, resends, timed, mails, code, count>>

(* The mail is sent by a goroutine of its own while the client is answered. *)
Mail(c) ==
  /\ pc[c] = "mail"
  /\ outbox' = outbox \cup {code[c]}
  /\ Reply(c, "ok")
  /\ UNCHANGED <<account, redis, mailed, code, count>>

Deliver ==
  /\ \E k \in outbox :
       /\ outbox' = outbox \ {k}
       /\ mailed' = mailed \cup {k} \/ UNCHANGED mailed
  /\ UNCHANGED <<account, redis, local>>

(* Any code passes while one is stored. *)
SomeCode(k) == otp # None

Matches(k) == otp # None /\ otp = k

(* RegisterConfirm: the client sends a code it was mailed, or makes one up. *)
CheckCode(c, k) ==
  /\ pc[c] = "idle" /\ Endpoint[c] = "confirm"
  /\ Keep(c, k)
  /\ IF Matches(k) THEN Goto(c, "createUser") ELSE Reply(c, "error")
  /\ UNCHANGED <<account, redis, mails, count>>

(* A users table without UNIQUE on the e-mail address. *)
NeverRegistered == FALSE

Registered == account # None

CreateUser(c) ==
  /\ pc[c] = "createUser"
  /\ \/ /\ Registered
        /\ Reply(c, "error")
        /\ UNCHANGED account
     \/ /\ ~Registered
        /\ account' = c
        /\ Goto(c, "deleteOTP")
  /\ UNCHANGED <<redis, mails, code, count>>

(* DEL, whose error is ignored. *)
DeleteOTP(c) ==
  /\ pc[c] = "deleteOTP"
  /\ otp' = None \/ UNCHANGED otp
  /\ Reply(c, "ok")
  /\ UNCHANGED <<account, resends, timed, mails, code, count>>

(* A command fails, or the server stops. *)
Abort(c) ==
  /\ pc[c] \notin {"idle", "done"}
  /\ Reply(c, "error")
  /\ UNCHANGED <<account, redis, mails, code, count>>

OTPExpires ==
  /\ otp # None /\ otp' = None
  /\ UNCHANGED <<account, resends, timed, mails, local>>

WindowEnds ==
  /\ timed /\ timed' = FALSE /\ resends' = 0
  /\ UNCHANGED <<account, otp, mails, local>>

Next ==
  \/ \E c \in Calls :
       \/ Lookup(c) \/ Count(c) \/ Expire(c) \/ GetOTP(c) \/ SetOTP(c) \/ Mail(c)
       \/ \E k \in Calls : CheckCode(c, k)
       \/ CreateUser(c) \/ DeleteOTP(c) \/ Abort(c)
  \/ Deliver \/ OTPExpires \/ WindowEnds

Spec == Init /\ [][Next]_vars

-----------------------------------------------------------------------------
(* Properties *)

Generated(k) == Endpoint[k] # "confirm" /\ code[k] = k

(* An account exists only if its owner sent a code that was generated for  *)
(* the address, however confirmations, resends and expiries are ordered.   *)
AccountVerified == account # None => Generated(code[account])

(* Of all confirmations, also with the same code at the same time, at most *)
(* one is answered "ok", and the account is that one's for good.           *)
OneConfirmation ==
  \A c \in Calls : answer[c] = "ok" /\ Endpoint[c] = "confirm" => account = c

(* "Rate limit: max 5 resends per hour". *)
FiveResends ==
  \A c \in Calls :
    answer[c] = "ok" /\ Endpoint[c] = "resend" => count[c] <= 5

(* "Increment resend count key and set TTL if first increment": a counter  *)
(* that nobody is about to give an expiry has one.                         *)
CounterExpires ==
  resends > 0 /\ (\A c \in Calls : pc[c] # "expire") => timed

(* "Extend TTL to give user more time": a resend that found a code never   *)
(* puts a newer one out of force when it stores the code it found again.   *)
ResendExtends ==
  [][\A c \in Calls :
       (/\ pc[c] = "setOTP" /\ pc'[c] = "mail"
        /\ Endpoint[c] = "resend" /\ code[c] # c)
         => otp' = otp \/ otp = None]_vars
=============================================================================
