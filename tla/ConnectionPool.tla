---------------------------- MODULE ConnectionPool ----------------------------
(***************************************************************************)
(* The pool of database connections and the calls that compete for it:     *)
(*   "query"        one statement on a connection of the pool;             *)
(*   "transaction"  ExecTx whose statements use the transaction's own      *)
(*                  connection, as the expense service does;               *)
(*   "createEvent"  CreateEvent, whose statements inside ExecTx go to the  *)
(*                  pool instead: the transaction keeps one connection and *)
(*                  stays empty, each statement takes another connection   *)
(*                  and commits by itself.                                 *)
(* A call that finds no connection waits; nothing limits its wait.         *)
(***************************************************************************)
EXTENDS Integers, FiniteSets

CONSTANTS
  Calls,     \* HTTP calls, each served once
  Kind,      \* Kind[c]: what kind of call c is
  MaxConns   \* size of the pool

Kinds == {"query", "transaction", "createEvent"}

ASSUME CPAssumption ==
  /\ IsFiniteSet(Calls)
  /\ Kind \in [Calls -> Kinds]
  /\ MaxConns \in Nat \ {0}

(* A call that uses the pool inside its transaction: every one, or         *)
(* CreateEvent alone.                                                      *)
EveryTransaction(c) == Kind[c] # "query"

UsesPoolInside(c) == Kind[c] = "createEvent"

VARIABLES
  pc,           \* pc[c]: where the handler of c is
  stage,        \* stage[c]: statements of CreateEvent that have succeeded
  transactions, \* the calls that keep a connection for a transaction
  statements,   \* the calls that have one for a single statement
  events,       \* the calls whose event row is committed
  creators,     \* the calls whose creator is a participant, committed
  answer        \* answer[c]: what the client was told

vars == <<pc, stage, transactions, statements, events, creators, answer>>

TypeOK ==
  /\ pc \in [Calls -> {"idle", "begin", "acquire", "execute", "work",
                       "commit", "rollback", "done"}]
  /\ stage \in [Calls -> 0 .. 2]
  /\ transactions \subseteq Calls /\ statements \subseteq Calls
  /\ events \subseteq Calls /\ creators \subseteq Calls
  /\ answer \in [Calls -> {"none", "ok", "error"}]

Init ==
  /\ pc = [c \in Calls |-> "idle"]
  /\ stage = [c \in Calls |-> 0]
  /\ transactions = {} /\ statements = {}
  /\ events = {} /\ creators = {}
  /\ answer = [c \in Calls |-> "none"]

Free == Cardinality(transactions) + Cardinality(statements) < MaxConns

Goto(c, step) == pc' = [pc EXCEPT ![c] = step]

Reply(c, a) ==
  /\ Goto(c, "done")
  /\ answer' = [answer EXCEPT ![c] = a]

Arrive(c) ==
  /\ pc[c] = "idle"
  /\ Goto(c, IF Kind[c] = "query" THEN "acquire" ELSE "begin")
  /\ UNCHANGED <<stage, transactions, statements, events, creators, answer>>

(* connPool.Begin *)
Begin(c) ==
  /\ pc[c] = "begin"
  /\ Free
  /\ transactions' = transactions \cup {c}
  /\ Goto(c, IF UsesPoolInside(c) THEN "acquire" ELSE "work")
  /\ UNCHANGED <<stage, statements, events, creators, answer>>

(* The connection is lost before the transaction has begun. *)
BeginFails(c) ==
  /\ pc[c] = "begin"
  /\ Free
  /\ Reply(c, "error")
  /\ UNCHANGED <<stage, transactions, statements, events, creators>>

(* A statement of the store takes a connection of the pool. *)
Acquire(c) ==
  /\ pc[c] = "acquire"
  /\ Free
  /\ statements' = statements \cup {c}
  /\ Goto(c, "execute")
  /\ UNCHANGED <<stage, transactions, events, creators, answer>>

(* The statements are CreateEvent, GetUserByID and AddParticipant. *)
Committed(c) ==
  /\ events' = IF stage[c] = 0 THEN events \cup {c} ELSE events
  /\ creators' = IF stage[c] = 2 THEN creators \cup {c} ELSE creators

(* A statement too many. *)
OneStageMore(c) == stage[c] = 3

(* AddParticipant is not called. *)
LastStageSkipped(c) == stage[c] = 1

LastStage(c) == stage[c] = 2

Execute(c) ==
  /\ pc[c] = "execute"
  /\ statements' = statements \ {c}
  /\ \/ /\ Kind[c] = "query"
        /\ Reply(c, "ok")
        /\ UNCHANGED <<stage, events, creators>>
     \/ /\ Kind[c] # "query"
        /\ Committed(c)
        /\ \/ /\ LastStage(c)
              /\ Goto(c, "commit")
              /\ UNCHANGED stage
           \/ /\ ~LastStage(c)
              /\ stage' = [stage EXCEPT ![c] = @ + 1]
              /\ Goto(c, "acquire")
        /\ UNCHANGED answer
  /\ UNCHANGED transactions

(* The statement fails; inside ExecTx the function returns its error. *)
ExecuteFails(c) ==
  /\ pc[c] = "execute"
  /\ statements' = statements \ {c}
  /\ \/ /\ Kind[c] = "query"
        /\ Reply(c, "error")
     \/ /\ Kind[c] # "query"
        /\ Goto(c, "rollback")
        /\ UNCHANGED answer
  /\ UNCHANGED <<stage, transactions, events, creators>>

(* The statements of an ordinary transaction. *)
Work(c) ==
  /\ pc[c] = "work"
  /\ Goto(c, "commit") \/ Goto(c, "rollback")
  /\ UNCHANGED <<stage, transactions, statements, events, creators, answer>>

(* Either way the connection goes back to the pool. *)
Commit(c) ==
  /\ pc[c] = "commit"
  /\ transactions' = transactions \ {c}
  /\ Reply(c, "ok") \/ Reply(c, "error")
  /\ UNCHANGED <<stage, statements, events, creators>>

(* ExecTx returns the error of the function at once. *)
RollbackForgotten(c) ==
  /\ pc[c] = "rollback"
  /\ Reply(c, "error")
  /\ UNCHANGED <<stage, transactions, statements, events, creators>>

Rollback(c) ==
  /\ pc[c] = "rollback"
  /\ transactions' = transactions \ {c}
  /\ Reply(c, "error")
  /\ UNCHANGED <<stage, statements, events, creators>>

Run(c) ==
  \/ Begin(c) \/ BeginFails(c) \/ Acquire(c)
  \/ Execute(c) \/ ExecuteFails(c) \/ Work(c)
  \/ Commit(c) \/ Rollback(c)

Next == \E c \in Calls : Arrive(c) \/ Run(c)

(* Waiting calls are served in their order, and a statement comes to an end. *)
Spec == Init /\ [][Next]_vars
FairSpec == Spec /\ \A c \in Calls : WF_vars(Run(c))

-----------------------------------------------------------------------------
(* Properties *)

CreateCalls == {c \in Calls : Kind[c] = "createEvent"}

(* The calls that keep a connection while they wait for another. *)
WaitingInside == {c \in transactions : pc[c] = "acquire"}

(* Not every connection is kept by a call that waits for one: some call    *)
(* that has a connection can go on and give it back.                       *)
SomebodyRuns == Cardinality(WaitingInside) < MaxConns

(* A call that is over has given back its connections, also when it failed. *)
ConnectionsReturned ==
  \A c \in Calls :
    pc[c] \in {"idle", "done"} => c \notin transactions \cup statements

(* An event whose creation was confirmed exists, with its creator in it. *)
CreatedWithCreator ==
  \A c \in CreateCalls : answer[c] = "ok" => c \in events \cap creators

(* With fewer concurrent CreateEvent calls than connections every call is  *)
(* answered.                                                               *)
EveryCallAnswered == \A c \in Calls : pc[c] # "idle" ~> pc[c] = "done"

(* "Run a transaction, roll back when it does not succeed": who is told    *)
(* that the creation failed leaves no event behind.                        *)
FailureLeavesNothing ==
  \A c \in CreateCalls : pc[c] = "done" /\ c \notin creators => c \notin events

(* "Run a transaction, roll back when it does not succeed": every          *)
(* transaction is brought to one end or the other.                         *)
TransactionsEnd == \A c \in Calls : c \in transactions ~> c \notin transactions
=============================================================================
