------------------------- MODULE ConnectionPool_proofs -------------------------
(***************************************************************************)
(* Proofs about ConnectionPool, for any number of calls and connections.   *)
(* Where a handler is tells which connections it has (Held), and how far   *)
(* CreateEvent has come tells what it has committed (Progress).  So those  *)
(* who keep one connection and wait for another are creations of events,   *)
(* and fewer of them than connections cannot block the pool.               *)
(***************************************************************************)
EXTENDS ConnectionPool, FiniteSetTheorems, TLAPS

(* The steps of each kind of call, and the connections held at each. *)
Held ==
  \A c \in Calls :
    /\ Kind[c] = "query" => pc[c] \in {"idle", "acquire", "execute", "done"}
    /\ Kind[c] = "transaction" => pc[c] \notin {"acquire", "execute"}
    /\ c \in statements <=> pc[c] = "execute"
    /\ c \in transactions <=>
         \/ pc[c] \in {"work", "commit", "rollback"}
         \/ Kind[c] = "createEvent" /\ pc[c] \in {"acquire", "execute"}

Progress ==
  \A c \in CreateCalls :
    /\ pc[c] # "work"
    /\ stage[c] > 0 => c \in events
    /\ pc[c] = "commit" => c \in events \cap creators
    /\ answer[c] = "ok" => c \in events \cap creators

IInv == TypeOK /\ Held /\ Progress

-----------------------------------------------------------------------------

LEMMA InitInvariant == Init => IInv
BY CPAssumption DEF Init, IInv, TypeOK, Held, Progress, CreateCalls

LEMMA TypePreserved ==
  ASSUME TypeOK, NEW c \in Calls, Arrive(c) \/ Run(c)
  PROVE  TypeOK'
<1>1. CASE Arrive(c)
  BY <1>1 DEF TypeOK, Arrive, Goto
<1>2. CASE Begin(c)
  BY <1>2 DEF TypeOK, Begin, Goto
<1>2a. CASE BeginFails(c)
  BY <1>2a DEF TypeOK, BeginFails, Goto, Reply
<1>3. CASE Acquire(c)
  BY <1>3 DEF TypeOK, Acquire, Goto
<1>4. CASE Execute(c)
  <2>1. stage[c] \in 0 .. 2
    BY DEF TypeOK
  <2>2. stage' \in [Calls -> 0 .. 2]
    BY <1>4, <2>1 DEF TypeOK, Execute, LastStage
  <2>3. /\ events' \subseteq Calls /\ creators' \subseteq Calls
        /\ statements' \subseteq Calls /\ transactions' \subseteq Calls
    BY <1>4 DEF TypeOK, Execute, Committed
  <2> QED
    BY <1>4, <2>2, <2>3 DEF TypeOK, Execute, Goto, Reply
<1>5. CASE ExecuteFails(c)
  BY <1>5 DEF TypeOK, ExecuteFails, Goto, Reply
<1>6. CASE Work(c)
  BY <1>6 DEF TypeOK, Work, Goto
<1>7. CASE Commit(c) \/ Rollback(c)
  BY <1>7 DEF TypeOK, Commit, Rollback, Goto, Reply
<1> QED
  BY <1>1, <1>2, <1>2a, <1>3, <1>4, <1>5, <1>6, <1>7 DEF Run

LEMMA HeldPreserved ==
  ASSUME IInv, NEW c \in Calls, Arrive(c) \/ Run(c)
  PROVE  Held'
<1>0. Kind[c] \in Kinds
  BY CPAssumption
<1>1. CASE Arrive(c)
  BY <1>0, <1>1 DEF IInv, TypeOK, Held, Arrive, Goto, Kinds
<1>2. CASE Begin(c)
  BY <1>0, <1>2 DEF IInv, TypeOK, Held, Begin, Goto, Kinds, UsesPoolInside
<1>2a. CASE BeginFails(c)
  BY <1>0, <1>2a DEF IInv, TypeOK, Held, BeginFails, Goto, Reply, Kinds
<1>3. CASE Acquire(c)
  BY <1>0, <1>3 DEF IInv, TypeOK, Held, Acquire, Goto, Kinds
<1>4. CASE Execute(c)
  BY <1>0, <1>4 DEF IInv, TypeOK, Held, Execute, Goto, Reply, Kinds
<1>5. CASE ExecuteFails(c)
  BY <1>0, <1>5 DEF IInv, TypeOK, Held, ExecuteFails, Goto, Reply, Kinds
<1>6. CASE Work(c)
  BY <1>0, <1>6 DEF IInv, TypeOK, Held, Work, Goto, Kinds
<1>7. CASE Commit(c) \/ Rollback(c)
  BY <1>0, <1>7 DEF IInv, TypeOK, Held, Commit, Rollback, Goto, Reply, Kinds
<1> QED
  BY <1>1, <1>2, <1>2a, <1>3, <1>4, <1>5, <1>6, <1>7 DEF Run

LEMMA ProgressPreserved ==
  ASSUME IInv, NEW c \in Calls, Arrive(c) \/ Run(c)
  PROVE  Progress'
<1>0. CreateCalls' = CreateCalls /\ CreateCalls \subseteq Calls
  BY DEF CreateCalls
<1>1. CASE Arrive(c)
  BY <1>0, <1>1 DEF IInv, TypeOK, Progress, Arrive, Goto
<1>2. CASE Begin(c)
  BY <1>0, <1>2 DEF IInv, TypeOK, Progress, Begin, Goto, UsesPoolInside, CreateCalls
<1>2a. CASE BeginFails(c)
  BY <1>0, <1>2a DEF IInv, TypeOK, Progress, BeginFails, Goto, Reply
<1>3. CASE Acquire(c)
  BY <1>0, <1>3 DEF IInv, TypeOK, Progress, Acquire, Goto
<1>4. CASE Execute(c)
  <2>1. stage[c] \in 0 .. 2
    BY DEF IInv, TypeOK
  <2>2. CASE Kind[c] = "query"
    BY <1>0, <1>4, <2>2
    DEF IInv, TypeOK, Progress, Execute, Reply, Goto, CreateCalls
  <2>3. CASE Kind[c] # "query"
    <3>1. events \subseteq events' /\ creators \subseteq creators'
      BY <1>4, <2>3 DEF Execute, Committed
    <3>2. stage[c] = 0 => c \in events'
      BY <1>4, <2>3 DEF Execute, Committed
    <3>3. stage[c] = 2 => c \in creators'
      BY <1>4, <2>3 DEF Execute, Committed
    <3>4. c \in CreateCalls => c \in events'
      BY <2>1, <3>1, <3>2 DEF IInv, Progress
    <3>5. \/ LastStage(c) /\ pc' = [pc EXCEPT ![c] = "commit"] /\ stage' = stage
          \/ stage' = [stage EXCEPT ![c] = @ + 1] /\ pc' = [pc EXCEPT ![c] = "acquire"]
      BY <1>4, <2>3 DEF Execute, Goto
    <3>6. answer' = answer
      BY <1>4, <2>3 DEF Execute
    <3> QED
      BY <1>0, <2>1, <3>1, <3>3, <3>4, <3>5, <3>6
      DEF IInv, TypeOK, Progress, LastStage
  <2> QED
    BY <2>2, <2>3
<1>5. CASE ExecuteFails(c)
  BY <1>0, <1>5 DEF IInv, TypeOK, Progress, ExecuteFails, Goto, Reply
<1>6. CASE Work(c)
  BY <1>0, <1>6 DEF IInv, TypeOK, Progress, Work, Goto
<1>7. CASE Commit(c) \/ Rollback(c)
  BY <1>0, <1>7 DEF IInv, TypeOK, Progress, Commit, Rollback, Goto, Reply
<1> QED
  BY <1>1, <1>2, <1>2a, <1>3, <1>4, <1>5, <1>6, <1>7 DEF Run

LEMMA Invariant == Spec => []IInv
<1>1. ASSUME IInv, NEW c \in Calls, Arrive(c) \/ Run(c)
      PROVE  IInv'
  BY <1>1, TypePreserved, HeldPreserved, ProgressPreserved DEF IInv
<1>2. ASSUME IInv, UNCHANGED vars
      PROVE  IInv'
  BY <1>2 DEF IInv, vars, TypeOK, Held, Progress, CreateCalls
<1>3. IInv /\ [Next]_vars => IInv'
  BY <1>1, <1>2 DEF Next
<1> QED
  BY <1>3, InitInvariant, PTL DEF Spec

-----------------------------------------------------------------------------

(* A call that is over, or has not begun, has no connection, on whichever  *)
(* way through ExecTx it ended.                                            *)
THEOREM ConnectionsComeBack == Spec => []ConnectionsReturned
<1>1. IInv => ConnectionsReturned
  BY DEF IInv, Held, ConnectionsReturned
<1> QED
  BY <1>1, Invariant, PTL

(* Who is told that his event was created has it and is in it. *)
THEOREM CreatorsIncluded == Spec => []CreatedWithCreator
<1>1. IInv => CreatedWithCreator
  BY DEF IInv, Progress, CreatedWithCreator
<1> QED
  BY <1>1, Invariant, PTL

(* A pool with more connections than there are concurrent creations of     *)
(* events always has one that is not kept by a call waiting for another.   *)
THEOREM PoolNeverBlocked ==
  ASSUME Cardinality(CreateCalls) < MaxConns
  PROVE  Spec => []SomebodyRuns
<1>1. IInv => SomebodyRuns
  <2>1. SUFFICES ASSUME IInv PROVE Cardinality(WaitingInside) < MaxConns
    BY DEF SomebodyRuns
  <2>2. WaitingInside \subseteq CreateCalls
    BY <2>1, CPAssumption
    DEF IInv, TypeOK, Held, WaitingInside, CreateCalls, Kinds
  <2>3. IsFiniteSet(CreateCalls)
    BY CPAssumption, FS_Subset DEF CreateCalls
  <2>4. /\ Cardinality(WaitingInside) <= Cardinality(CreateCalls)
        /\ IsFiniteSet(WaitingInside)
    BY <2>2, <2>3, FS_Subset
  <2>5. /\ Cardinality(WaitingInside) \in Nat /\ Cardinality(CreateCalls) \in Nat
    BY <2>3, <2>4, FS_CardinalityType
  <2> QED
    BY <2>4, <2>5, CPAssumption
<1> QED
  BY <1>1, Invariant, PTL

(* Every reachable state is well typed. *)
THEOREM TypeCorrect == Spec => []TypeOK
<1>1. IInv => TypeOK
  BY DEF IInv
<1> QED
  BY <1>1, Invariant, PTL

=============================================================================
