---------------------------- MODULE Amounts_proofs ----------------------------
(***************************************************************************)
(* Proofs about the ledger of an event, about the settlement plan that its *)
(* summary ends with, and about the dialog of an expense with what the     *)
(* server keeps of it.  All add up amounts over finite sets with the folds *)
(* of the library, and share the facts about them.                         *)
(*                                                                         *)
(* EventLedger, for any calls, accounts, founders and bills.               *)
(*                                                                         *)
(* No detail names a participant who is gone, although the handlers        *)
(* translate names with a list they read before their transaction, because *)
(*   - a transaction about to commit shares the rows its details name, and *)
(*     no removal has one of them (NamesHeld),                             *)
(*   - a removal takes its participant off all expenses in the same step.  *)
(* A removal stays true and was authorised because a row is inserted once, *)
(* by the call it is named after (RowsFresh), so that the row a removal    *)
(* has looked up is the same person's until it is gone (TargetsOK).        *)
(*                                                                         *)
(* The statistics follow the tables because every trigger counts what its  *)
(* statement does (NInv): a removal that has locked its row has it alone,  *)
(* an update has an expense that no deletion takes away, and a transaction *)
(* about to commit has a bill with rows (Held).  The total of the event is *)
(* a sum that the library folds in an order of its own choice; that one    *)
(* term of it can be replaced is proved from that definition.              *)
(*                                                                         *)
(* For bills that add up, expenses do: an expense is the rows of one bill  *)
(* as long as all whom the bills name are there (OneBill).                 *)
(*                                                                         *)
(* SettlementPlan, for every set of participants, every balances and       *)
(* every Cent.                                                             *)
(*                                                                         *)
(* NobodyOverpays is inductive with the types: a turn adds to the plan no  *)
(* more than it takes from the two maps.  PlanIsShort needs Short: the     *)
(* payments and the entries of both maps together are never more than the  *)
(* participants who are not settled, because every turn uses up an entry.  *)
(*                                                                         *)
(* PlanSettles needs more, because what the plan leaves open is the sum of *)
(* what many turns dropped.  Open says what is still Unpaid and Unreceived *)
(* (the balance without the plan): the two differ by the sum of the        *)
(* balances (Balanced), and the loop has two phases.  While it suggests    *)
(* payments (Full), a map still holds all that is open for a participant,  *)
(* or less than a hundredth of his was dropped when his entry went.  Once  *)
(* a turn suggests nothing, one side has nothing above a hundredth left,   *)
(* so it has less than a hundredth for each participant open in all, and   *)
(* the other side, which has the same open in all, no more (Spread);       *)
(* nothing is suggested from then on (Small).                              *)
(*                                                                         *)
(* ExpenseForm, for any people and, where it matters, totals that four     *)
(* decimals of a ratio can tell the amounts of.                            *)
(*                                                                         *)
(* A stored expense has the ratios of the weights it was sent with         *)
(* (Stored).  They add up to a whole but for half a unit each (WholeNear), *)
(* so an amount that is computed back from them is nearest to the one that *)
(* was entered (AmountBack), and ratios that pass for equal come from      *)
(* equal amounts (PartsEqual).                                             *)
(***************************************************************************)
EXTENDS EventLedger, SettlementPlan, ExpenseForm, TLAPS, FiniteSetTheorems,
        SequenceTheorems, WellFoundedInduction

Removing == {"balance", "lockRow", "cascade", "count"}
Ended    == {"notify", "done"}

FrameType == [caller : Users \cup {None}, user : Users \cup {None},
              target : Ids \cup {None}, expense : Calls \cup {None},
              bill : Bills \cup {NoBill}, known : SUBSET Ids]

Recorded(e) == e = [total |-> e.total, paid |-> e.paid, ratio |-> e.ratio]

(* TypeOK without the numbers: those of the statistics and of the details. *)
Typed ==
  /\ account \in [Ids -> Users \cup {None, Gone}]
  /\ DOMAIN expenses = Calls
  /\ \A x \in Expenses : Recorded(expenses[x])
  /\ pc \in [Calls -> Steps]
  /\ frame \in [Calls -> FrameType]
  /\ answer \in [Calls -> {"none", "ok", "refused", "error"}]

UniqueRows ==
  \A p, q \in Rows : account[p] = account[q] /\ account[p] # None => p = q

(* The row that bears the name of a call is inserted by that call. *)
RowsFresh(c) ==
  /\ pc[c] # "done" => answer[c] = "none"
  /\ pc[c] \notin Ended \/ answer[c] = "refused" =>
       account[c] = Gone /\ expenses[c] = None

PathsOK(c) ==
  /\ pc[c] \in Removing => endpoint[c] \in {"leave", "kick"}
  /\ pc[c] = "insertRow" => endpoint[c] \in {"join", "addGuest"}
  /\ pc[c] = "insertExpense" => endpoint[c] = "spend"
  /\ pc[c] \in {"updateExpense", "deleteDetails"} => endpoint[c] = "revise"
  /\ pc[c] \in {"insertDetails", "commit"} => endpoint[c] \in {"spend", "revise"}
  /\ pc[c] = "eraseExpense" => endpoint[c] = "erase"
  /\ pc[c] = "notify" => endpoint[c] \notin {"leave", "kick"}
  /\ pc[c] = "eraseExpense" => frame[c].expense \in Calls

(* The row p was inserted, be it still there or not. *)
Inserted(p) == p \in Ids /\ (p \in Calls => pc[p] \in Ended)

TargetsOK(c) ==
  /\ pc[c] \in Removing =>
       /\ Inserted(frame[c].target)
       /\ \/ account[frame[c].target] = Gone
          \/ frame[c].caller = account[frame[c].target]
          \/ frame[c].caller = Creator /\ account[frame[c].target] # Creator
  /\ answer[c] = "ok" /\ endpoint[c] \in {"leave", "kick"} =>
       Inserted(frame[c].target) /\ account[frame[c].target] = Gone

(* The expense x was inserted, be it still there or not. *)
Created(x) == x \in Calls /\ pc[x] \in Ended /\ answer[x] # "refused"

(* An update is about an expense that was there once. *)
ExpenseKnown(c) ==
  (pc[c] \in {"updateExpense", "deleteDetails", "insertDetails", "commit"}
   /\ endpoint[c] = "revise") => Created(frame[c].expense)

(* A transaction about to commit shares the rows it names. *)
NamesHeld(c) ==
  pc[c] = "commit" =>
    \A p \in Named(frame[c].bill) :
      p \in Rows /\ \A d \in Calls : ~Deletes(d, p)

CallOK(c) ==
  RowsFresh(c) /\ PathsOK(c) /\ TargetsOK(c) /\ ExpenseKnown(c) /\ NamesHeld(c)

IInv ==
  /\ Typed
  /\ UniqueRows
  /\ DetailsNameMembers
  /\ \A c \in Calls : CallOK(c)

LEMMA InitInvariant == Init => IInv
<1> SUFFICES ASSUME Init PROVE IInv
  OBVIOUS
<1>1. Typed
  BY ELAssumption DEF Init, Typed, Expenses, Steps, FrameType, NoFrame, Ids
<1>2. UniqueRows
  BY ELAssumption DEF Init, UniqueRows, Rows, Ids
<1>3. DetailsNameMembers
  BY DEF Init, DetailsNameMembers, Expenses
<1>4. ASSUME NEW c \in Calls PROVE CallOK(c)
  BY ELAssumption DEF Init, CallOK, RowsFresh, PathsOK, TargetsOK, ExpenseKnown,
     NamesHeld, Removing, Ended, Ids
<1> QED
  BY <1>1, <1>2, <1>3, <1>4 DEF IInv

(* What the tables say survives a step that leaves them alone. *)
LEMMA TablesUntouched ==
  ASSUME UNCHANGED <<account, expenses>>
  PROVE  /\ UniqueRows => UniqueRows'
         /\ DetailsNameMembers => DetailsNameMembers'
         /\ Rows' = Rows /\ Expenses' = Expenses
BY DEF UniqueRows, DetailsNameMembers, Rows, Expenses, Mentions

(* A step that writes to no table, but may take locks. *)
LEMMA QuietStep ==
  ASSUME IInv, NEW c \in Calls, NEW step \in Steps, NEW f \in FrameType,
         NEW a \in {"none", "ok", "refused", "error"},
         UNCHANGED <<endpoint, account, expenses>>,
         pc' = [pc EXCEPT ![c] = step],
         frame' = [frame EXCEPT ![c] = f],
         answer' = [answer EXCEPT ![c] = a],
         pc[c] \in Ended => step \in Ended /\ a # "refused",
         step = "cascade" =>
           /\ pc[c] = "lockRow" /\ f = frame[c]
           /\ \A d \in Calls : ~Shares(d, f.target),
         step = "count" => pc[c] = "cascade" /\ f = frame[c],
         CallOK(c)'
  PROVE  IInv'
<1>1. ASSUME NEW d \in Calls \ {c}
      PROVE  pc'[d] = pc[d] /\ frame'[d] = frame[d] /\ answer'[d] = answer[d]
  BY DEF IInv, Typed
<1>2. pc'[c] = step /\ frame'[c] = f
  BY DEF IInv, Typed
<1>3. Typed'
  <2>1. \A x \in Expenses' : Recorded(expenses'[x])
    BY TablesUntouched DEF IInv, Typed
  <2>2. /\ pc' \in [Calls -> Steps]
        /\ frame' \in [Calls -> FrameType]
        /\ answer' \in [Calls -> {"none", "ok", "refused", "error"}]
    BY DEF IInv, Typed
  <2>3. /\ account' \in [Ids -> Users \cup {None, Gone}]
        /\ DOMAIN expenses' = Calls
    BY DEF IInv, Typed
  <2> QED
    BY <2>1, <2>2, <2>3, Zenon DEF Typed
<1>4. \A p \in Ids : Inserted(p) => Inserted(p)'
  BY <1>1, <1>2 DEF Inserted, Ended
<1>4a. \A x : Created(x) => Created(x)'
  BY <1>1, <1>2 DEF Created, IInv, Typed
<1>5. ASSUME NEW d \in Calls \ {c} PROVE CallOK(d)'
  <2>0. CallOK(d)
    BY DEF IInv
  <2>1. RowsFresh(d)'
    BY <1>1, <2>0 DEF CallOK, RowsFresh
  <2>2. PathsOK(d)'
    BY <1>1, <2>0 DEF CallOK, PathsOK
  <2>3. TargetsOK(d)'
    BY <1>1, <1>4, <2>0 DEF CallOK, TargetsOK, Inserted
  <2>4. ExpenseKnown(d)'
    BY <1>1, <1>4a, <2>0 DEF CallOK, ExpenseKnown
  <2>5. NamesHeld(d)'
    <3>1. SUFFICES ASSUME pc[d] = "commit", NEW p \in Named(frame[d].bill)
                   PROVE  p \in Rows' /\ \A e \in Calls : ~Deletes(e, p)'
      BY <1>1 DEF NamesHeld
    <3>2. p \in Rows /\ \A e \in Calls : ~Deletes(e, p)
      BY <2>0, <3>1 DEF CallOK, NamesHeld
    <3>3. ~Deletes(c, p)'
      BY <1>2, <3>1, <3>2 DEF Deletes, Shares
    <3> QED
      BY <1>1, <3>2, <3>3, TablesUntouched DEF Deletes
  <2> QED
    BY <2>1, <2>2, <2>3, <2>4, <2>5 DEF CallOK
<1> QED
  BY <1>3, <1>5, TablesUntouched DEF IInv

-----------------------------------------------------------------------------
(* Steps that write to no table *)

(* An early return or a rollback. *)
LEMMA ReturnKeeps ==
  ASSUME IInv, NEW c \in Calls, NEW a \in {"ok", "refused", "error"},
         Return(c, a), UNCHANGED endpoint,
         pc[c] # "done",
         a = "refused" => pc[c] # "notify",
         a = "ok" /\ endpoint[c] \in {"leave", "kick"} =>
           Inserted(frame[c].target) /\ account[frame[c].target] = Gone
  PROVE  IInv'
<1>1. /\ pc' = [pc EXCEPT ![c] = "done"] /\ pc'[c] = "done"
      /\ answer' = [answer EXCEPT ![c] = a] /\ answer'[c] = a
      /\ frame' = [frame EXCEPT ![c] = frame[c]] /\ frame'[c] = frame[c]
      /\ frame[c] \in FrameType
      /\ UNCHANGED <<account, expenses>>
  BY DEF Return, Reply, Goto, tables, IInv, Typed
<1>2. \A p : Inserted(p) => Inserted(p)'
  BY <1>1 DEF Inserted, Ended, IInv, Typed
<1>3. RowsFresh(c)'
  BY <1>1 DEF IInv, CallOK, RowsFresh, Ended
<1>4. PathsOK(c)' /\ TargetsOK(c)' /\ ExpenseKnown(c)' /\ NamesHeld(c)'
  BY <1>1, <1>2 DEF PathsOK, TargetsOK, ExpenseKnown, NamesHeld, Removing
<1> QED
  BY <1>1, <1>3, <1>4, QuietStep DEF CallOK, Steps, Ended

(* A lookup that succeeds. *)
LEMMA EnterKeeps ==
  ASSUME IInv, NEW c \in Calls, NEW f \in FrameType,
         NEW step \in {"insertRow", "balance", "lockRow", "insertExpense",
                       "updateExpense", "eraseExpense"},
         pc[c] = "idle", Enter(c, f, step), UNCHANGED endpoint,
         step = "insertRow" => endpoint[c] \in {"join", "addGuest"},
         step = "insertExpense" => endpoint[c] = "spend",
         step = "updateExpense" =>
           /\ endpoint[c] = "revise"
           /\ f.expense \in Calls /\ expenses[f.expense] # None,
         step = "eraseExpense" => endpoint[c] = "erase" /\ f.expense \in Calls,
         step \in {"balance", "lockRow"} =>
           /\ endpoint[c] \in {"leave", "kick"}
           /\ f.target \in Rows
           /\ \/ f.caller = account[f.target]
              \/ f.caller = Creator /\ account[f.target] # Creator
  PROVE  IInv'
<1>1. /\ pc' = [pc EXCEPT ![c] = step] /\ pc'[c] = step
      /\ answer' = [answer EXCEPT ![c] = "none"] /\ answer'[c] = "none"
      /\ frame' = [frame EXCEPT ![c] = f] /\ frame'[c] = f
      /\ UNCHANGED <<account, expenses>>
  BY DEF Enter, Goto, tables, IInv, Typed, CallOK, RowsFresh
<1>2. RowsFresh(c)'
  BY <1>1 DEF IInv, CallOK, RowsFresh, Ended
<1>3. PathsOK(c)'
  BY <1>1 DEF PathsOK, Removing
<1>4. TargetsOK(c)'
  <2>1. CASE step \in {"balance", "lockRow"}
    <3>1. f.target \in Ids /\ account[f.target] # Gone
      BY <2>1 DEF Rows
    <3>2. f.target \in Calls => pc[f.target] \in Ended /\ f.target # c
      BY <3>1 DEF IInv, CallOK, RowsFresh, Ended
    <3>3. Inserted(f.target)'
      BY <1>1, <3>1, <3>2 DEF Inserted, IInv, Typed
    <3> QED
      BY <1>1, <2>1, <3>3 DEF TargetsOK
  <2>2. CASE step \notin {"balance", "lockRow"}
    BY <1>1, <2>2 DEF TargetsOK, Removing
  <2> QED
    BY <2>1, <2>2
<1>5. ExpenseKnown(c)'
  <2>1. CASE step = "updateExpense"
    <3>1. /\ f.expense \in Calls /\ pc[f.expense] \in Ended
          /\ answer[f.expense] # "refused" /\ f.expense # c
      BY <2>1 DEF IInv, CallOK, RowsFresh, Ended
    <3>2. Created(f.expense)'
      BY <1>1, <3>1 DEF Created, IInv, Typed
    <3> QED
      BY <1>1, <3>2 DEF ExpenseKnown
  <2>2. CASE step # "updateExpense"
    BY <1>1, <2>2 DEF ExpenseKnown
  <2> QED
    BY <2>1, <2>2
<1>6. NamesHeld(c)'
  BY <1>1 DEF NamesHeld
<1> QED
  BY <1>1, <1>2, <1>3, <1>4, <1>5, <1>6, QuietStep DEF CallOK, Steps, Ended

(* A statement of an open transaction, or a row lock. *)
LEMMA StepKeeps ==
  ASSUME IInv, NEW c \in Calls, NEW step, Step(c, step), UNCHANGED endpoint,
         \/ pc[c] = "balance" /\ step = "lockRow"
         \/ /\ pc[c] = "lockRow" /\ step = "cascade"
            /\ \A d \in Calls : ~Shares(d, frame[c].target)
         \/ pc[c] = "cascade" /\ step = "count"
         \/ pc[c] = "insertExpense" /\ step = "insertDetails"
         \/ pc[c] = "updateExpense" /\ step = "deleteDetails"
         \/ pc[c] = "deleteDetails" /\ step = "insertDetails"
         \/ /\ pc[c] = "insertDetails" /\ step = "commit"
            /\ \A p \in Named(frame[c].bill) :
                 p \in Rows /\ \A d \in Calls : ~Deletes(d, p)
  PROVE  IInv'
<1>1. /\ pc' = [pc EXCEPT ![c] = step] /\ pc'[c] = step
      /\ answer' = [answer EXCEPT ![c] = "none"] /\ answer'[c] = "none"
      /\ frame' = [frame EXCEPT ![c] = frame[c]] /\ frame'[c] = frame[c]
      /\ frame[c] \in FrameType
      /\ UNCHANGED <<account, expenses>>
  BY DEF Step, Goto, tables, IInv, Typed, CallOK, RowsFresh
<1>2. \A p : Inserted(p) => Inserted(p)'
  BY <1>1 DEF Inserted, Ended, IInv, Typed
<1>3. RowsFresh(c)'
  BY <1>1 DEF IInv, CallOK, RowsFresh, Ended
<1>4. PathsOK(c)'
  BY <1>1 DEF IInv, CallOK, PathsOK, Removing
<1>5. TargetsOK(c)'
  BY <1>1, <1>2 DEF IInv, CallOK, TargetsOK, Removing
<1>6. ExpenseKnown(c)'
  <2>1. \A x : Created(x) => Created(x)'
    BY <1>1 DEF Created, Ended, IInv, Typed
  <2> QED
    BY <1>1, <2>1 DEF IInv, CallOK, PathsOK, ExpenseKnown
<1>7. NamesHeld(c)'
  <2>1. SUFFICES ASSUME step = "commit", NEW p \in Named(frame[c].bill)
                 PROVE  p \in Rows' /\ \A d \in Calls : ~Deletes(d, p)'
    BY <1>1 DEF NamesHeld
  <2>2. p \in Rows /\ \A d \in Calls : ~Deletes(d, p)
    BY <2>1
  <2>3. \A d \in Calls \ {c} : pc'[d] = pc[d]
    BY <1>1 DEF IInv, Typed
  <2>4. \A d \in Calls : ~Deletes(d, p)'
    BY <1>1, <2>1, <2>2, <2>3 DEF Deletes
  <2> QED
    BY <1>1, <2>2, <2>4, TablesUntouched
<1> QED
  BY <1>1, <1>3, <1>4, <1>5, <1>6, <1>7, QuietStep DEF CallOK, Steps, Ended

-----------------------------------------------------------------------------
(* Steps that write *)

(* The constraint lets one row of a user in; a row of that name was never  *)
(* there, so no other call has it in hand.                                 *)
LEMMA InsertRowKeeps ==
  ASSUME IInv, NEW c \in Calls, InsertRow(c), UNCHANGED endpoint
  PROVE  IInv'
<1> DEFINE u == frame[c].user
<1>1. CASE Taken(u)
  BY <1>1, ReturnKeeps DEF InsertRow
<1>2. CASE ~Taken(u)
  <2>1. /\ pc[c] = "insertRow" /\ answer[c] = "none" /\ account[c] = Gone
        /\ endpoint[c] \in {"join", "addGuest"} /\ c \in Ids
        /\ u \in Users \cup {None}
    BY DEF InsertRow, IInv, Typed, CallOK, RowsFresh, PathsOK, Ended, Ids, FrameType
  <2>2. /\ account' = [account EXCEPT ![c] = u]
        /\ pc' \in {[pc EXCEPT ![c] = "done"], [pc EXCEPT ![c] = "notify"]}
        /\ \/ answer' = answer /\ pc'[c] = "notify"
           \/ answer' = [answer EXCEPT ![c] = "ok"] /\ pc'[c] = "done"
        /\ UNCHANGED <<expenses, frame>>
    BY <1>2 DEF InsertRow, NewRow, Reply, Goto, IInv, Typed
  <2>3. ASSUME NEW d \in Calls \ {c}
        PROVE  pc'[d] = pc[d] /\ frame'[d] = frame[d] /\ answer'[d] = answer[d]
    BY <2>2 DEF IInv, Typed
  <2>4. \A p \in Ids : p # c => account'[p] = account[p]
    BY <2>2 DEF IInv, Typed
  <2>5. account'[c] = u
    BY <2>1, <2>2 DEF IInv, Typed
  <2> HIDE DEF u
  <2>6. Typed'
    <3>1. /\ account' \in [Ids -> Users \cup {None, Gone}]
          /\ DOMAIN expenses' = Calls
          /\ frame' \in [Calls -> FrameType]
      BY <2>1, <2>2 DEF IInv, Typed
    <3>2. /\ pc' \in [Calls -> Steps]
          /\ answer' \in [Calls -> {"none", "ok", "refused", "error"}]
      BY <2>2 DEF IInv, Typed, Steps
    <3>3. \A x \in Expenses' : Recorded(expenses'[x])
      BY <2>2 DEF IInv, Typed, Expenses
    <3> QED
      BY <3>1, <3>2, <3>3 DEF Typed
  <2>7. Rows \subseteq Rows' /\ Rows' \subseteq Rows \cup {c}
    BY <2>1, <2>4 DEF Rows
  <2>8. UniqueRows'
    <3>1. ASSUME NEW p \in Rows, u # None PROVE account[p] # u
      BY <1>2, <3>1 DEF Taken, IsMember, RowOf, u
    <3>2. \A p \in Rows : p # c
      BY <2>1 DEF Rows
    <3> QED
      BY <2>4, <2>5, <2>7, <3>1, <3>2 DEF IInv, UniqueRows, Rows
  <2>9. DetailsNameMembers'
    BY <2>2, <2>7 DEF IInv, DetailsNameMembers, Expenses, Mentions
  <2>10. ~Inserted(c) /\ \A p : Inserted(p) => Inserted(p)'
    BY <2>1, <2>2 DEF Inserted, Ended, IInv, Typed
  <2>11. \A x : Created(x) => Created(x)'
    BY <2>1, <2>2 DEF Created, Ended, IInv, Typed
  <2>12. \A d \in Calls : \A p : Deletes(d, p)' => Deletes(d, p)
    BY <2>1, <2>2, <2>3 DEF Deletes
  <2>13. CallOK(c)'
    BY <2>1, <2>2 DEF CallOK, RowsFresh, PathsOK, TargetsOK, ExpenseKnown, NamesHeld,
       Removing, Ended, IInv, Typed
  <2>14. ASSUME NEW d \in Calls \ {c} PROVE CallOK(d)'
    <3>0. CallOK(d)
      BY DEF IInv
    <3>1. RowsFresh(d)' /\ PathsOK(d)'
      BY <2>2, <2>3, <2>4, <3>0 DEF CallOK, RowsFresh, PathsOK, Ids
    <3>2. TargetsOK(d)'
      BY <2>3, <2>4, <2>10, <3>0 DEF CallOK, TargetsOK, Inserted
    <3>3. ExpenseKnown(d)'
      BY <2>3, <2>11, <3>0 DEF CallOK, ExpenseKnown
    <3>4. NamesHeld(d)'
      BY <2>3, <2>7, <2>12, <3>0 DEF CallOK, NamesHeld
    <3> QED
      BY <3>1, <3>2, <3>3, <3>4 DEF CallOK
  <2> QED
    BY <2>6, <2>8, <2>9, <2>13, <2>14 DEF IInv
<1> QED
  BY <1>1, <1>2

(* The foreign keys take the participant off every expense; no transaction *)
(* that shares his row is about to name him.                               *)
LEMMA RemoveRowKeeps ==
  ASSUME IInv, NEW c \in Calls, RemoveRow(c), UNCHANGED endpoint
  PROVE  IInv'
<1> DEFINE p == frame[c].target
<1>1. /\ pc[c] = "count" /\ endpoint[c] \in {"leave", "kick"} /\ answer[c] = "none"
      /\ Inserted(p) /\ p \in Ids
  BY DEF RemoveRow, IInv, CallOK, PathsOK, RowsFresh, TargetsOK, Removing, Inserted
<1>2. /\ account' = [account EXCEPT ![p] = Gone]
      /\ expenses' = [x \in Calls |->
           IF expenses[x] = None THEN None
           ELSE [expenses[x] EXCEPT !.paid = Without(@, p),
                                    !.ratio = Without(@, p)]]
      /\ pc' = [pc EXCEPT ![c] = "done"] /\ pc'[c] = "done"
      /\ answer' = [answer EXCEPT ![c] = "ok"] /\ answer'[c] = "ok"
      /\ UNCHANGED frame
  BY DEF RemoveRow, Reply, Goto, IInv, Typed
<1>3. Deletes(c, p)
  BY <1>1 DEF Deletes
<1>4. frame'[c].target = p
  BY <1>2
<1> HIDE DEF p
<1>5. ASSUME NEW d \in Calls \ {c}
      PROVE  pc'[d] = pc[d] /\ frame'[d] = frame[d] /\ answer'[d] = answer[d]
  BY <1>2 DEF IInv, Typed
<1>6. account'[p] = Gone /\ \A q \in Ids : q # p => account'[q] = account[q]
  BY <1>1, <1>2 DEF IInv, Typed
<1>7. Rows' = Rows \ {p}
  BY <1>6 DEF Rows
<1>8. Expenses' \subseteq Expenses
  BY <1>2 DEF Expenses
<1>9. ASSUME NEW x \in Expenses'
      PROVE  /\ Recorded(expenses'[x])
             /\ DOMAIN expenses'[x].paid = DOMAIN expenses[x].paid \ {p}
             /\ DOMAIN expenses'[x].ratio = DOMAIN expenses[x].ratio \ {p}
  <2>1. x \in Calls /\ expenses[x] # None /\ Recorded(expenses[x])
    BY <1>8 DEF IInv, Typed, Expenses
  <2>2. expenses'[x] = [expenses[x] EXCEPT !.paid = Without(@, p),
                                           !.ratio = Without(@, p)]
    BY <1>2, <2>1
  <2>3. expenses'[x] = [total |-> expenses[x].total,
                        paid  |-> Without(expenses[x].paid, p),
                        ratio |-> Without(expenses[x].ratio, p)]
    BY <2>1, <2>2 DEF Recorded
  <2> QED
    BY <2>3 DEF Recorded, Without, Restrict
<1>10. Typed'
  BY <1>1, <1>2, <1>9 DEF IInv, Typed, Steps
<1>11. UniqueRows'
  BY <1>6, <1>7 DEF IInv, UniqueRows, Rows
<1>12. DetailsNameMembers'
  BY <1>7, <1>8, <1>9 DEF IInv, DetailsNameMembers, Mentions
<1>13. \A q : Inserted(q) => Inserted(q)'
  BY <1>2 DEF Inserted, Ended, IInv, Typed
<1>14. \A x : Created(x) => Created(x)'
  BY <1>2 DEF Created, Ended, IInv, Typed
<1>15. CallOK(c)'
  BY <1>1, <1>2, <1>4, <1>6, <1>13
  DEF CallOK, RowsFresh, PathsOK, TargetsOK, ExpenseKnown, NamesHeld, Removing, Ended
<1>16. ASSUME NEW d \in Calls \ {c} PROVE CallOK(d)'
  <2>0. CallOK(d)
    BY DEF IInv
  <2>1. RowsFresh(d)' /\ PathsOK(d)'
    BY <1>2, <1>5, <1>6, <2>0 DEF CallOK, RowsFresh, PathsOK, Ids
  <2>2. TargetsOK(d)'
    BY <1>5, <1>6, <1>13, <2>0 DEF CallOK, TargetsOK, Inserted
  <2>3. ExpenseKnown(d)'
    BY <1>5, <1>14, <2>0 DEF CallOK, ExpenseKnown
  <2>4. NamesHeld(d)'
    <3>1. SUFFICES ASSUME pc[d] = "commit", NEW q \in Named(frame[d].bill)
                   PROVE  q \in Rows' /\ \A e \in Calls : ~Deletes(e, q)'
      BY <1>5 DEF NamesHeld
    <3>2. q \in Rows /\ \A e \in Calls : ~Deletes(e, q)
      BY <2>0, <3>1 DEF CallOK, NamesHeld
    <3> QED
      BY <1>2, <1>3, <1>5, <1>7, <3>2 DEF Deletes
  <2> QED
    BY <2>1, <2>2, <2>3, <2>4 DEF CallOK
<1> QED
  BY <1>10, <1>11, <1>12, <1>15, <1>16 DEF IInv

(* The end of a transaction that writes expense x. *)
LEMMA ExpenseWritten ==
  ASSUME IInv, NEW c \in Calls, NEW x \in Calls, NEW e,
         e # None => Recorded(e) /\ DOMAIN e.paid \cup DOMAIN e.ratio \subseteq Rows,
         pc[c] # "done", endpoint[c] \notin {"leave", "kick"},
         x = c \/ e = None \/ Created(x),
         expenses' = [expenses EXCEPT ![x] = e],
         \/ Goto(c, "notify") /\ UNCHANGED answer
         \/ Reply(c, "ok"),
         UNCHANGED <<endpoint, account, frame>>
  PROVE  IInv'
<1>1. /\ pc' \in {[pc EXCEPT ![c] = "done"], [pc EXCEPT ![c] = "notify"]}
      /\ answer[c] = "none"
      /\ \/ answer' = answer /\ pc'[c] = "notify"
         \/ answer' = [answer EXCEPT ![c] = "ok"] /\ pc'[c] = "done"
  BY DEF Reply, Goto, IInv, Typed, CallOK, RowsFresh
<1>2. ASSUME NEW d \in Calls \ {c}
      PROVE  pc'[d] = pc[d] /\ frame'[d] = frame[d] /\ answer'[d] = answer[d]
  BY <1>1 DEF IInv, Typed
<1>3. expenses'[x] = e /\ \A y \in Calls \ {x} : expenses'[y] = expenses[y]
  BY DEF IInv, Typed
<1>4. Rows' = Rows
  BY DEF Rows
<1>5. Typed'
  <2>1. /\ pc' \in [Calls -> Steps]
        /\ answer' \in [Calls -> {"none", "ok", "refused", "error"}]
    BY <1>1 DEF IInv, Typed, Steps
  <2>2. \A y \in Expenses' : Recorded(expenses'[y])
    BY <1>3 DEF IInv, Typed, Expenses
  <2>3. DOMAIN expenses' = Calls
    BY DEF IInv, Typed
  <2> QED
    BY <2>1, <2>2, <2>3 DEF IInv, Typed
<1>6. UniqueRows'
  BY <1>4 DEF IInv, UniqueRows
<1>7. DetailsNameMembers'
  BY <1>3, <1>4 DEF IInv, DetailsNameMembers, Expenses, Mentions
<1>8. \A q : Inserted(q) => Inserted(q)'
  BY <1>1 DEF Inserted, Ended, IInv, Typed
<1>9. \A y : Created(y) => Created(y)'
  BY <1>1 DEF Created, Ended, IInv, Typed
<1>10. CallOK(c)'
  BY <1>1, <1>8 DEF CallOK, RowsFresh, PathsOK, TargetsOK, ExpenseKnown, NamesHeld,
     Removing, Ended, IInv, Typed
<1>11. ASSUME NEW d \in Calls \ {c} PROVE CallOK(d)'
  <2>0. CallOK(d)
    BY DEF IInv
  <2>1. RowsFresh(d)' /\ PathsOK(d)'
    BY <1>2, <1>3, <2>0 DEF CallOK, RowsFresh, PathsOK, Created
  <2>2. TargetsOK(d)'
    BY <1>2, <1>8, <2>0 DEF CallOK, TargetsOK
  <2>3. ExpenseKnown(d)'
    BY <1>2, <1>9, <2>0 DEF CallOK, ExpenseKnown
  <2>4. NamesHeld(d)'
    <3>1. SUFFICES ASSUME pc[d] = "commit", NEW q \in Named(frame[d].bill)
                   PROVE  q \in Rows' /\ \A f \in Calls : ~Deletes(f, q)'
      BY <1>2 DEF NamesHeld
    <3>2. q \in Rows /\ \A f \in Calls : ~Deletes(f, q)
      BY <2>0, <3>1 DEF CallOK, NamesHeld
    <3> QED
      BY <1>1, <1>2, <1>4, <3>2 DEF Deletes
  <2> QED
    BY <2>1, <2>2, <2>3, <2>4 DEF CallOK
<1> QED
  BY <1>5, <1>6, <1>7, <1>10, <1>11 DEF IInv

(* The rows of a bill name whom the bill names. *)
LEMMA RowsOfBill ==
  ASSUME NEW b
  PROVE  /\ Recorded(RowsOf(b))
         /\ DOMAIN RowsOf(b).paid \cup DOMAIN RowsOf(b).ratio = Named(b)
BY DEF RowsOf, Recorded, Together, Named

LEMMA CommitKeeps ==
  ASSUME IInv, NEW c \in Calls, CommitSpend(c) \/ CommitRevise(c), UNCHANGED endpoint
  PROVE  IInv'
<1>1. Named(frame[c].bill) \subseteq Rows
  BY DEF IInv, CallOK, NamesHeld, CommitSpend, CommitRevise
<1>2. CASE CommitSpend(c)
  BY <1>1, <1>2, RowsOfBill, ExpenseWritten DEF CommitSpend
<1>3. CASE CommitRevise(c)
  <2>1. Created(frame[c].expense) /\ frame[c].expense \in Calls
    BY <1>3 DEF CommitRevise, IInv, CallOK, ExpenseKnown, Created
  <2> QED
    BY <1>1, <1>3, <2>1, RowsOfBill, ExpenseWritten DEF CommitRevise
<1> QED
  BY <1>2, <1>3

LEMMA EraseKeeps ==
  ASSUME IInv, NEW c \in Calls, EraseExpense(c), UNCHANGED endpoint
  PROVE  IInv'
<1>1. frame[c].expense \in Calls /\ endpoint[c] = "erase"
  BY DEF EraseExpense, IInv, CallOK, PathsOK
<1> QED
  BY <1>1, ReturnKeeps, ExpenseWritten DEF EraseExpense

-----------------------------------------------------------------------------
(* All steps *)

LEMMA RequestKeeps ==
  ASSUME IInv, NEW c \in Calls, Request(c), UNCHANGED endpoint
  PROVE  IInv'
<1>0. NoFrame \in FrameType /\ Rows \subseteq Ids
  BY DEF NoFrame, FrameType, Rows
<1>1. ASSUME NEW u \in Users, JoinLookup(c, u) PROVE IInv'
  <2>1. [NoFrame EXCEPT !.user = u] \in FrameType
    BY <1>0 DEF FrameType
  <2> QED
    BY <1>1, <2>1, EnterKeeps, ReturnKeeps DEF JoinLookup, Arrives
<1>2. ASSUME NEW u \in Users, AddGuestLookup(c, u) PROVE IInv'
  BY <1>0, <1>2, EnterKeeps, ReturnKeeps DEF AddGuestLookup, Arrives
<1>3. ASSUME NEW u \in Users, LeaveLookup(c, u) PROVE IInv'
  <2>1. CASE Return(c, "refused")
    BY <1>3, <2>1, ReturnKeeps DEF LeaveLookup, Arrives
  <2>2. ASSUME NEW p \in RowOf(u),
               Enter(c, [NoFrame EXCEPT !.caller = u, !.user = u, !.target = p],
                     "balance")
        PROVE  IInv'
    <3> DEFINE f == [NoFrame EXCEPT !.caller = u, !.user = u, !.target = p]
    <3>1. p \in Rows /\ account[p] = u
      BY DEF RowOf
    <3>2. f \in FrameType /\ f.caller = u /\ f.target = p
      BY <1>0, <3>1 DEF FrameType, NoFrame
    <3> HIDE DEF f
    <3>3. Enter(c, f, "balance")
      BY <2>2 DEF f
    <3> QED
      BY <1>3, <3>1, <3>2, <3>3, EnterKeeps DEF LeaveLookup, Arrives
  <2> QED
    BY <1>3, <2>1, <2>2 DEF LeaveLookup
<1>4. ASSUME NEW u \in Users, NEW p \in Ids, KickLookup(c, u, p) PROVE IInv'
  <2> DEFINE f == [NoFrame EXCEPT !.caller = u, !.user = account[p], !.target = p]
             step == IF account[p] = None THEN "lockRow" ELSE "balance"
  <2>1. CASE Return(c, "refused")
    BY <1>4, <2>1, ReturnKeeps DEF KickLookup, Arrives
  <2>2. CASE MayKick(u, p) /\ Enter(c, f, step)
    <3>1. p \in Rows /\ u = Creator /\ account[p] # u
      BY <2>2 DEF MayKick
    <3>2. account[p] \in Users \cup {None}
      BY <3>1 DEF Rows, IInv, Typed
    <3>3. f \in FrameType /\ f.caller = Creator /\ f.target = p
      BY <1>0, <3>1, <3>2 DEF FrameType, NoFrame
    <3>4. step \in {"lockRow", "balance"}
      OBVIOUS
    <3> HIDE DEF f, step
    <3> QED
      BY <1>4, <2>2, <3>1, <3>3, <3>4, EnterKeeps DEF KickLookup, Arrives
  <2> QED
    BY <1>4, <2>1, <2>2 DEF KickLookup
<1>5. ASSUME NEW u \in Users, NEW b \in Bills, SpendLookup(c, u, b) PROVE IInv'
  <2> DEFINE f == [NoFrame EXCEPT !.expense = c, !.bill = b, !.known = Rows]
  <2>1. f \in FrameType
    BY <1>0 DEF FrameType
  <2> HIDE DEF f
  <2>2. Return(c, "refused") \/ Enter(c, f, "insertExpense")
    BY <1>5 DEF SpendLookup, f
  <2> QED
    BY <1>5, <2>1, <2>2, EnterKeeps, ReturnKeeps DEF SpendLookup, Arrives
<1>6. ASSUME NEW u \in Users, NEW x \in Calls, EraseLookup(c, u, x) PROVE IInv'
  <2> DEFINE f == [NoFrame EXCEPT !.expense = x]
  <2>1. f \in FrameType /\ f.expense = x
    BY <1>0 DEF FrameType, NoFrame
  <2> HIDE DEF f
  <2>2. Return(c, "refused") \/ Enter(c, f, "eraseExpense")
    BY <1>6 DEF EraseLookup, f
  <2> QED
    BY <1>6, <2>1, <2>2, EnterKeeps, ReturnKeeps DEF EraseLookup, Arrives
<1>7. ASSUME NEW u \in Users, NEW x \in Calls, NEW b \in Bills,
             ReviseLookup(c, u, x, b)
      PROVE  IInv'
  <2> DEFINE f == [NoFrame EXCEPT !.expense = x, !.bill = b, !.known = Rows]
  <2>1. f \in FrameType /\ f.expense = x
    BY <1>0 DEF FrameType, NoFrame
  <2> HIDE DEF f
  <2>2. Return(c, "refused") \/ (expenses[x] # None /\ Enter(c, f, "updateExpense"))
    BY <1>7 DEF ReviseLookup, f
  <2> QED
    BY <1>7, <2>1, <2>2, EnterKeeps, ReturnKeeps DEF ReviseLookup, Arrives
<1> QED
  BY <1>1, <1>2, <1>3, <1>4, <1>5, <1>6, <1>7 DEF Request

LEMMA RunKeeps ==
  ASSUME IInv, NEW c \in Calls, Run(c), UNCHANGED endpoint
  PROVE  IInv'
<1>1. CASE ReadBalance(c)
  BY <1>1, ReturnKeeps, StepKeeps DEF ReadBalance
<1>2. CASE LockRow(c)
  <2>1. CASE frame[c].target \in Rows
    <3>1. \A d \in Calls : ~Shares(d, frame[c].target)
      BY <1>2 DEF LockRow, Free, WaitsFor, Shares
    <3> QED
      BY <1>2, <2>1, <3>1, StepKeeps DEF LockRow
  <2>2. CASE frame[c].target \notin Rows
    <3>1. Inserted(frame[c].target) /\ account[frame[c].target] = Gone
      BY <1>2, <2>2 DEF LockRow, IInv, CallOK, TargetsOK, Removing, Inserted, Rows
    <3> QED
      BY <1>2, <2>2, <3>1, ReturnKeeps DEF LockRow
  <2> QED
    BY <2>1, <2>2
<1>3. CASE Cascade(c) \/ InsertExpense(c) \/ DeleteDetails(c)
  BY <1>3, StepKeeps DEF Cascade, InsertExpense, DeleteDetails
<1>4. CASE UpdateExpense(c)
  BY <1>4, ReturnKeeps, StepKeeps DEF UpdateExpense
<1>5. CASE InsertDetails(c)
  <2>1. CASE Return(c, "error")
    BY <1>5, <2>1, ReturnKeeps DEF InsertDetails
  <2>2. CASE ~Return(c, "error")
    <3>1. /\ pc[c] = "insertDetails" /\ Step(c, "commit")
          /\ Named(frame[c].bill) \subseteq frame[c].known \cap Rows
      BY <1>5, <2>2 DEF InsertDetails, Resolved
    <3>2. ASSUME NEW p \in Named(frame[c].bill), NEW d \in Calls
          PROVE  p \in Rows /\ ~Deletes(d, p)
      BY <1>5, <3>1 DEF InsertDetails, Free, WaitsFor, Deletes
    <3> QED
      BY <3>1, <3>2, StepKeeps
  <2> QED
    BY <2>1, <2>2
<1>6. CASE Notify(c)
  <2>1. pc[c] = "notify" /\ endpoint[c] \notin {"leave", "kick"}
    BY <1>6 DEF Notify, IInv, CallOK, PathsOK
  <2> QED
    BY <1>6, <2>1, ReturnKeeps DEF Notify
<1> QED
  BY <1>1, <1>2, <1>3, <1>4, <1>5, <1>6, InsertRowKeeps, RemoveRowKeeps,
     CommitKeeps, EraseKeeps DEF Run

LEMMA NextKeeps == IInv /\ [Next]_vars => IInv'
<1>1. ASSUME IInv, NEW c \in Calls, Abort(c) \/ DeadlockAbort(c), UNCHANGED endpoint
      PROVE  IInv'
  <2>1. pc[c] # "done" /\ Return(c, "error")
    BY <1>1 DEF Abort, DeadlockAbort, Deadlocked, Free, WaitsFor
  <2> QED
    BY <1>1, <2>1, ReturnKeeps
<1>2. ASSUME IInv, UNCHANGED vars PROVE IInv'
  <2>1. Rows' = Rows /\ Expenses' = Expenses
    BY <1>2 DEF vars, Rows, Expenses
  <2>2. Typed' /\ UniqueRows' /\ DetailsNameMembers'
    BY <1>2, <2>1 DEF vars, IInv, Typed, UniqueRows, DetailsNameMembers, Mentions
  <2>3. ASSUME NEW c \in Calls PROVE CallOK(c)'
    <3>1. CallOK(c)
      BY <1>2 DEF IInv
    <3>2. RowsFresh(c)' /\ PathsOK(c)' /\ TargetsOK(c)' /\ ExpenseKnown(c)'
      BY <1>2, <3>1 DEF vars, CallOK, RowsFresh, PathsOK, TargetsOK, ExpenseKnown,
         Inserted, Created
    <3>3. NamesHeld(c)'
      BY <1>2, <2>1, <3>1 DEF vars, CallOK, NamesHeld, Deletes
    <3> QED
      BY <3>2, <3>3 DEF CallOK
  <2> QED
    BY <2>2, <2>3 DEF IInv
<1> QED
  BY <1>1, <1>2, RequestKeeps, RunKeeps DEF Next

LEMMA Invariant == Spec => []IInv
BY InitInvariant, NextKeeps, PTL DEF Spec

(* However many calls of a user join at once, he has one row. *)
THEOREM JoinedOnce == Spec => []OneRowPerUser
<1>1. ASSUME IInv PROVE OneRowPerUser
  <2>1. SUFFICES ASSUME NEW u \in Users PROVE Cardinality(RowOf(u)) <= 1
    BY DEF OneRowPerUser
  <2>2. CASE RowOf(u) = {}
    BY <2>2, FS_EmptySet
  <2>3. CASE RowOf(u) # {}
    <3>1. PICK p \in RowOf(u) : TRUE
      BY <2>3
    <3>2. RowOf(u) = {p}
      BY <1>1, <3>1, ELAssumption DEF IInv, UniqueRows, RowOf
    <3> QED
      BY <3>2, FS_Singleton
  <2> QED
    BY <2>2, <2>3
<1> QED
  BY <1>1, Invariant, PTL

(* No detail of an expense outlives the participant it names. *)
THEOREM DetailsHaveMembers == Spec => []DetailsNameMembers
<1>1. IInv => DetailsNameMembers
  BY DEF IInv
<1> QED
  BY <1>1, Invariant, PTL

(* A confirmed removal removed, and a refusal changed nothing. *)
THEOREM RemovalsHold == Spec => []RemovalsStand
<1>1. IInv => RemovalsStand
  BY DEF IInv, RemovalsStand, CallOK, TargetsOK, RowsFresh, Rows
<1> QED
  BY <1>1, Invariant, PTL

(* Rows go away by their own account or by the creator, never his own. *)
THEOREM RemovalsByRight == Spec => RemovalsAuthorised
<1> DEFINE Right ==
      \A p \in Rows : account'[p] = Gone =>
        \E c \in Calls :
          /\ frame[c].target = p
          /\ \/ frame[c].caller = account[p]
             \/ frame[c].caller = Creator /\ account[p] # Creator
<1>1. ASSUME IInv, NEW c \in Calls, RemoveRow(c) PROVE Right
  <2>1. SUFFICES ASSUME NEW p \in Rows, account'[p] = Gone
                 PROVE  /\ frame[c].target = p
                        /\ \/ frame[c].caller = account[p]
                           \/ frame[c].caller = Creator /\ account[p] # Creator
    OBVIOUS
  <2>2. frame[c].target = p
    BY <1>1, <2>1 DEF RemoveRow, IInv, Typed, Rows
  <2> QED
    BY <1>1, <2>1, <2>2 DEF RemoveRow, IInv, CallOK, TargetsOK, Removing, Rows
<1>2. ASSUME IInv, NEW c \in Calls, InsertRow(c) PROVE Right
  <2>1. account[c] = Gone
    BY <1>2 DEF InsertRow, IInv, CallOK, RowsFresh, Ended
  <2>2. \A p \in Rows : account'[p] = account[p]
    BY <1>2, <2>1 DEF InsertRow, NewRow, Return, tables, IInv, Typed, Rows
  <2> QED
    BY <2>2 DEF Rows
<1>3. ASSUME NEW c \in Calls,
             Request(c) \/ Run(c) \/ Abort(c) \/ DeadlockAbort(c),
             ~RemoveRow(c), ~InsertRow(c)
      PROVE  UNCHANGED account
  BY <1>3
  DEF Request, JoinLookup, AddGuestLookup, LeaveLookup, KickLookup, SpendLookup,
      EraseLookup, ReviseLookup, Run, ReadBalance, LockRow, Cascade, InsertExpense,
      InsertDetails, CommitSpend, UpdateExpense, DeleteDetails, CommitRevise,
      EraseExpense, Notify, Abort, DeadlockAbort, Return, Enter, Step, tables
<1>4. UNCHANGED account => Right
  BY DEF Rows
<1>5. IInv /\ [Next]_vars => [Right]_vars
  BY <1>1, <1>2, <1>3, <1>4 DEF Next
<1>6. Spec => [][Right]_vars
  BY <1>5, Invariant, PTL DEF Spec
<1> QED
  BY <1>6 DEF RemovalsAuthorised

-----------------------------------------------------------------------------
(* Sums over finite sets *)
(*                                                                         *)
(* The library sums by a recursive function on the subsets of a set, which *)
(* takes out elements it chooses.  That this function exists, and that any *)
(* element may be taken out first, follows for a finite set by looking at  *)
(* a smallest subset for which it would not.                               *)

Some(s) == CHOOSE x \in s : TRUE

SumOf(f, S) == MapThenSumSet(LAMBDA x : f[x], S)

(* g is the function by which the library folds f over the subsets of S. *)
Folds(g, f, S) ==
  g = [s \in SUBSET S |-> IF s = {} THEN 0 ELSE f[Some(s)] + g[s \ {Some(s)}]]

(* A nonempty set of subsets of a finite set has a smallest one. *)
LEMMA SmallestSet ==
  ASSUME NEW S, IsFiniteSet(S), NEW D, D \subseteq SUBSET S, D # {}
  PROVE  \E s \in D : \A t \in D : t \subseteq s => t = s
<1>1. IsWellFoundedOn(StrictSubsetOrdering(S), SUBSET S)
  BY FS_StrictSubsetOrderingWellFounded, FS_FiniteSubsetsOfFinite
<1>2. PICK s \in D : \A t \in D : ~ (<<t, s>> \in StrictSubsetOrdering(S))
  <2> HIDE DEF StrictSubsetOrdering, IsWellFoundedOn
  <2> QED
    BY <1>1, WFMin
<1> QED
  BY <1>2 DEF StrictSubsetOrdering

(* The definition of the library, and its equation. *)
LEMMA FoldedSet ==
  ASSUME NEW S, NEW f PROVE SumOf(f, S) = (CHOOSE g : Folds(g, f, S))[S]
BY DEF SumOf, MapThenSumSet, MapThenFoldSet, Folds, Some

LEMMA SomeIn == ASSUME NEW s, s # {} PROVE Some(s) \in s
BY DEF Some

LEMMA FoldsAt ==
  ASSUME NEW S, NEW f, NEW g, Folds(g, f, S), NEW s \in SUBSET S
  PROVE  g[s] = IF s = {} THEN 0 ELSE f[Some(s)] + g[s \ {Some(s)}]
BY DEF Folds

(* Folds of one function over two sets agree where both are defined. *)
LEMMA FoldsAgree ==
  ASSUME NEW S, IsFiniteSet(S), NEW f, NEW g, NEW h, NEW T,
         Folds(g, f, S), Folds(h, f, T), S \subseteq T
  PROVE  g[S] = h[S]
<1> DEFINE D == {s \in SUBSET S : g[s] # h[s]}
<1>1. SUFFICES ASSUME D # {} PROVE FALSE
  OBVIOUS
<1>2. PICK s \in D : \A t \in D : t \subseteq s => t = s
  <2> D \subseteq SUBSET S
    OBVIOUS
  <2> HIDE DEF D
  <2> QED
    BY <1>1, SmallestSet
<1>3. s \in SUBSET S /\ s \in SUBSET T /\ g[s] # h[s]
  OBVIOUS
<1>4. s # {}
  BY <1>3, FoldsAt
<1>5. g[s \ {Some(s)}] = h[s \ {Some(s)}]
  BY <1>2, <1>3, <1>4, SomeIn
<1> QED
  BY <1>3, <1>4, <1>5, FoldsAt

(* A smallest set without a fold would have one: put together the sums of  *)
(* its subsets.                                                            *)
LEMMA FoldsExist ==
  ASSUME NEW S, IsFiniteSet(S), NEW f PROVE \E g : Folds(g, f, S)
<1> DEFINE D == {s \in SUBSET S : ~ \E g : Folds(g, f, s)}
<1>1. SUFFICES ASSUME D # {} PROVE FALSE
  OBVIOUS
<1>2. PICK s \in D : \A t \in D : t \subseteq s => t = s
  <2> D \subseteq SUBSET S
    OBVIOUS
  <2> HIDE DEF D
  <2> QED
    BY <1>1, SmallestSet
<1> DEFINE h == [t \in SUBSET s |->
                   IF t = {} THEN 0 ELSE f[Some(t)] + SumOf(f, t \ {Some(t)})]
<1>3. ASSUME NEW t \in SUBSET s, t # {} PROVE h[t \ {Some(t)}] = SumOf(f, t \ {Some(t)})
  <2> DEFINE u == t \ {Some(t)}
  <2>1. u \in SUBSET s /\ u # s /\ IsFiniteSet(u)
    BY <1>3, SomeIn, FS_Subset
  <2>2. \E g : Folds(g, f, u)
    BY <1>2, <2>1
  <2> HIDE DEF u, h, D
  <2>3. PICK g : Folds(g, f, u) /\ SumOf(f, u) = g[u]
    BY <2>2, FoldedSet
  <2>4. CASE u = {}
    BY <2>1, <2>3, <2>4, FoldsAt DEF h, u
  <2>5. CASE u # {}
    <3> DEFINE v == u \ {Some(u)}
    <3>1. v \in SUBSET s /\ v # s /\ IsFiniteSet(v) /\ v \subseteq u
      BY <2>1, <2>5, SomeIn, FS_Subset
    <3>2. PICK k : Folds(k, f, v) /\ SumOf(f, v) = k[v]
      <4>1. \E k : Folds(k, f, v)
        BY <1>2, <3>1 DEF D
      <4> HIDE DEF v
      <4> QED
        BY <4>1, FoldedSet
    <3>3. k[v] = g[v]
      <4> HIDE DEF v
      <4> QED
        BY <2>3, <3>1, <3>2, FoldsAgree
    <3>4. g[u] = f[Some(u)] + g[v]
      BY <2>3, <2>5, FoldsAt
    <3>5. h[u] = f[Some(u)] + SumOf(f, v)
      BY <2>1, <2>5 DEF h
    <3> QED
      BY <2>3, <3>2, <3>3, <3>4, <3>5 DEF u
  <2> QED
    BY <2>4, <2>5 DEF u
<1>4. Folds(h, f, s)
  <2>1. \A t \in SUBSET s :
          h[t] = IF t = {} THEN 0 ELSE f[Some(t)] + h[t \ {Some(t)}]
    BY <1>3
  <2> QED
    BY <2>1 DEF Folds
<1> QED
  BY <1>2, <1>4

(* The equation of the fold: take one element out. *)
LEMMA SumEquation ==
  ASSUME NEW S, IsFiniteSet(S), NEW f
  PROVE  SumOf(f, S) = IF S = {} THEN 0 ELSE f[Some(S)] + SumOf(f, S \ {Some(S)})
<1>1. PICK g : Folds(g, f, S) /\ SumOf(f, S) = g[S]
  BY FoldsExist, FoldedSet
<1>2. CASE S = {}
  BY <1>1, <1>2, FoldsAt
<1>3. CASE S # {}
  <2> DEFINE T == S \ {Some(S)}
  <2>1. IsFiniteSet(T) /\ T \subseteq S
    BY FS_Subset
  <2> HIDE DEF T
  <2>2. PICK h : Folds(h, f, T) /\ SumOf(f, T) = h[T]
    BY <2>1, FoldsExist, FoldedSet
  <2>3. h[T] = g[T]
    BY <1>1, <2>1, <2>2, FoldsAgree
  <2> QED
    BY <1>1, <1>3, <2>2, <2>3, FoldsAt DEF T
<1> QED
  BY <1>2, <1>3

(* A sum of naturals is natural, one of integers an integer. *)
LEMMA SumType ==
  ASSUME NEW S, IsFiniteSet(S), NEW f, NEW N \in {Nat, Int}, \A x \in S : f[x] \in N
  PROVE  SumOf(f, S) \in N
<1> DEFINE D == {s \in SUBSET S : SumOf(f, s) \notin N}
<1>1. SUFFICES ASSUME D # {} PROVE FALSE
  OBVIOUS
<1>2. PICK s \in D : \A t \in D : t \subseteq s => t = s
  <2> D \subseteq SUBSET S
    OBVIOUS
  <2> HIDE DEF D
  <2> QED
    BY <1>1, SmallestSet
<1>3. s \in SUBSET S /\ IsFiniteSet(s)
  BY FS_Subset
<1>4. s # {}
  BY <1>3, SumEquation
<1>5. SumOf(f, s \ {Some(s)}) \in N /\ f[Some(s)] \in N
  BY <1>2, <1>3, <1>4, SomeIn
<1>6. SumOf(f, s) = f[Some(s)] + SumOf(f, s \ {Some(s)})
  BY <1>3, <1>4, SumEquation
<1>7. SumOf(f, s) \in N
  <2> HIDE DEF D
  <2> QED
    BY <1>5, <1>6
<1> QED
  BY <1>7

(* Any element can be taken out of a sum. *)
LEMMA SumWithout ==
  ASSUME NEW S, IsFiniteSet(S), NEW f, \A x \in S : f[x] \in Int, NEW e \in S
  PROVE  SumOf(f, S) = f[e] + SumOf(f, S \ {e})
<1> DEFINE D == {s \in SUBSET S : \E y \in s : SumOf(f, s) # f[y] + SumOf(f, s \ {y})}
<1>1. SUFFICES ASSUME D # {} PROVE FALSE
  OBVIOUS
<1>2. PICK s \in D : \A t \in D : t \subseteq s => t = s
  <2> D \subseteq SUBSET S
    OBVIOUS
  <2> HIDE DEF D
  <2> QED
    BY <1>1, SmallestSet
<1>2a. PICK y \in s : SumOf(f, s) # f[y] + SumOf(f, s \ {y})
  OBVIOUS
<1> DEFINE z == Some(s)
<1>3. /\ s \in SUBSET S /\ y \in s /\ z \in s
      /\ IsFiniteSet(s) /\ IsFiniteSet(s \ {y}) /\ IsFiniteSet(s \ {z})
      /\ IsFiniteSet(s \ {y, z})
  BY SomeIn, FS_Subset
<1>4. SumOf(f, s) = f[z] + SumOf(f, s \ {z})
  BY <1>3, SumEquation
<1>5. y # z
  BY <1>2a, <1>4
<1>6. SumOf(f, s \ {z}) = f[y] + SumOf(f, s \ {y, z})
  <2>1. s \ {z} \notin D
    BY <1>2, <1>3
  <2>2. (s \ {z}) \ {y} = s \ {y, z}
    OBVIOUS
  <2> QED
    BY <1>3, <1>5, <2>1, <2>2
<1>7. SumOf(f, s \ {y}) = f[z] + SumOf(f, s \ {y, z})
  <2>1. s \ {y} \notin D
    BY <1>2, <1>3
  <2>2. (s \ {y}) \ {z} = s \ {y, z}
    OBVIOUS
  <2> QED
    BY <1>3, <1>5, <2>1, <2>2
<1>8. SumOf(f, s \ {y, z}) \in Int /\ f[y] \in Int /\ f[z] \in Int
  BY <1>3, SumType
<1> QED
  BY <1>2a, <1>4, <1>6, <1>7, <1>8

(* A sum depends on nothing but its terms. *)
LEMMA SumSame ==
  ASSUME NEW S, IsFiniteSet(S), NEW f, NEW h, \A x \in S : f[x] = h[x]
  PROVE  SumOf(f, S) = SumOf(h, S)
<1> DEFINE D == {s \in SUBSET S : SumOf(f, s) # SumOf(h, s)}
<1>1. SUFFICES ASSUME D # {} PROVE FALSE
  OBVIOUS
<1>2. PICK s \in D : \A t \in D : t \subseteq s => t = s
  <2> D \subseteq SUBSET S
    OBVIOUS
  <2> HIDE DEF D
  <2> QED
    BY <1>1, SmallestSet
<1>3. s \in SUBSET S /\ IsFiniteSet(s)
  BY FS_Subset
<1>4. s # {}
  BY <1>3, SumEquation
<1>5. SumOf(f, s \ {Some(s)}) = SumOf(h, s \ {Some(s)}) /\ f[Some(s)] = h[Some(s)]
  BY <1>2, <1>3, <1>4, SomeIn
<1> QED
  BY <1>2, <1>3, <1>4, <1>5, SumEquation

(* What StatsMatchTables compares the total of the event with. *)
Total(e, S) == MapThenSumSet(LAMBDA x : e[x].total, S)

LEMMA TotalIsSum ==
  ASSUME NEW e, NEW S PROVE Total(e, S) = SumOf([x \in S |-> e[x].total], S)
<1> DEFINE f == [x \in S |-> e[x].total]
           Fold(g) == g = [s \in SUBSET S |->
                             IF s = {} THEN 0 ELSE e[Some(s)].total + g[s \ {Some(s)}]]
<1>1. Total(e, S) = (CHOOSE g : Fold(g))[S]
  BY DEF Total, MapThenSumSet, MapThenFoldSet, Some
<1>2. SumOf(f, S) = (CHOOSE g : Folds(g, f, S))[S]
  BY FoldedSet
<1>3. ASSUME NEW s \in SUBSET S, s # {} PROVE f[Some(s)] = e[Some(s)].total
  BY <1>3 DEF Some
<1>4. ASSUME NEW g PROVE Fold(g) <=> Folds(g, f, S)
  BY <1>3 DEF Folds
<1> HIDE DEF f, Fold
<1>5. (CHOOSE g : Fold(g)) = (CHOOSE g : Folds(g, f, S))
  BY <1>4
<1> QED
  BY <1>1, <1>2, <1>5 DEF f

LEMMA TotalSame ==
  ASSUME NEW S, IsFiniteSet(S), NEW e, NEW h, \A x \in S : e[x].total = h[x].total
  PROVE  Total(e, S) = Total(h, S)
<1>1. [x \in S |-> e[x].total] = [x \in S |-> h[x].total]
  OBVIOUS
<1> QED
  BY <1>1, TotalIsSum

LEMMA TotalWithout ==
  ASSUME NEW S, IsFiniteSet(S), NEW e, \A x \in S : e[x].total \in Nat
  PROVE  /\ Total(e, S) \in Nat
         /\ \A x \in S : Total(e, S) = e[x].total + Total(e, S \ {x})
<1> DEFINE f == [x \in S |-> e[x].total]
<1>1. \A x \in S : f[x] \in Nat /\ f[x] \in Int /\ f[x] = e[x].total
  OBVIOUS
<1>2. Total(e, S) = SumOf(f, S)
  BY TotalIsSum
<1> HIDE DEF f
<1>3. SumOf(f, S) \in Nat
  BY <1>1, SumType
<1>4. ASSUME NEW x \in S PROVE Total(e, S) = e[x].total + Total(e, S \ {x})
  <2>1. SumOf(f, S) = f[x] + SumOf(f, S \ {x})
    BY <1>1, SumWithout
  <2>2. SumOf(f, S \ {x}) = Total(e, S \ {x})
    <3> DEFINE h == [y \in S \ {x} |-> e[y].total]
    <3>1. IsFiniteSet(S \ {x}) /\ \A y \in S \ {x} : f[y] = h[y]
      BY <1>1, FS_Subset
    <3>2. Total(e, S \ {x}) = SumOf(h, S \ {x})
      BY TotalIsSum
    <3> HIDE DEF h
    <3>3. SumOf(f, S \ {x}) = SumOf(h, S \ {x})
      BY <3>1, SumSame
    <3> QED
      BY <3>2, <3>3
  <2> QED
    BY <1>1, <1>2, <2>1, <2>2
<1> QED
  BY <1>2, <1>3, <1>4

-----------------------------------------------------------------------------
(* The numbers *)

(* Between the lock of a row and its removal; between the update of an     *)
(* expense and the end of its transaction.                                 *)
Cutting  == {"cascade", "count"}
Updating == {"deleteDetails", "insertDetails", "commit"}

(* A removal about to happen has its participant, alone; an update has its *)
(* expense; a transaction about to commit has a bill with rows.            *)
Held(c) ==
  /\ pc[c] \in Cutting =>
       /\ frame[c].target \in Rows
       /\ \A d \in Calls : Deletes(d, frame[c].target) => d = c
  /\ endpoint[c] = "revise" /\ pc[c] \in Updating =>
       expenses[frame[c].expense] # None
  /\ pc[c] = "commit" => Splittable(frame[c].bill)

AllHeld == \A c \in Calls : Held(c)

(* A step of c leaves what the others hold. *)
LEMMA OthersHeld ==
  ASSUME AllHeld, NEW c \in Calls, UNCHANGED endpoint, Held(c)',
         \A d \in Calls \ {c} :
           /\ pc'[d] = pc[d] /\ frame'[d] = frame[d]
           /\ pc[d] \in Cutting =>
                /\ frame[d].target \in Rows'
                /\ ~Deletes(c, frame[d].target)'
           /\ endpoint[d] = "revise" /\ pc[d] \in Updating =>
                expenses'[frame[d].expense] # None
  PROVE  AllHeld'
<1>1. SUFFICES ASSUME NEW d \in Calls \ {c} PROVE Held(d)'
  BY DEF AllHeld
<1>2. Held(d)
  BY DEF AllHeld
<1>3. pc[d] \in Cutting =>
        /\ frame[d].target \in Rows'
        /\ \A e \in Calls : Deletes(e, frame[d].target)' => e = d
  BY <1>2 DEF Held, Deletes
<1> QED
  BY <1>1, <1>2, <1>3 DEF Held

(* A step that writes to no table. *)
LEMMA HeldQuiet ==
  ASSUME IInv, AllHeld, NEW c \in Calls,
         UNCHANGED <<endpoint, account, expenses>>,
         \A d \in Calls \ {c} : pc'[d] = pc[d] /\ frame'[d] = frame[d],
         pc'[c] \in Cutting =>
           /\ frame'[c] = frame[c] /\ frame[c].target \in Rows
           /\ \A d \in Calls \ {c} : ~Deletes(d, frame[c].target),
         endpoint[c] = "revise" /\ pc'[c] \in Updating =>
           expenses[frame'[c].expense] # None,
         pc'[c] = "commit" => Splittable(frame'[c].bill)
  PROVE  AllHeld'
<1>1. Rows' = Rows /\ Expenses' = Expenses
  BY TablesUntouched
<1>2. Held(c)'
  BY <1>1 DEF Held, Deletes
<1>3. ASSUME NEW d \in Calls \ {c}
      PROVE  /\ pc[d] \in Cutting =>
                  /\ frame[d].target \in Rows'
                  /\ ~Deletes(c, frame[d].target)'
             /\ endpoint[d] = "revise" /\ pc[d] \in Updating =>
                  expenses'[frame[d].expense] # None
  BY <1>1 DEF AllHeld, Held, Deletes, Cutting, Updating
<1> QED
  BY <1>2, <1>3, OthersHeld

LEMMA HeldReturn ==
  ASSUME IInv, AllHeld, NEW c \in Calls, NEW a, Return(c, a), UNCHANGED endpoint
  PROVE  AllHeld'
BY HeldQuiet DEF Return, Reply, Goto, tables, IInv, Typed, Cutting, Updating

LEMMA HeldEnter ==
  ASSUME IInv, AllHeld, NEW c \in Calls, NEW f,
         NEW step \in {"insertRow", "balance", "lockRow", "insertExpense",
                       "updateExpense", "eraseExpense"},
         Enter(c, f, step), UNCHANGED endpoint
  PROVE  AllHeld'
BY HeldQuiet DEF Enter, Goto, tables, IInv, Typed, Cutting, Updating

LEMMA HeldRequest ==
  ASSUME IInv, AllHeld, NEW c \in Calls, Request(c), UNCHANGED endpoint
  PROVE  AllHeld'
<1>1. SUFFICES ASSUME ~ \E a : Return(c, a) PROVE AllHeld'
  BY HeldReturn
<1>2. \E f : \E step \in {"insertRow", "balance", "lockRow", "insertExpense",
                          "updateExpense", "eraseExpense"} : Enter(c, f, step)
  <2>1. CASE \E u \in Users :
               JoinLookup(c, u) \/ AddGuestLookup(c, u) \/ LeaveLookup(c, u)
    BY <1>1, <2>1 DEF JoinLookup, AddGuestLookup, LeaveLookup
  <2>2. CASE \E u \in Users, p \in Ids : KickLookup(c, u, p)
    BY <1>1, <2>2 DEF KickLookup
  <2>3. CASE \E u \in Users, b \in Bills : SpendLookup(c, u, b)
    BY <1>1, <2>3 DEF SpendLookup
  <2>4. CASE \E u \in Users, x \in Calls :
               EraseLookup(c, u, x) \/ \E b \in Bills : ReviseLookup(c, u, x, b)
    BY <1>1, <2>4 DEF EraseLookup, ReviseLookup
  <2> QED
    BY <2>1, <2>2, <2>3, <2>4 DEF Request
<1> QED
  BY <1>2, HeldEnter

LEMMA HeldInsertRow ==
  ASSUME IInv, AllHeld, NEW c \in Calls, InsertRow(c), UNCHANGED endpoint
  PROVE  AllHeld'
<1>1. CASE Taken(frame[c].user)
  BY <1>1, HeldReturn DEF InsertRow
<1>2. CASE ~Taken(frame[c].user)
  <2>1. account[c] = Gone /\ frame[c].user \in Users \cup {None}
    BY DEF InsertRow, IInv, Typed, CallOK, RowsFresh, Ended, FrameType
  <2>2. Rows \subseteq Rows'
    BY <1>2, <2>1 DEF InsertRow, NewRow, Rows, IInv, Typed
  <2>3. /\ pc'[c] \in {"done", "notify"} /\ UNCHANGED <<expenses, frame>>
        /\ \A d \in Calls \ {c} : pc'[d] = pc[d]
    BY <1>2 DEF InsertRow, Reply, Goto, IInv, Typed
  <2>4. Held(c)'
    BY <2>3 DEF Held, Cutting, Updating
  <2> QED
    BY <2>2, <2>3, <2>4, OthersHeld DEF AllHeld, Held, Deletes
<1> QED
  BY <1>1, <1>2

(* Whatever removals have taken off an expense, it is still one. *)
AllRowed == \A x \in Calls : expenses[x] = None \/ Rowed(expenses[x])

LEMMA RowedIsThere == ASSUME NEW e, Rowed(e) PROVE e # None
BY ELAssumption DEF Rowed

(* What a removal does to the tables. *)
LEMMA RowsRemoved ==
  ASSUME IInv, AllHeld, AllRowed, NEW c \in Calls, RemoveRow(c)
  PROVE  /\ frame[c].target \in Rows /\ Rows' = Rows \ {frame[c].target}
         /\ Expenses' = Expenses
         /\ \A x \in Expenses :
              /\ Rowed(expenses'[x])
              /\ expenses'[x] = [total |-> expenses[x].total,
                                 paid  |-> Without(expenses[x].paid, frame[c].target),
                                 ratio |-> Without(expenses[x].ratio, frame[c].target)]
<1> DEFINE p == frame[c].target
<1>1. p \in Rows /\ p \in Ids
  BY DEF RemoveRow, AllHeld, Held, Rows, Cutting, Updating
<1>2. Rows' = Rows \ {p}
  BY <1>1 DEF RemoveRow, Rows, IInv, Typed
<1>3. ASSUME NEW x \in Expenses
      PROVE  /\ Rowed(expenses'[x])
             /\ expenses'[x] = [total |-> expenses[x].total,
                                paid  |-> Without(expenses[x].paid, p),
                                ratio |-> Without(expenses[x].ratio, p)]
  <2> HIDE DEF p
  <2>1. x \in Calls /\ expenses[x] # None /\ Rowed(expenses[x])
    BY DEF AllRowed, Expenses
  <2>2. expenses'[x] = [expenses[x] EXCEPT !.paid = Without(@, p),
                                           !.ratio = Without(@, p)]
    BY <2>1 DEF RemoveRow, p
  <2>3. expenses[x] \in ExpenseOn(DOMAIN expenses[x].paid, DOMAIN expenses[x].ratio)
    BY <2>1 DEF Rowed
  <2>4. expenses'[x] = [total |-> expenses[x].total,
                        paid  |-> Without(expenses[x].paid, p),
                        ratio |-> Without(expenses[x].ratio, p)]
    BY <2>2, <2>3 DEF ExpenseOn
  <2>5. /\ Without(expenses[x].paid, p) \in [DOMAIN expenses[x].paid \ {p} -> Nat]
        /\ Without(expenses[x].ratio, p) \in [DOMAIN expenses[x].ratio \ {p} -> Int]
        /\ expenses[x].total \in Nat
    BY <2>3 DEF ExpenseOn, Without, Restrict
  <2>6. Rowed(expenses'[x])
    BY <2>1, <2>4, <2>5 DEF Rowed, ExpenseOn
  <2> QED
    BY <2>4, <2>6
<1>4. Expenses' = Expenses
  <2>1. \A x \in Expenses : expenses'[x] # None
    BY <1>3, RowedIsThere
  <2>2. \A x \in Calls : expenses[x] = None => expenses'[x] = None
    BY DEF RemoveRow
  <2> QED
    BY <2>1, <2>2 DEF Expenses
<1> QED
  BY <1>1, <1>2, <1>3, <1>4

LEMMA HeldRemoveRow ==
  ASSUME IInv, AllHeld, AllRowed, NEW c \in Calls, RemoveRow(c), UNCHANGED endpoint
  PROVE  AllHeld'
<1> DEFINE p == frame[c].target
<1>1. /\ Rows' = Rows \ {p}
      /\ \A x \in Calls : expenses[x] # None => expenses'[x] # None
  BY RowsRemoved DEF Expenses
<1>2. /\ pc'[c] = "done" /\ pc[c] = "count" /\ UNCHANGED frame
      /\ \A d \in Calls \ {c} : pc'[d] = pc[d]
  BY DEF RemoveRow, Reply, Goto, IInv, Typed
<1>3. Deletes(c, p)
  BY <1>2 DEF Deletes
<1>4. Held(c)'
  BY <1>2 DEF Held, Cutting, Updating
<1>5. ASSUME NEW d \in Calls \ {c}
      PROVE  /\ pc'[d] = pc[d] /\ frame'[d] = frame[d]
             /\ pc[d] \in Cutting =>
                  /\ frame[d].target \in Rows'
                  /\ ~Deletes(c, frame[d].target)'
  <2> HIDE DEF p
  <2> QED
    BY <1>1, <1>2, <1>3 DEF AllHeld, Held, Deletes
<1>6. ASSUME NEW d \in Calls \ {c}, endpoint[d] = "revise",
             pc[d] \in Updating
      PROVE  expenses'[frame[d].expense] # None
  <2>1. frame[d].expense \in Calls
    BY <1>6 DEF IInv, CallOK, ExpenseKnown, Created, Cutting, Updating
  <2> QED
    BY <1>1, <1>6, <2>1 DEF AllHeld, Held
<1> QED
  BY <1>4, <1>5, <1>6, OthersHeld

(* Rounding gives a whole number. *)
LEMMA AmountsAreNumbers ==
  ASSUME NEW n \in Nat, NEW d \in Nat \ {0} PROVE Rounded(n, d) \in Nat
BY DEF Rounded

LEMMA RatiosAreNumbers ==
  ASSUME NEW n \in Int, NEW d \in Nat \ {0} PROVE Rounded(n, d) \in Int
BY DEF Rounded

LEMMA SumsOverSets ==
  ASSUME NEW f, NEW S
  PROVE  SumFunctionOnSet(f, S) = SumOf(f, S) /\ SumFunction(f) = SumOf(f, DOMAIN f)
BY DEF SumFunction, SumFunctionOnSet, FoldFunctionOnSet, SumOf, MapThenSumSet

(* Entries of numbers add up to a number for each participant. *)
LEMMA TogetherTyped ==
  ASSUME NEW N \in {Nat, Int}, NEW who, IsFiniteSet(DOMAIN who),
         NEW rows, \A i \in DOMAIN who : rows[i] \in N
  PROVE  Together(rows, who) \in [Range(who) -> N]
<1>1. ASSUME NEW p \in Range(who)
      PROVE  SumFunctionOnSet(rows, {i \in DOMAIN who : who[i] = p}) \in N
  <2>1. PICK S : S = {i \in DOMAIN who : who[i] = p}
    OBVIOUS
  <2>2. IsFiniteSet(S) /\ \A i \in S : rows[i] \in N
    BY <2>1, FS_Subset
  <2>3. SumOf(rows, S) \in N
    BY <2>2, SumType
  <2> QED
    BY <2>1, <2>3, SumsOverSets
<1> QED
  BY <1>1 DEF Together

(* The rows of a bill that can be split. *)
LEMMA BillRowed ==
  ASSUME NEW b \in Bills, Splittable(b)
  PROVE  Rowed(RowsOf(b)) /\ RowsOf(b).total = b.amount
<1>1. /\ b.amount \in Nat
      /\ b.payers \in [DOMAIN b.payers -> Ids] /\ IsFiniteSet(DOMAIN b.payers)
      /\ b.bearers \in [DOMAIN b.weights -> Ids]
      /\ b.weights \in [DOMAIN b.weights -> Int] /\ IsFiniteSet(DOMAIN b.weights)
  BY ELAssumption
<1>2. \A i \in DOMAIN b.payers : PaidRows(b)[i] \in Nat
  <2> DEFINE n == Cardinality(DOMAIN b.payers)
  <2>1. n \in Nat \ {0}
    BY <1>1, FS_CardinalityType, FS_EmptySet DEF Splittable
  <2> HIDE DEF n
  <2>2. Rounded(100 * b.amount, n) \in Nat
    BY <1>1, <2>1, AmountsAreNumbers
  <2>3. PaidAmount(b.amount, n) \in Nat
    BY <2>2, AmountsAreNumbers DEF PaidAmount
  <2> QED
    BY <2>3 DEF PaidRows, n
<1>3. \A i \in DOMAIN b.weights : RatioRows(b)[i] \in Int
  <2> DEFINE w == SumFunction(b.weights)
  <2>1. w \in Nat \ {0}
    <3>1. w = SumOf(b.weights, DOMAIN b.weights)
      BY SumsOverSets
    <3>2. w \in Int
      BY <1>1, <3>1, SumType
    <3> QED
      BY <3>2 DEF Splittable
  <2>2. ASSUME NEW i \in DOMAIN b.weights PROVE SplitRatio(b.weights[i], w) \in Int
    <3>1. 10000 * b.weights[i] \in Int
      BY <1>1
    <3> HIDE DEF w
    <3> QED
      BY <2>1, <3>1, RatiosAreNumbers DEF SplitRatio
  <2> QED
    BY <2>2 DEF RatioRows
<1>4. Together(PaidRows(b), b.payers) \in [Range(b.payers) -> Nat]
  BY <1>1, <1>2, TogetherTyped
<1>5. Together(RatioRows(b), b.bearers) \in [Range(b.bearers) -> Int]
  <2>1. DOMAIN b.bearers = DOMAIN b.weights
    BY <1>1
  <2> QED
    BY <1>1, <1>3, <2>1, TogetherTyped
<1>6. Range(b.payers) \subseteq Ids /\ Range(b.bearers) \subseteq Ids
  BY <1>1 DEF Range
<1> QED
  BY <1>1, <1>4, <1>5, <1>6 DEF Rowed, RowsOf, ExpenseOn

(* The end of a transaction: the expense x is e, or gone. *)
LEMMA HeldWritten ==
  ASSUME IInv, AllHeld, AllRowed, NEW c \in Calls, NEW x \in Calls, NEW e,
         e # None \/ \A d \in Calls \ {c} : ~HoldsExpense(d, x),
         pc'[c] \in {"done", "notify"},
         \A d \in Calls \ {c} : pc'[d] = pc[d],
         expenses' = [expenses EXCEPT ![x] = e],
         UNCHANGED <<endpoint, account, frame>>
  PROVE  AllHeld'
<1>1. Rows' = Rows
  BY DEF Rows
<1>2. Held(c)'
  BY DEF Held, Cutting, Updating
<1>3. expenses'[x] = e /\ \A y \in Calls \ {x} : expenses'[y] = expenses[y]
  BY DEF IInv, Typed
<1>4. ASSUME NEW d \in Calls \ {c}, endpoint[d] = "revise",
             pc[d] \in Updating
      PROVE  expenses'[frame[d].expense] # None
  <2>1. frame[d].expense \in Calls /\ expenses[frame[d].expense] # None
    BY <1>4 DEF IInv, CallOK, ExpenseKnown, Created, AllHeld, Held, Cutting, Updating
  <2>2. frame[d].expense = x => HoldsExpense(d, x)
    BY <1>4 DEF HoldsExpense, Cutting, Updating
  <2> QED
    BY <1>3, <2>1, <2>2
<1> QED
  BY <1>1, <1>2, <1>4, OthersHeld DEF AllHeld, Held, Deletes

Finite == IsFiniteSet(Rows) /\ IsFiniteSet(Expenses)

(* The property in these terms, now and after a step. *)
LEMMA StatsSay ==
  StatsMatchTables <=>
    stats = [participants |-> Cardinality(Rows),
             transactions |-> Cardinality(Expenses),
             total |-> Total(expenses, Expenses)]
BY DEF StatsMatchTables, Total

LEMMA StatsSayThen ==
  StatsMatchTables' <=>
    stats' = [participants |-> Cardinality(Rows'),
              transactions |-> Cardinality(Expenses'),
              total |-> Total(expenses', Expenses')]
BY DEF StatsMatchTables, Total, MapThenSumSet, MapThenFoldSet

LEMMA TotalsNat ==
  ASSUME AllRowed, NEW x \in Expenses PROVE expenses[x].total \in Nat
BY DEF AllRowed, Expenses, Rowed, ExpenseOn

(* The triggers on expenses keep the count and the sum, whatever a         *)
(* transaction makes of expense x: e, or nothing.                          *)
LEMMA WrittenCounted ==
  ASSUME IInv, AllRowed, Finite, StatsMatchTables,
         NEW x \in Calls, NEW e, NEW n, NEW t, e = None \/ Rowed(e),
         expenses' = [expenses EXCEPT ![x] = e],
         n = (IF e = None THEN 0 ELSE 1) - (IF expenses[x] = None THEN 0 ELSE 1),
         t = IF e = None THEN 0 ELSE e.total,
         stats' = Counted(x, n, t),
         UNCHANGED account
  PROVE  AllRowed' /\ Finite' /\ StatsMatchTables'
<1> DEFINE R == Expenses \ {x}
<1>1. expenses'[x] = e /\ \A y \in Calls \ {x} : expenses'[y] = expenses[y]
  BY DEF IInv, Typed
<1>2. AllRowed'
  BY <1>1 DEF AllRowed, Rowed
<1>3. Rows' = Rows
  BY DEF Rows
<1>4. /\ Expenses' = IF e = None THEN R ELSE R \cup {x}
      /\ Expenses = IF expenses[x] = None THEN R ELSE R \cup {x}
      /\ x \notin R
  BY <1>1 DEF Expenses
<1>5. IsFiniteSet(R)
  BY FS_Subset DEF Finite
<1>6. Total(expenses', R) = Total(expenses, R)
  BY <1>1, <1>5, TotalSame DEF Expenses
<1>7. Total(expenses, R) \in Nat
  BY <1>5, TotalsNat, TotalWithout
<1>8. Total(expenses, Expenses) =
        Total(expenses, R) + (IF expenses[x] = None THEN 0 ELSE expenses[x].total)
  <2>1. CASE expenses[x] = None
    BY <1>4, <1>7, <2>1
  <2>2. CASE expenses[x] # None
    <3>1. x \in Expenses /\ expenses[x].total \in Nat
      BY <2>2, TotalsNat DEF Expenses
    <3>2. Total(expenses, Expenses) = expenses[x].total + Total(expenses, R)
      BY <3>1, TotalsNat, TotalWithout DEF Finite
    <3> QED
      BY <1>7, <2>2, <3>1, <3>2
  <2> QED
    BY <2>1, <2>2
<1>9. IsFiniteSet(Expenses')
  BY <1>4, <1>5, FS_AddElement
<1>10. Total(expenses', Expenses') = Total(expenses, R) + t
  <2>1. CASE e = None
    BY <1>4, <1>6, <1>7, <2>1
  <2>2. CASE e # None
    <3>1. x \in Expenses' /\ Expenses' \ {x} = R
      BY <1>4, <2>2
    <3>2. \A y \in Expenses' : expenses'[y].total \in Nat
      BY <1>2 DEF AllRowed, Expenses, Rowed, ExpenseOn
    <3>3. Total(expenses', Expenses') = expenses'[x].total + Total(expenses', R)
      <4> DEFINE T == Expenses'
                 h == expenses'
      <4>1. IsFiniteSet(T) /\ x \in T /\ T \ {x} = R /\ \A y \in T : h[y].total \in Nat
        BY <1>9, <3>1, <3>2
      <4> HIDE DEF T, h
      <4>2. Total(h, T) = h[x].total + Total(h, T \ {x})
        BY <4>1, TotalWithout
      <4> QED
        BY <4>1, <4>2 DEF T, h
    <3> QED
      BY <1>1, <1>6, <1>7, <2>2, <3>1, <3>2, <3>3
  <2> QED
    BY <2>1, <2>2
<1>11. /\ Cardinality(Expenses') = Cardinality(R) + (IF e = None THEN 0 ELSE 1)
       /\ Cardinality(Expenses) = Cardinality(R) + (IF expenses[x] = None THEN 0 ELSE 1)
       /\ Cardinality(R) \in Nat
  <2> HIDE DEF R
  <2> QED
    BY <1>4, <1>5, FS_AddElement, FS_CardinalityType
<1>12. t \in Nat /\ (expenses[x] # None => expenses[x].total \in Nat)
  BY DEF AllRowed, Rowed, ExpenseOn
<1>13. stats = [participants |-> Cardinality(Rows),
                transactions |-> Cardinality(Expenses),
                total |-> Total(expenses, Expenses)]
  BY StatsSay
<1>14. stats' = [participants |-> Cardinality(Rows'),
                 transactions |-> Cardinality(Expenses'),
                 total |-> Total(expenses', Expenses')]
  <2>1. stats' = [participants |-> Cardinality(Rows),
                  transactions |-> Cardinality(Expenses) + n,
                  total |-> Total(expenses, Expenses) + t
                    - (IF expenses[x] = None THEN 0 ELSE expenses[x].total)]
    BY <1>13 DEF Counted
  <2>2. Cardinality(Expenses) + n = Cardinality(Expenses')
    BY <1>11
  <2>3. Total(expenses, Expenses) + t
          - (IF expenses[x] = None THEN 0 ELSE expenses[x].total)
        = Total(expenses', Expenses')
    BY <1>7, <1>8, <1>10, <1>12
  <2> QED
    BY <1>3, <2>1, <2>2, <2>3
<1>15. StatsMatchTables'
  BY <1>14, StatsSayThen
<1> QED
  BY <1>2, <1>3, <1>9, <1>15 DEF Finite

(* The invariant of the numbers, above IInv. *)
NInv == AllHeld /\ AllRowed /\ Finite /\ StatsMatchTables

(* A step that writes to no table. *)
LEMMA NumbersUntouched ==
  ASSUME NInv, AllHeld', UNCHANGED tables PROVE NInv'
<1>1. UNCHANGED <<account, expenses, stats>>
  BY DEF tables
<1>2. Rows' = Rows /\ Expenses' = Expenses
  BY <1>1 DEF Rows, Expenses
<1>3. AllRowed'
  BY <1>1 DEF NInv, AllRowed
<1>4. StatsMatchTables'
  BY <1>1, <1>2, StatsSay, StatsSayThen DEF NInv
<1> QED
  BY <1>2, <1>3, <1>4 DEF NInv, Finite

LEMMA NumbersInsertRow ==
  ASSUME IInv, NInv, NEW c \in Calls, InsertRow(c), UNCHANGED endpoint
  PROVE  NInv'
<1>1. AllHeld'
  BY HeldInsertRow DEF NInv
<1>2. CASE Taken(frame[c].user)
  BY <1>1, <1>2, NumbersUntouched DEF InsertRow, Return
<1>3. CASE ~Taken(frame[c].user)
  <2>1. /\ account[c] = Gone /\ frame[c].user \in Users \cup {None} /\ c \in Ids
        /\ frame[c].user # Gone
    BY ELAssumption DEF InsertRow, IInv, Typed, CallOK, RowsFresh, Ended, FrameType, Ids
  <2>2. /\ account' = [account EXCEPT ![c] = frame[c].user]
        /\ UNCHANGED expenses
        /\ stats' = [stats EXCEPT !.participants = @ + 1]
    BY <1>3 DEF InsertRow, NewRow
  <2>3. Rows' = Rows \cup {c} /\ c \notin Rows
    BY <2>1, <2>2 DEF Rows, IInv, Typed
  <2>4. Expenses' = Expenses /\ AllRowed'
    BY <2>2 DEF Expenses, AllRowed, NInv
  <2>5. IsFiniteSet(Rows') /\ Cardinality(Rows') = Cardinality(Rows) + 1
    BY <2>3, FS_AddElement DEF NInv, Finite
  <2>6. StatsMatchTables'
    BY <2>2, <2>4, <2>5, StatsSay, StatsSayThen DEF NInv
  <2> QED
    BY <1>1, <2>4, <2>5, <2>6 DEF NInv, Finite
<1> QED
  BY <1>2, <1>3

LEMMA NumbersRemoveRow ==
  ASSUME IInv, NInv, NEW c \in Calls, RemoveRow(c), UNCHANGED endpoint
  PROVE  NInv'
<1>1. AllHeld'
  BY HeldRemoveRow DEF NInv
<1> DEFINE p == frame[c].target
<1>2. /\ p \in Rows /\ Rows' = Rows \ {p}
      /\ Expenses' = Expenses
      /\ \A x \in Expenses :
           Rowed(expenses'[x]) /\ expenses'[x].total = expenses[x].total
  <2>1. AllHeld /\ AllRowed
    BY DEF NInv
  <2>2. p \in Rows /\ Rows' = Rows \ {p} /\ Expenses' = Expenses
    BY <2>1, RowsRemoved
  <2>3. ASSUME NEW x \in Expenses
        PROVE  Rowed(expenses'[x]) /\ expenses'[x].total = expenses[x].total
    <3>1. /\ Rowed(expenses'[x])
          /\ expenses'[x] = [total |-> expenses[x].total,
                             paid  |-> Without(expenses[x].paid, p),
                             ratio |-> Without(expenses[x].ratio, p)]
      BY <2>1, RowsRemoved
    <3> QED
      BY <3>1
  <2> QED
    BY <2>2, <2>3
<1>2a. stats' = [stats EXCEPT !.participants = @ - 1]
  BY DEF RemoveRow
<1> HIDE DEF p
<1>3. AllRowed'
  BY <1>2 DEF AllRowed, Expenses, Rowed
<1>4. IsFiniteSet(Rows') /\ Cardinality(Rows') = Cardinality(Rows) - 1
  BY <1>2, FS_RemoveElement DEF NInv, Finite
<1>5. Total(expenses', Expenses') = Total(expenses, Expenses)
  BY <1>2, TotalSame DEF NInv, Finite
<1>6. StatsMatchTables'
  <2>1. stats' = [participants |-> Cardinality(Rows'),
                  transactions |-> Cardinality(Expenses'),
                  total |-> Total(expenses', Expenses')]
    BY <1>2, <1>2a, <1>4, <1>5, StatsSay DEF NInv
  <2> QED
    BY <2>1, StatsSayThen
<1> QED
  BY <1>1, <1>2, <1>3, <1>4, <1>6 DEF NInv, Finite

LEMMA NumbersCommit ==
  ASSUME IInv, NInv, NEW c \in Calls, CommitSpend(c) \/ CommitRevise(c),
         UNCHANGED endpoint
  PROVE  NInv'
<1>1. pc[c] = "commit" /\ Splittable(frame[c].bill) /\ frame[c].bill \in Bills
  BY DEF CommitSpend, CommitRevise, NInv, AllHeld, Held, IInv, Typed, FrameType,
     Splittable, NoBill
<1> DEFINE e == RowsOf(frame[c].bill)
<1>2. Rowed(e) /\ e # None /\ e.total = frame[c].bill.amount
  BY <1>1, BillRowed, RowedIsThere
<1>3. /\ pc'[c] \in {"done", "notify"}
      /\ \A d \in Calls \ {c} : pc'[d] = pc[d]
      /\ UNCHANGED <<account, frame>>
  BY DEF CommitSpend, CommitRevise, Reply, Goto, IInv, Typed
<1> DEFINE x == IF endpoint[c] = "spend" THEN c ELSE frame[c].expense
           n == IF endpoint[c] = "spend" THEN 1 ELSE 0
<1>4. /\ x \in Calls
      /\ n = 1 - (IF expenses[x] = None THEN 0 ELSE 1)
      /\ expenses' = [expenses EXCEPT ![x] = e]
      /\ stats' = Counted(x, n, frame[c].bill.amount)
  <2>1. CASE CommitSpend(c)
    <3>1. expenses[c] = None
      BY <1>1 DEF IInv, CallOK, RowsFresh, Ended
    <3> QED
      BY <2>1, <3>1 DEF CommitSpend
  <2>2. CASE CommitRevise(c)
    <3>1. frame[c].expense \in Calls /\ expenses[frame[c].expense] # None
      BY <2>2 DEF CommitRevise, IInv, CallOK, ExpenseKnown, Created, NInv,
         AllHeld, Held, Cutting, Updating
    <3> QED
      BY <2>2, <3>1 DEF CommitRevise
  <2> QED
    BY <2>1, <2>2
<1> HIDE DEF e, x, n
<1>5. AllHeld'
  BY <1>2, <1>3, <1>4, HeldWritten DEF NInv
<1>6. AllRowed' /\ Finite' /\ StatsMatchTables'
  BY <1>2, <1>3, <1>4, WrittenCounted DEF NInv
<1> QED
  BY <1>5, <1>6 DEF NInv

LEMMA NumbersErase ==
  ASSUME IInv, NInv, NEW c \in Calls, EraseExpense(c), UNCHANGED endpoint
  PROVE  NInv'
<1> DEFINE x == frame[c].expense
<1>1. x \in Calls
  BY DEF EraseExpense, IInv, CallOK, PathsOK
<1>2. CASE expenses[x] = None
  <2>1. Return(c, "ok")
    BY <1>2 DEF EraseExpense
  <2> QED
    BY <2>1, HeldReturn, NumbersUntouched DEF NInv, Return
<1>3. CASE expenses[x] # None
  <2>1. /\ expenses' = [expenses EXCEPT ![x] = None]
        /\ stats' = Counted(x, -1, 0)
        /\ pc'[c] = "done" /\ \A d \in Calls \ {c} : pc'[d] = pc[d]
        /\ UNCHANGED <<account, frame>>
    BY <1>3 DEF EraseExpense, Reply, Goto, IInv, Typed
  <2>2. \A d \in Calls \ {c} : ~HoldsExpense(d, x)
    BY <1>3 DEF EraseExpense, Free, WaitsFor
  <2> HIDE DEF x
  <2>3. AllHeld'
    BY <1>1, <2>1, <2>2, HeldWritten DEF NInv
  <2>4. AllRowed' /\ Finite' /\ StatsMatchTables'
    <3>1. -1 = 0 - 1
      OBVIOUS
    <3> QED
      BY <1>1, <1>3, <2>1, <3>1, WrittenCounted DEF NInv
  <2> QED
    BY <2>3, <2>4 DEF NInv
<1> QED
  BY <1>2, <1>3

LEMMA NumbersRun ==
  ASSUME IInv, NInv, NEW c \in Calls, Run(c), UNCHANGED endpoint
  PROVE  NInv'
<1>1. ASSUME NEW a, Return(c, a) PROVE NInv'
  BY <1>1, HeldReturn, NumbersUntouched DEF NInv, Return
<1>2. ASSUME NEW step, Step(c, step),
             step \in Cutting =>
               /\ frame[c].target \in Rows
               /\ \A d \in Calls \ {c} : ~Deletes(d, frame[c].target),
             endpoint[c] = "revise" /\ step \in Updating =>
               expenses[frame[c].expense] # None,
             step = "commit" => Splittable(frame[c].bill)
      PROVE  NInv'
  <2>1. /\ pc'[c] = step /\ \A d \in Calls \ {c} : pc'[d] = pc[d]
        /\ UNCHANGED <<account, expenses, frame>> /\ UNCHANGED tables
    BY <1>2 DEF Step, Goto, tables, IInv, Typed
  <2>2. AllHeld'
    BY <1>2, <2>1, HeldQuiet DEF NInv
  <2> QED
    BY <2>1, <2>2, NumbersUntouched
<1>3. CASE ReadBalance(c)
  BY <1>1, <1>2, <1>3 DEF ReadBalance, Cutting, Updating
<1>4. CASE LockRow(c)
  <2>1. \A d \in Calls \ {c} : ~Deletes(d, frame[c].target)
    BY <1>4 DEF LockRow, Free, WaitsFor
  <2> QED
    BY <1>1, <1>2, <1>4, <2>1 DEF LockRow, Cutting, Updating
<1>5. CASE Cascade(c)
  <2>1. pc[c] = "cascade" /\ Held(c)
    BY <1>5 DEF Cascade, NInv, AllHeld
  <2>2. frame[c].target \in Rows /\ \A d \in Calls \ {c} : ~Deletes(d, frame[c].target)
    BY <2>1 DEF Held, Cutting, Updating
  <2> QED
    BY <1>2, <1>5, <2>2 DEF Cascade, Cutting, Updating
<1>6. CASE InsertExpense(c)
  <2>1. endpoint[c] = "spend"
    BY <1>6 DEF InsertExpense, IInv, CallOK, PathsOK
  <2> QED
    BY <1>2, <1>6, <2>1 DEF InsertExpense, Cutting, Updating
<1>7. CASE UpdateExpense(c)
  BY <1>1, <1>2, <1>7 DEF UpdateExpense, Cutting, Updating
<1>8. CASE DeleteDetails(c) \/ InsertDetails(c)
  <2>1. endpoint[c] = "revise" => expenses[frame[c].expense] # None
    BY <1>8 DEF DeleteDetails, InsertDetails, NInv, AllHeld, Held, Cutting, Updating
  <2> QED
    BY <1>1, <1>2, <1>8, <2>1 DEF DeleteDetails, InsertDetails, Cutting, Updating
<1>9. CASE Notify(c)
  BY <1>1, <1>9 DEF Notify
<1> QED
  BY <1>3, <1>4, <1>5, <1>6, <1>7, <1>8, <1>9, NumbersInsertRow, NumbersRemoveRow,
     NumbersCommit, NumbersErase DEF Run

LEMMA NumbersRequest ==
  ASSUME IInv, NInv, NEW c \in Calls, Request(c), UNCHANGED endpoint
  PROVE  NInv'
<1>1. AllHeld'
  BY HeldRequest DEF NInv
<1>2. UNCHANGED tables
  BY DEF Request, JoinLookup, AddGuestLookup, LeaveLookup, KickLookup, SpendLookup,
     EraseLookup, ReviseLookup, Return, Enter
<1> QED
  BY <1>1, <1>2, NumbersUntouched

LEMMA NumbersInit == Init => NInv
<1> SUFFICES ASSUME Init PROVE NInv
  OBVIOUS
<1>1. AllHeld
  BY DEF Init, AllHeld, Held, Cutting, Updating
<1>2. AllRowed /\ Expenses = {}
  BY DEF Init, AllRowed, Expenses
<1>3. Rows = Founders
  BY ELAssumption DEF Init, Rows, Ids, Gone
<1>4. Finite
  BY <1>2, <1>3, ELAssumption, FS_EmptySet DEF Finite
<1>5. Total(expenses, {}) = 0
  BY TotalIsSum, SumEquation, FS_EmptySet
<1>6. StatsMatchTables
  BY <1>2, <1>3, <1>5, StatsSay, FS_EmptySet DEF Init
<1> QED
  BY <1>1, <1>2, <1>4, <1>6 DEF NInv

LEMMA NumbersNext == IInv /\ NInv /\ [Next]_vars => NInv'
<1>1. ASSUME IInv, NInv, NEW c \in Calls, Abort(c) \/ DeadlockAbort(c),
             UNCHANGED endpoint
      PROVE  NInv'
  <2>1. Return(c, "error")
    BY <1>1 DEF Abort, DeadlockAbort
  <2> QED
    BY <1>1, <2>1, HeldReturn, NumbersUntouched DEF NInv, Return
<1>2. ASSUME NInv, UNCHANGED vars PROVE NInv'
  <2>1. UNCHANGED tables /\ AllHeld'
    BY <1>2 DEF vars, tables, NInv, AllHeld, Held, Rows, Deletes
  <2> QED
    BY <1>2, <2>1, NumbersUntouched
<1> QED
  BY <1>1, <1>2, NumbersRequest, NumbersRun DEF Next

LEMMA NumbersHold == Spec => [](IInv /\ NInv)
BY Invariant, NumbersInit, NumbersNext, PTL DEF Spec

(* Handlers that wait for each other, fail half way and remove members     *)
(* keep the statistics of the event row equal to the tables.               *)
THEOREM StatsRight == Spec => []StatsMatchTables
<1>1. NInv => StatsMatchTables
  BY DEF NInv
<1> QED
  BY <1>1, NumbersHold, PTL

(* Every reachable state is well typed. *)
THEOREM TypeCorrect == Spec => []TypeOK
<1>1. ASSUME IInv, NInv PROVE TypeOK
  <2>1. stats \in [participants : Nat, transactions : Nat, total : Nat]
    <3>1. Total(expenses, Expenses) \in Nat
      BY <1>1, TotalsNat, TotalWithout DEF NInv, Finite
    <3> QED
      BY <1>1, <3>1, StatsSay, FS_CardinalityType DEF NInv, Finite
  <2> QED
    BY <1>1, <2>1 DEF IInv, NInv, Typed, FrameType, AllRowed, TypeOK
<1> QED
  BY <1>1, NumbersHold, PTL

(* Bills that name founders and split without rounding. *)
EvenBills ==
  \A b \in Bills :
    /\ Named(b) \subseteq Founders
    /\ Splittable(b) => /\ SumFunction(RowsOf(b).paid) = b.amount
                        /\ SumFunction(RowsOf(b).ratio) = 10000

(* As long as the founders are there, an expense is one bill as a whole. *)
OneBill ==
  Founders \subseteq Rows =>
    \A x \in Expenses : \E b \in Bills : Splittable(b) /\ expenses[x] = RowsOf(b)

LEMMA OneBillUntouched ==
  ASSUME OneBill, UNCHANGED <<account, expenses>> PROVE OneBill'
BY DEF OneBill, Rows, Expenses

(* Who is taken off an expense while all founders stay is in no bill. *)
LEMMA OneBillStep ==
  ASSUME EvenBills, IInv, NInv, OneBill, NEW c \in Calls,
         Request(c) \/ Run(c) \/ Abort(c) \/ DeadlockAbort(c), UNCHANGED endpoint
  PROVE  OneBill'
<1>1. CASE InsertRow(c)
  <2>1. account[c] = Gone /\ c \notin Founders
    BY <1>1, ELAssumption DEF InsertRow, IInv, CallOK, RowsFresh, Ended
  <2>2. Founders \subseteq Rows' => Founders \subseteq Rows
    BY <1>1, <2>1 DEF InsertRow, NewRow, Return, tables, Rows, IInv, Typed
  <2>3. Expenses' = Expenses /\ UNCHANGED expenses
    BY <1>1 DEF InsertRow, Return, tables, Expenses
  <2> QED
    BY <2>2, <2>3 DEF OneBill
<1>2. CASE RemoveRow(c)
  <2> DEFINE p == frame[c].target
  <2>0. AllHeld /\ AllRowed
    BY DEF NInv
  <2>1. /\ p \in Rows /\ Rows' = Rows \ {p} /\ Expenses' = Expenses
        /\ \A x \in Expenses :
             expenses'[x] = [total |-> expenses[x].total,
                             paid  |-> Without(expenses[x].paid, p),
                             ratio |-> Without(expenses[x].ratio, p)]
    BY <1>2, <2>0, RowsRemoved
  <2> HIDE DEF p
  <2>2. SUFFICES ASSUME Founders \subseteq Rows', NEW x \in Expenses
                 PROVE  \E b \in Bills : Splittable(b) /\ expenses'[x] = RowsOf(b)
    BY <2>1 DEF OneBill
  <2>3. PICK b \in Bills : Splittable(b) /\ expenses[x] = RowsOf(b)
    BY <2>1, <2>2 DEF OneBill
  <2>4. p \notin Range(b.payers) /\ p \notin Range(b.bearers)
    BY <2>1, <2>2 DEF EvenBills, Named
  <2>5. /\ Without(Together(PaidRows(b), b.payers), p) = Together(PaidRows(b), b.payers)
        /\ Without(Together(RatioRows(b), b.bearers), p)
             = Together(RatioRows(b), b.bearers)
    BY <2>4 DEF Without, Restrict, Together
  <2>6. expenses'[x] = RowsOf(b)
    BY <2>1, <2>3, <2>5 DEF RowsOf
  <2> QED
    BY <2>3, <2>6
<1>3. CASE CommitSpend(c) \/ CommitRevise(c)
  <2>1. Splittable(frame[c].bill) /\ frame[c].bill \in Bills /\ UNCHANGED account
    BY <1>3 DEF CommitSpend, CommitRevise, NInv, AllHeld, Held, IInv, Typed, FrameType,
       Splittable, NoBill
  <2>2. \A x \in Calls :
          expenses'[x] = expenses[x] \/ expenses'[x] = RowsOf(frame[c].bill)
    BY <1>3 DEF CommitSpend, CommitRevise, IInv, Typed
  <2> QED
    BY <2>1, <2>2 DEF OneBill, Rows, Expenses
<1>4. CASE EraseExpense(c)
  <2>1. /\ UNCHANGED account
        /\ \A x \in Calls : expenses'[x] = expenses[x] \/ expenses'[x] = None
    BY <1>4 DEF EraseExpense, Return, tables, IInv, Typed
  <2> QED
    BY <2>1 DEF OneBill, Rows, Expenses
<1>5. CASE ~ (InsertRow(c) \/ RemoveRow(c) \/ CommitSpend(c) \/ CommitRevise(c)
              \/ EraseExpense(c))
  <2>1. UNCHANGED <<account, expenses>>
    BY <1>5
    DEF Request, JoinLookup, AddGuestLookup, LeaveLookup, KickLookup, SpendLookup,
        EraseLookup, ReviseLookup, Run, ReadBalance, LockRow, Cascade, InsertExpense,
        InsertDetails, UpdateExpense, DeleteDetails, Notify, Abort, DeadlockAbort,
        Return, Enter, Step, tables
  <2> QED
    BY <2>1, OneBillUntouched
<1> QED
  BY <1>1, <1>2, <1>3, <1>4, <1>5

(* Payers and shares of an expense add up to its total, however updates    *)
(* overlap or fail, if they do in the bills: a transaction writes the rows *)
(* of one bill or none.                                                    *)
THEOREM BillsWhole == ASSUME EvenBills PROVE Spec => []BillsAddUp
<1>1. Init => OneBill
  BY DEF Init, OneBill, Expenses
<1>2. IInv /\ NInv /\ OneBill /\ [Next]_vars => OneBill'
  <2>1. OneBill /\ UNCHANGED vars => OneBill'
    BY OneBillUntouched DEF vars
  <2> QED
    BY <2>1, OneBillStep DEF Next
<1>3. NInv /\ OneBill => BillsAddUp
  <2>1. SUFFICES ASSUME NInv, OneBill, Founders \subseteq Rows, NEW x \in Expenses
                 PROVE  /\ SumFunction(expenses[x].paid) = expenses[x].total
                        /\ SumFunction(expenses[x].ratio) = 10000
    BY DEF BillsAddUp
  <2>2. PICK b \in Bills : Splittable(b) /\ expenses[x] = RowsOf(b)
    BY <2>1 DEF OneBill
  <2>3. /\ expenses[x].paid = RowsOf(b).paid /\ expenses[x].ratio = RowsOf(b).ratio
        /\ expenses[x].total = b.amount
    BY <2>2 DEF RowsOf
  <2> QED
    BY <2>2, <2>3 DEF EvenBills
<1> QED
  BY <1>1, <1>2, <1>3, NumbersHold, PTL DEF Spec

-----------------------------------------------------------------------------
(* More about sums *)

(* The sum of terms of at most k. *)
LEMMA SumBounded ==
  ASSUME NEW S, IsFiniteSet(S), NEW k \in Nat, NEW f,
         \A x \in S : f[x] \in Nat /\ f[x] <= k
  PROVE  SumOf(f, S) <= k * Cardinality(S)
<1> DEFINE D == {s \in SUBSET S : ~ (SumOf(f, s) <= k * Cardinality(s))}
<1>1. SUFFICES ASSUME D # {} PROVE FALSE
  OBVIOUS
<1>2. PICK s \in D : \A t \in D : t \subseteq s => t = s
  <2> D \subseteq SUBSET S
    OBVIOUS
  <2> HIDE DEF D
  <2> QED
    BY <1>1, SmallestSet
<1>3. s \in SUBSET S /\ IsFiniteSet(s)
  BY FS_Subset
<1>4. s # {}
  BY <1>3, SumEquation, FS_EmptySet
<1> DEFINE t == s \ {Some(s)}
<1>5. /\ SumOf(f, t) <= k * Cardinality(t)
      /\ f[Some(s)] \in Nat /\ f[Some(s)] <= k
      /\ SumOf(f, t) \in Nat
  <2>1. Some(s) \in s /\ IsFiniteSet(t)
    BY <1>3, <1>4, SomeIn, FS_Subset
  <2>2. t \notin D /\ t \in SUBSET S
    BY <1>2, <1>3, <2>1
  <2>3. SumOf(f, t) \in Nat
    BY <2>1, <2>2, SumType
  <2> QED
    BY <1>3, <2>1, <2>2, <2>3
<1>6. SumOf(f, s) = f[Some(s)] + SumOf(f, t)
  BY <1>3, <1>4, SumEquation
<1>7. Cardinality(s) = Cardinality(t) + 1 /\ Cardinality(t) \in Nat
  <2>1. Some(s) \in s /\ IsFiniteSet(t) /\ Cardinality(t) = Cardinality(s) - 1
    BY <1>3, <1>4, SomeIn, FS_RemoveElement
  <2>2. Cardinality(s) \in Nat /\ Cardinality(t) \in Nat
    BY <1>3, <2>1, FS_CardinalityType
  <2> QED
    BY <2>1, <2>2
<1> HIDE DEF t
<1>8. k * (Cardinality(t) + 1) = k * Cardinality(t) + k
  BY <1>7
<1>9. SumOf(f, s) <= k * Cardinality(s)
  <2> HIDE DEF D
  <2>1. k * Cardinality(t) \in Nat
    BY <1>7
  <2> QED
    BY <1>5, <1>6, <1>7, <1>8, <2>1
<1> QED
  BY <1>9

(* The sum of differences. *)
LEMMA SumMinus ==
  ASSUME NEW S, IsFiniteSet(S), NEW f, NEW g, NEW h,
         \A x \in S : f[x] \in Int /\ g[x] \in Int /\ h[x] = f[x] - g[x]
  PROVE  SumOf(h, S) = SumOf(f, S) - SumOf(g, S)
<1> DEFINE D == {s \in SUBSET S : SumOf(h, s) # SumOf(f, s) - SumOf(g, s)}
<1>1. SUFFICES ASSUME D # {} PROVE FALSE
  OBVIOUS
<1>2. PICK s \in D : \A t \in D : t \subseteq s => t = s
  <2> D \subseteq SUBSET S
    OBVIOUS
  <2> HIDE DEF D
  <2> QED
    BY <1>1, SmallestSet
<1>3. s \in SUBSET S /\ IsFiniteSet(s)
  BY FS_Subset
<1>4. s # {}
  <2>1. s = {} => SumOf(f, s) = 0 /\ SumOf(g, s) = 0 /\ SumOf(h, s) = 0
    BY <1>3, SumEquation
  <2> QED
    BY <2>1
<1> DEFINE t == s \ {Some(s)}
<1>5. /\ SumOf(h, t) = SumOf(f, t) - SumOf(g, t)
      /\ h[Some(s)] = f[Some(s)] - g[Some(s)]
      /\ f[Some(s)] \in Int /\ g[Some(s)] \in Int
      /\ SumOf(f, t) \in Int /\ SumOf(g, t) \in Int
  <2>1. Some(s) \in s /\ IsFiniteSet(t)
    BY <1>3, <1>4, SomeIn, FS_Subset
  <2>2. t \notin D /\ t \in SUBSET S
    BY <1>2, <1>3, <2>1
  <2>3. SumOf(f, t) \in Int /\ SumOf(g, t) \in Int
    BY <2>1, <2>2, SumType
  <2> QED
    BY <1>3, <2>1, <2>2, <2>3
<1>6. /\ SumOf(f, s) = f[Some(s)] + SumOf(f, t)
      /\ SumOf(g, s) = g[Some(s)] + SumOf(g, t)
      /\ SumOf(h, s) = h[Some(s)] + SumOf(h, t)
  BY <1>3, <1>4, SumEquation
<1>7. SumOf(h, s) = SumOf(f, s) - SumOf(g, s)
  <2> HIDE DEF D, t
  <2> QED
    BY <1>5, <1>6
<1> QED
  BY <1>7

(* One term grows by a. *)
LEMMA SumRaised ==
  ASSUME NEW S, IsFiniteSet(S), NEW f, NEW g, NEW y \in S, NEW a \in Int,
         \A x \in S : f[x] \in Int /\ g[x] = f[x] + (IF x = y THEN a ELSE 0)
  PROVE  SumOf(g, S) = SumOf(f, S) + a
<1>1. /\ SumOf(f, S) = f[y] + SumOf(f, S \ {y})
      /\ SumOf(g, S) = g[y] + SumOf(g, S \ {y})
  <2>1. \A x \in S : f[x] \in Int /\ g[x] \in Int
    OBVIOUS
  <2> QED
    BY <2>1, SumWithout
<1>2. SumOf(g, S \ {y}) = SumOf(f, S \ {y}) /\ SumOf(f, S \ {y}) \in Int
  <2>1. IsFiniteSet(S \ {y}) /\ \A x \in S \ {y} : g[x] = f[x] /\ f[x] \in Int
    BY FS_Subset
  <2> QED
    BY <2>1, SumSame, SumType
<1> QED
  BY <1>1, <1>2

-----------------------------------------------------------------------------
(* What a plan makes everybody pay and receive *)

(* What the plan s makes p pay (role "from") or receive (role "to"). *)
Amount(s, role, p, i) == IF s[i][role] = p THEN s[i].amount ELSE 0
Amounts(s, role, p) == [i \in DOMAIN s |-> Amount(s, role, p, i)]
Paid(s, role, p) == MapThenSumSet(LAMBDA i : Amount(s, role, p, i), DOMAIN s)

(* The two sums of the module are what the plan makes one pay and receive. *)
LEMMA PaidByRole ==
  ASSUME NEW p
  PROVE  /\ PaysIn(p) = Paid(plan, "from", p) /\ GetsIn(p) = Paid(plan, "to", p)
         /\ PaysIn(p)' = Paid(plan', "from", p) /\ GetsIn(p)' = Paid(plan', "to", p)
BY DEF PaysIn, GetsIn, Paid, Amount, MapThenSumSet, MapThenFoldSet

(* ... and sums of the kind the facts above are about. *)
LEMMA PaidIsSum ==
  ASSUME NEW s, NEW role, NEW p
  PROVE  Paid(s, role, p) = SumOf(Amounts(s, role, p), DOMAIN s)
<1> DEFINE S == DOMAIN s
           f == Amounts(s, role, p)
           Fold(g) == g = [t \in SUBSET S |->
                             IF t = {} THEN 0
                             ELSE Amount(s, role, p, Some(t)) + g[t \ {Some(t)}]]
<1>1. Paid(s, role, p) = (CHOOSE g : Fold(g))[S]
  BY DEF Paid, MapThenSumSet, MapThenFoldSet, Some
<1>2. ASSUME NEW t \in SUBSET S, t # {} PROVE f[Some(t)] = Amount(s, role, p, Some(t))
  BY <1>2, SomeIn DEF Amounts
<1> HIDE DEF f
<1>3. ASSUME NEW g PROVE Fold(g) <=> Folds(g, f, S)
  BY <1>2 DEF Folds
<1> HIDE DEF Fold, S
<1>4. (CHOOSE g : Fold(g)) = (CHOOSE g : Folds(g, f, S))
  BY <1>3
<1>5. SumOf(f, S) = (CHOOSE g : Folds(g, f, S))[S]
  BY FoldedSet
<1> QED
  BY <1>1, <1>4, <1>5 DEF S, f

(* The places of a plan. *)
LEMMA PlanDomain ==
  ASSUME NEW s \in Seq(Payment)
  PROVE  /\ DOMAIN s = 1 .. Len(s) /\ IsFiniteSet(DOMAIN s)
         /\ Len(s) \in Nat
         /\ \A i \in DOMAIN s : s[i] \in Payment
<1>1. /\ DOMAIN s = 1 .. Len(s) /\ Len(s) \in Nat
      /\ \A i \in 1 .. Len(s) : s[i] \in Payment
  OBVIOUS
<1>2. IsFiniteSet(1 .. Len(s))
  BY <1>1, FS_Interval
<1> QED
  BY <1>1, <1>2

(* What a plan makes one pay is a natural number. *)
LEMMA PaidNat ==
  ASSUME NEW s \in Seq(Payment), NEW role, NEW p PROVE Paid(s, role, p) \in Nat
<1> DEFINE f == Amounts(s, role, p)
<1>1. \A i \in DOMAIN s : f[i] \in Nat
  BY PlanDomain DEF Amounts, Amount, Payment
<1>2. IsFiniteSet(DOMAIN s)
  BY PlanDomain
<1> HIDE DEF f
<1>3. SumOf(f, DOMAIN s) \in Nat
  BY <1>1, <1>2, SumType
<1> QED
  BY <1>3, PaidIsSum DEF f

(* A payment is added to what its two parties pay and receive. *)
LEMMA PaidAppended ==
  ASSUME NEW s \in Seq(Payment), NEW e \in Payment, NEW role, NEW p
  PROVE  Paid(Append(s, e), role, p) =
           Paid(s, role, p) + (IF e[role] = p THEN e.amount ELSE 0)
<1> DEFINE r == Append(s, e)
           n == Len(s)
           f == Amounts(s, role, p)
           g == Amounts(r, role, p)
<1>1. /\ r \in Seq(Payment) /\ Len(r) = n + 1 /\ r[n + 1] = e
      /\ \A i \in 1 .. n : r[i] = s[i]
      /\ n \in Nat
  OBVIOUS
<1>2. /\ DOMAIN r = 1 .. (n + 1) /\ DOMAIN s = 1 .. n
      /\ IsFiniteSet(DOMAIN r) /\ IsFiniteSet(DOMAIN s)
  BY <1>1, PlanDomain
<1>3. /\ n + 1 \in DOMAIN r /\ DOMAIN r \ {n + 1} = DOMAIN s
      /\ DOMAIN s \subseteq DOMAIN r
  <2> HIDE DEF n, r
  <2> QED
    BY <1>1, <1>2
<1>4. /\ g[n + 1] = IF e[role] = p THEN e.amount ELSE 0
      /\ \A i \in DOMAIN s : g[i] = f[i]
      /\ \A i \in DOMAIN r : g[i] \in Int
  <2> HIDE DEF n, r
  <2>1. \A i \in DOMAIN r : r[i] \in Payment
    BY <1>1, PlanDomain
  <2>2. \A i \in DOMAIN r : r[i].amount \in Int
    BY <2>1 DEF Payment
  <2> QED
    BY <1>1, <1>2, <1>3, <2>2 DEF Amounts, Amount
<1>5. \A i \in DOMAIN s : f[i] \in Int /\ g[i] \in Int
  BY <1>3, <1>4
<1>6. Paid(r, role, p) = SumOf(g, DOMAIN r) /\ Paid(s, role, p) = SumOf(f, DOMAIN s)
  BY PaidIsSum
<1> HIDE DEF f, g, n, r
<1>7. SumOf(g, DOMAIN r) = g[n + 1] + SumOf(g, DOMAIN s)
  <2>1. SumOf(g, DOMAIN r) = g[n + 1] + SumOf(g, DOMAIN r \ {n + 1})
    BY <1>2, <1>3, <1>4, SumWithout
  <2> QED
    BY <1>3, <2>1
<1>8. SumOf(g, DOMAIN s) = SumOf(f, DOMAIN s) /\ SumOf(f, DOMAIN s) \in Int
  BY <1>2, <1>4, <1>5, SumSame, SumType
<1>9. g[n + 1] \in Int
  BY <1>3, <1>4
<1> QED
  BY <1>4, <1>6, <1>7, <1>8, <1>9 DEF r

(* The empty plan. *)
LEMMA PaidNothing == ASSUME NEW role, NEW p PROVE Paid(<<>>, role, p) = 0
<1>1. DOMAIN <<>> = {}
  OBVIOUS
<1> QED
  BY <1>1, PaidIsSum, SumEquation, FS_EmptySet

-----------------------------------------------------------------------------
(* Types, and nobody overpays *)

PlanTyped ==
  /\ balance \in [Participants -> Int]
  /\ debtors \in [Participants -> Nat]
  /\ creditors \in [Participants -> Nat]
  /\ plan \in Seq(Payment)

(* What a turn pays, and what it leaves of a map. *)
LEMMA TurnOf ==
  ASSUME PlanTyped, NEW d \in Participants, NEW c \in Participants, Suggest(d, c),
         NEW amount, amount = Smaller(debtors[d], creditors[c])
  PROVE  /\ amount \in Nat /\ amount > 0
         /\ amount <= debtors[d] /\ amount <= creditors[c]
         /\ amount = debtors[d] \/ amount = creditors[c]
         /\ balance' = balance
         /\ debtors' = [debtors EXCEPT ![d] = Kept(@ - amount)]
         /\ creditors' = [creditors EXCEPT ![c] = Kept(@ - amount)]
         /\ amount <= Cent => plan' = plan
         /\ amount > Cent =>
              plan' = Append(plan, [from |-> d, to |-> c, amount |-> amount])
         /\ [from |-> d, to |-> c, amount |-> amount] \in Payment
         /\ \A q \in Participants :
              debtors[q] <= debtors[d] /\ creditors[q] <= creditors[c]
<1>1. debtors[d] \in Nat /\ creditors[c] \in Nat /\ debtors[d] > 0 /\ creditors[c] > 0
  BY DEF PlanTyped, Suggest, Greatest
<1>2. /\ amount \in Nat /\ amount > 0
      /\ amount <= debtors[d] /\ amount <= creditors[c]
      /\ amount = debtors[d] \/ amount = creditors[c]
  BY <1>1 DEF Smaller
<1>3. Cent \in Nat
  BY SPAssumption
<1> QED
  BY <1>2, <1>3 DEF Suggest, Greatest, Reduced, Payment

(* The same for the entries of one participant. *)
LEMMA TurnMaps ==
  ASSUME PlanTyped, NEW d \in Participants, NEW c \in Participants, Suggest(d, c),
         NEW amount, amount = Smaller(debtors[d], creditors[c]),
         NEW p \in Participants
  PROVE  /\ amount \in Nat /\ amount > 0
         /\ amount <= debtors[d] /\ amount <= creditors[c]
         /\ amount = debtors[d] \/ amount = creditors[c]
         /\ balance' = balance
         /\ debtors[p]' = (IF p = d THEN Kept(debtors[d] - amount) ELSE debtors[p])
         /\ creditors[p]' =
              (IF p = c THEN Kept(creditors[c] - amount) ELSE creditors[p])
         /\ debtors[p] <= debtors[d] /\ creditors[p] <= creditors[c]
<1>1. /\ debtors' = [debtors EXCEPT ![d] = Kept(@ - amount)]
      /\ creditors' = [creditors EXCEPT ![c] = Kept(@ - amount)]
  BY DEF Suggest, Reduced
<1>2. /\ debtors[p]' = (IF p = d THEN Kept(debtors[d] - amount) ELSE debtors[p])
      /\ creditors[p]' = (IF p = c THEN Kept(creditors[c] - amount) ELSE creditors[p])
  BY <1>1 DEF PlanTyped
<1> QED
  BY <1>2, TurnOf

(* What is kept of a rest is never more, and less than a hundredth goes. *)
LEMMA KeptNat ==
  ASSUME NEW rest \in Nat
  PROVE  Kept(rest) \in Nat /\ Kept(rest) <= rest /\ (Kept(rest) = 0 => rest < Cent)
         /\ (rest = 0 => Kept(rest) = 0)
BY SPAssumption DEF Kept

(* The types. *)
LEMMA TypedInit == PlanInit => PlanTyped
<1> SUFFICES ASSUME PlanInit PROVE PlanTyped
  OBVIOUS
<1>1. plan \in Seq(Payment)
  BY DEF PlanInit
<1>2. balance \in [Participants -> Int]
  BY SPAssumption DEF PlanInit
<1> QED
  BY <1>1, <1>2 DEF PlanInit, PlanTyped, DebtOf, CreditOf

LEMMA TypedNext == PlanTyped /\ [PlanNext]_planVars => PlanTyped'
<1>1. ASSUME PlanTyped, NEW d \in Participants, NEW c \in Participants, Suggest(d, c)
      PROVE  PlanTyped'
  <2> DEFINE amount == Smaller(debtors[d], creditors[c])
             e == [from |-> d, to |-> c, amount |-> amount]
  <2>1. /\ amount \in Nat
        /\ amount <= debtors[d] /\ amount <= creditors[c]
        /\ balance' = balance
        /\ debtors' = [debtors EXCEPT ![d] = Kept(@ - amount)]
        /\ creditors' = [creditors EXCEPT ![c] = Kept(@ - amount)]
        /\ amount <= Cent => plan' = plan
        /\ amount > Cent => plan' = Append(plan, e)
        /\ e \in Payment
    BY <1>1, TurnOf
  <2> HIDE DEF amount, e
  <2>2. debtors[d] - amount \in Nat /\ creditors[c] - amount \in Nat
    BY <1>1, <2>1 DEF PlanTyped
  <2>3. Kept(debtors[d] - amount) \in Nat /\ Kept(creditors[c] - amount) \in Nat
    BY <2>2, KeptNat
  <2>4. plan' \in Seq(Payment)
    <3>1. CASE amount <= Cent
      BY <1>1, <2>1, <3>1 DEF PlanTyped
    <3>2. CASE amount > Cent
      <4>1. plan \in Seq(Payment)
        BY <1>1 DEF PlanTyped
      <4>2. Append(plan, e) \in Seq(Payment)
        BY <4>1, <2>1
      <4> QED
        BY <4>2, <2>1, <3>2
    <3> QED
      BY <3>1, <3>2, <2>1, SPAssumption
  <2> QED
    BY <1>1, <2>1, <2>3, <2>4 DEF PlanTyped
<1>2. ASSUME PlanTyped, UNCHANGED planVars PROVE PlanTyped'
  BY <1>2 DEF PlanTyped, planVars
<1> QED
  BY <1>1, <1>2 DEF PlanNext

LEMMA TypedInv == PlanSpec => []PlanTyped
BY TypedInit, TypedNext, PTL DEF PlanSpec

(* ... so what the plan of a state makes one pay is a natural number. *)
LEMMA PaidTyped ==
  ASSUME PlanTyped, NEW p PROVE PaysIn(p) \in Nat /\ GetsIn(p) \in Nat
BY PaidByRole, PaidNat DEF PlanTyped

(* What a turn makes of everybody's payments and entries. *)
LEMMA TurnPays ==
  ASSUME PlanTyped, NEW d \in Participants, NEW c \in Participants, Suggest(d, c),
         NEW amount, amount = Smaller(debtors[d], creditors[c]), NEW p
  PROVE  /\ amount <= Cent => PaysIn(p)' = PaysIn(p) /\ GetsIn(p)' = GetsIn(p)
         /\ amount > Cent => /\ PaysIn(p)' = PaysIn(p) + (IF p = d THEN amount ELSE 0)
                             /\ GetsIn(p)' = GetsIn(p) + (IF p = c THEN amount ELSE 0)
<1> DEFINE e == [from |-> d, to |-> c, amount |-> amount]
<1>1. /\ amount <= Cent => plan' = plan
      /\ amount > Cent => plan' = Append(plan, e)
      /\ e \in Payment
  BY TurnOf
<1>2. e["from"] = d /\ e["to"] = c /\ e.amount = amount
  OBVIOUS
<1>3. plan \in Seq(Payment)
  BY DEF PlanTyped
<1> HIDE DEF e
<1>4. /\ Paid(Append(plan, e), "from", p) =
           Paid(plan, "from", p) + (IF d = p THEN amount ELSE 0)
      /\ Paid(Append(plan, e), "to", p) =
           Paid(plan, "to", p) + (IF c = p THEN amount ELSE 0)
  BY <1>1, <1>2, <1>3, PaidAppended
<1> QED
  BY <1>1, <1>4, PaidByRole

(* Nobody overpays: at the start, and with every turn. *)
LEMMA OverpaysInit == PlanInit => NobodyOverpays
<1> SUFFICES ASSUME PlanInit, NEW p \in Participants
             PROVE  /\ PaysIn(p) + debtors[p] <= DebtOf(balance[p])
                    /\ GetsIn(p) + creditors[p] <= CreditOf(balance[p])
  BY DEF NobodyOverpays
<1>1. PaysIn(p) = 0 /\ GetsIn(p) = 0
  BY PaidByRole, PaidNothing DEF PlanInit
<1>2. /\ balance[p] \in Int
      /\ debtors[p] = DebtOf(balance[p])
      /\ creditors[p] = CreditOf(balance[p])
  BY SPAssumption DEF PlanInit
<1> QED
  BY <1>1, <1>2 DEF DebtOf, CreditOf

LEMMA OverpaysNext == PlanTyped /\ NobodyOverpays /\ [PlanNext]_planVars => NobodyOverpays'
<1>1. ASSUME PlanTyped, NobodyOverpays, NEW d \in Participants, NEW c \in Participants,
             Suggest(d, c), NEW p \in Participants
      PROVE  (/\ PaysIn(p) + debtors[p] <= DebtOf(balance[p])
              /\ GetsIn(p) + creditors[p] <= CreditOf(balance[p]))'
  <2>0. PICK amount : amount = Smaller(debtors[d], creditors[c])
    OBVIOUS
  <2>1. /\ amount \in Nat
        /\ amount <= debtors[d] /\ amount <= creditors[c]
        /\ balance' = balance
        /\ debtors[p]' = (IF p = d THEN Kept(debtors[d] - amount) ELSE debtors[p])
        /\ creditors[p]' = (IF p = c THEN Kept(creditors[c] - amount) ELSE creditors[p])
    BY <1>1, <2>0, TurnMaps
  <2>2. /\ amount <= Cent => PaysIn(p)' = PaysIn(p) /\ GetsIn(p)' = GetsIn(p)
        /\ amount > Cent => /\ PaysIn(p)' = PaysIn(p) + (IF p = d THEN amount ELSE 0)
                            /\ GetsIn(p)' = GetsIn(p) + (IF p = c THEN amount ELSE 0)
    BY <1>1, <2>0, TurnPays
  <2>3. PaysIn(p) \in Nat /\ GetsIn(p) \in Nat
    BY <1>1, PaidTyped
  <2>4. /\ PaysIn(p) + debtors[p] <= DebtOf(balance[p])
        /\ GetsIn(p) + creditors[p] <= CreditOf(balance[p])
        /\ balance[p] \in Int /\ debtors[p] \in Nat /\ creditors[p] \in Nat
        /\ DebtOf(balance[p]) \in Int /\ CreditOf(balance[p]) \in Int
    BY <1>1 DEF NobodyOverpays, PlanTyped, DebtOf, CreditOf
  <2>5. debtors[d] - amount \in Nat /\ creditors[c] - amount \in Nat
    BY <1>1, <2>1 DEF PlanTyped
  <2>6. /\ Kept(debtors[d] - amount) \in Nat
        /\ Kept(debtors[d] - amount) <= debtors[d] - amount
        /\ Kept(creditors[c] - amount) \in Nat
        /\ Kept(creditors[c] - amount) <= creditors[c] - amount
    BY <2>5, KeptNat
  <2>8. /\ DebtOf(balance[p])' = DebtOf(balance[p])
        /\ CreditOf(balance[p])' = CreditOf(balance[p])
    BY <2>1 DEF DebtOf, CreditOf
  <2>9. (PaysIn(p) + debtors[p] <= DebtOf(balance[p]))'
    <3>1. CASE p = d
      BY <3>1, <2>1, <2>2, <2>3, <2>4, <2>5, <2>6, <2>8, SPAssumption
    <3>2. CASE p # d
      BY <3>2, <2>1, <2>2, <2>3, <2>4, <2>8, SPAssumption
    <3> QED
      BY <3>1, <3>2
  <2>10. (GetsIn(p) + creditors[p] <= CreditOf(balance[p]))'
    <3>1. CASE p = c
      BY <3>1, <2>1, <2>2, <2>3, <2>4, <2>5, <2>6, <2>8, SPAssumption
    <3>2. CASE p # c
      BY <3>2, <2>1, <2>2, <2>3, <2>4, <2>8, SPAssumption
    <3> QED
      BY <3>1, <3>2
  <2> QED
    BY <2>9, <2>10
<1>2. ASSUME NobodyOverpays, UNCHANGED planVars PROVE NobodyOverpays'
  BY <1>2, PaidByRole DEF NobodyOverpays, planVars, DebtOf, CreditOf
<1> QED
  BY <1>1, <1>2 DEF NobodyOverpays, PlanNext

(* Nobody is told to pay more than he owes or promised more than he is *)
(* owed, counting what the two maps of the loop still hold.            *)
THEOREM NeverOverpaid == PlanSpec => []NobodyOverpays
BY TypedInv, OverpaysInit, OverpaysNext, PTL DEF PlanSpec

-----------------------------------------------------------------------------
(* The plan is short *)

(* The frame of PlanIsShort. *)
Unsettled == {p \in Participants : balance[p] # 0}

Short ==
  /\ Len(plan) + Cardinality(Entries(debtors)) + Cardinality(Entries(creditors))
       <= Cardinality(Unsettled)
  /\ (Len(plan) > 0) => Len(plan) <= Cardinality(Unsettled) - 1

(* Cardinalities are numbers. *)
LEMMA EntriesFinite ==
  ASSUME NEW m
  PROVE  /\ IsFiniteSet(Entries(m)) /\ Cardinality(Entries(m)) \in Nat
         /\ IsFiniteSet(Unsettled) /\ Cardinality(Unsettled) \in Nat
<1>1. Entries(m) \subseteq Participants /\ Unsettled \subseteq Participants
  BY DEF Entries, Unsettled
<1> QED
  BY <1>1, SPAssumption, FS_Subset, FS_CardinalityType

(* A map has no more entries after a turn, and one less where the entry *)
(* of the turn is used up. *)
LEMMA EntriesLeft ==
  ASSUME NEW m \in [Participants -> Nat], NEW n, NEW d \in Participants,
         NEW amount \in Nat, amount > 0, amount <= m[d],
         n = [m EXCEPT ![d] = Kept(m[d] - amount)]
  PROVE  /\ Cardinality(Entries(n)) <= Cardinality(Entries(m))
         /\ Cardinality(Entries(m)) >= 1
         /\ (amount = m[d]) => Cardinality(Entries(n)) <= Cardinality(Entries(m)) - 1
<1>1. m[d] \in Nat /\ m[d] > 0 /\ m[d] - amount \in Nat
  OBVIOUS
<1>2. d \in Entries(m)
  BY <1>1 DEF Entries
<1>3. \A p \in Participants : n[p] > 0 => m[p] > 0
  BY <1>1
<1>4. Entries(n) \subseteq Entries(m)
  BY <1>3 DEF Entries
<1>5. Cardinality(Entries(m) \ {d}) = Cardinality(Entries(m)) - 1
  BY <1>2, EntriesFinite, FS_RemoveElement
<1>6. IsFiniteSet(Entries(m) \ {d}) /\ Cardinality(Entries(m) \ {d}) \in Nat
  BY EntriesFinite, FS_Subset, FS_CardinalityType
<1>7. ASSUME amount = m[d] PROVE Entries(n) \subseteq Entries(m) \ {d}
  <2>1. n[d] = 0
    BY <1>1, <1>7, KeptNat
  <2> QED
    BY <1>4, <2>1 DEF Entries
<1>8. Cardinality(Entries(n)) <= Cardinality(Entries(m))
  BY <1>4, EntriesFinite, FS_Subset
<1>9. (amount = m[d]) => Cardinality(Entries(n)) <= Cardinality(Entries(m) \ {d})
  BY <1>6, <1>7, FS_Subset
<1> QED
  BY <1>5, <1>6, <1>8, <1>9, EntriesFinite

(* At first an entry for everybody who is not settled, in one of the maps. *)
LEMMA ShortInit == PlanInit => Short
<1> SUFFICES ASSUME PlanInit PROVE Short
  OBVIOUS
<1>1. \A p \in Participants : balance[p] \in Int
  BY SPAssumption DEF PlanInit
<1>2. /\ Entries(debtors) = {p \in Participants : balance[p] < 0}
      /\ Entries(creditors) = {p \in Participants : balance[p] > 0}
  BY <1>1 DEF PlanInit, Entries, DebtOf, CreditOf
<1>3. /\ Entries(debtors) \cup Entries(creditors) = Unsettled
      /\ Entries(debtors) \cap Entries(creditors) = {}
  BY <1>1, <1>2 DEF Unsettled
<1>4. Cardinality(Unsettled) =
        Cardinality(Entries(debtors)) + Cardinality(Entries(creditors))
          - Cardinality({})
  BY <1>3, EntriesFinite, FS_Union
<1>5. Cardinality({}) = 0
  BY FS_EmptySet
<1>6. Len(plan) = 0
  BY DEF PlanInit
<1> QED
  BY <1>4, <1>5, <1>6, EntriesFinite DEF Short

(* A turn uses up more entries than it adds payments, or as many. *)
LEMMA ShortNext == PlanTyped /\ Short /\ [PlanNext]_planVars => Short'
<1>1. ASSUME PlanTyped, Short, NEW d \in Participants, NEW c \in Participants, Suggest(d, c)
      PROVE  Short'
  <2>0. PICK amount : amount = Smaller(debtors[d], creditors[c])
    OBVIOUS
  <2>1. /\ amount \in Nat /\ amount > 0
        /\ amount <= debtors[d] /\ amount <= creditors[c]
        /\ amount = debtors[d] \/ amount = creditors[c]
        /\ balance' = balance
    BY <1>1, <2>0, TurnMaps
  <2>2. /\ debtors' = [debtors EXCEPT ![d] = Kept(debtors[d] - amount)]
        /\ creditors' = [creditors EXCEPT ![c] = Kept(creditors[c] - amount)]
    BY <1>1, <2>0 DEF Suggest, Reduced
  <2>3. debtors \in [Participants -> Nat] /\ creditors \in [Participants -> Nat]
    BY <1>1 DEF PlanTyped
  <2>4. Len(plan) \in Nat /\ Len(plan') \in Nat /\ Len(plan') <= Len(plan) + 1
    <3>1. plan \in Seq(Payment)
      BY <1>1 DEF PlanTyped
    <3>2. Len(plan') = Len(plan) + 1 \/ plan' = plan
      BY <1>1, <3>1 DEF Suggest
    <3> QED
      BY <3>1, <3>2
  <2> DEFINE D == Cardinality(Entries(debtors))
             C == Cardinality(Entries(creditors))
             E == Cardinality(Entries(debtors'))
             F == Cardinality(Entries(creditors'))
             n == Cardinality(Unsettled)
  <2>5. E <= D /\ D >= 1 /\ (amount = debtors[d] => E <= D - 1)
    BY <2>1, <2>2, <2>3, EntriesLeft
  <2>6. F <= C /\ C >= 1 /\ (amount = creditors[c] => F <= C - 1)
    BY <2>1, <2>2, <2>3, EntriesLeft
  <2>7. D \in Nat /\ C \in Nat /\ E \in Nat /\ F \in Nat /\ n \in Nat
    BY EntriesFinite
  <2>8. Len(plan) + D + C <= n
    BY <1>1 DEF Short
  <2>9. Unsettled' = Unsettled
    BY <2>1 DEF Unsettled
  <2>10. /\ Entries(debtors)' = Entries(debtors')
         /\ Entries(creditors)' = Entries(creditors')
    BY DEF Entries
  <2> HIDE DEF D, C, E, F, n
  <2>11. Len(plan') + E + F <= n /\ Len(plan') <= n - 1
    BY <2>1, <2>4, <2>5, <2>6, <2>7, <2>8
  <2> QED
    BY <2>9, <2>10, <2>11 DEF Short, E, F, n
<1>2. ASSUME Short, UNCHANGED planVars PROVE Short'
  BY <1>2 DEF Short, Unsettled, Entries, planVars
<1> QED
  BY <1>1, <1>2 DEF PlanNext

(* Short is enough. *)
LEMMA ShortEnough == PlanTyped /\ Short => PlanIsShort
<1> SUFFICES ASSUME PlanTyped, Short PROVE PlanIsShort
  OBVIOUS
<1>1. Len(plan) \in Nat
  BY DEF PlanTyped
<1>2. /\ Cardinality(Unsettled) \in Nat /\ Cardinality(Entries(debtors)) \in Nat
      /\ Cardinality(Entries(creditors)) \in Nat
  BY EntriesFinite
<1>3. Len(plan) <=
        (IF Cardinality(Unsettled) = 0 THEN 0 ELSE Cardinality(Unsettled) - 1)
  BY <1>1, <1>2 DEF Short
<1> QED
  BY <1>3 DEF PlanIsShort, Unsettled

(* The plan has fewer payments than participants who are not settled. *)
THEOREM PlanShort == PlanSpec => []PlanIsShort
<1>1. PlanInit => PlanTyped /\ Short
  BY TypedInit, ShortInit
<1>2. PlanTyped /\ Short /\ [PlanNext]_planVars => (PlanTyped /\ Short)'
  BY TypedNext, ShortNext
<1>3. PlanTyped /\ Short => PlanIsShort
  BY ShortEnough
<1> QED
  BY <1>1, <1>2, <1>3, PTL DEF PlanSpec

-----------------------------------------------------------------------------
(* The plan settles the event *)

(* A product, as a name: the provers reason about it only through TimesLess. *)
Times(k, n) == k * n

LEMMA TimesLess ==
  ASSUME NEW k \in Nat \ {0}, NEW n \in Nat, n > 0
  PROVE  /\ Times(k, n) \in Nat /\ Times(k, n - 1) \in Nat
         /\ Times(k, n - 1) = Times(k, n) - k
         /\ Times(k, n) > 0
         /\ n > 1 => k < Times(k, n)
<1>1. k * (n - 1) = k * n - k
  OBVIOUS
<1>2. k * (n - 1) >= 0 /\ k * n \in Int /\ k * (n - 1) \in Int
  OBVIOUS
<1>3. n > 1 => k * (n - 1) > 0
  OBVIOUS
<1> QED
  BY <1>1, <1>2, <1>3 DEF Times

(* Two amounts of everybody that add up to the same, of which everybody has *)
(* only one, and one of which is nowhere more than k. *)
LEMMA Spread ==
  ASSUME NEW S, IsFiniteSet(S), NEW k \in Nat \ {0}, NEW f, NEW g,
         \A x \in S : f[x] \in Nat /\ g[x] \in Nat,
         \A x \in S : f[x] = 0 \/ g[x] = 0,
         \A x \in S : f[x] <= k,
         SumOf(f, S) = SumOf(g, S),
         NEW y \in S
  PROVE  f[y] < k * Cardinality(S) /\ g[y] < k * Cardinality(S)
<1> DEFINE n == Cardinality(S)
           R == S \ {y}
<1>1. /\ n \in Nat /\ n > 0 /\ IsFiniteSet(R)
      /\ Cardinality(R) = n - 1
  <2>1. n \in Nat /\ IsFiniteSet(R) /\ Cardinality(R) = n - 1
    BY FS_CardinalityType, FS_RemoveElement
  <2>2. Cardinality(R) \in Nat
    BY <2>1, FS_CardinalityType
  <2> QED
    BY <2>1, <2>2
<1>2. /\ Times(k, n) \in Nat /\ Times(k, n - 1) \in Nat
      /\ Times(k, n - 1) = Times(k, n) - k
      /\ Times(k, n) > 0
      /\ n > 1 => k < Times(k, n)
  BY <1>1, TimesLess
<1>3. /\ SumOf(f, S) = f[y] + SumOf(f, R)
      /\ SumOf(g, S) = g[y] + SumOf(g, R)
  BY SumWithout
<1>4. SumOf(f, R) \in Nat /\ SumOf(g, R) \in Nat
  BY <1>1, SumType
<1>5. SumOf(f, R) <= Times(k, n - 1)
  <2>1. SumOf(f, R) <= k * Cardinality(R)
    BY <1>1, SumBounded
  <2> QED
    BY <1>1, <2>1 DEF Times
<1>6. n = 1 => SumOf(f, R) = 0 /\ SumOf(g, R) = 0
  <2>1. ASSUME n = 1 PROVE R = {}
    BY <1>1, <2>1, FS_EmptySet
  <2> QED
    BY <2>1, SumEquation, FS_EmptySet
<1>7. /\ f[y] \in Nat /\ g[y] \in Nat /\ f[y] <= k
      /\ f[y] = 0 \/ g[y] = 0
  OBVIOUS
<1>8. f[y] + SumOf(f, R) = g[y] + SumOf(g, R)
  BY <1>3
<1> HIDE DEF n, R
<1>9. g[y] < Times(k, n)
  <2>1. CASE g[y] = 0
    BY <1>2, <2>1
  <2>2. CASE f[y] = 0
    BY <1>2, <1>4, <1>5, <1>7, <1>8, <2>2
  <2> QED
    BY <1>7, <2>1, <2>2
<1>10. f[y] < Times(k, n)
  <2>1. CASE n = 1
    BY <1>2, <1>4, <1>6, <1>7, <1>8, <2>1
  <2>2. CASE n # 1
    BY <1>1, <1>2, <1>7, <2>2
  <2> QED
    BY <2>1, <2>2
<1> QED
  BY <1>9, <1>10 DEF Times, n

(* What is still open of a balance when the plan so far is carried out. *)
Unpaid == [p \in Participants |-> DebtOf(balance[p]) - PaysIn(p)]
Unreceived == [p \in Participants |-> CreditOf(balance[p]) - GetsIn(p)]

TotalOf(f) == SumOf(f, Participants)

(* What is open on both sides differs by the sum of the balances. *)
Balanced == TotalOf(balance) = TotalOf(Unreceived) - TotalOf(Unpaid)

(* What may have been dropped when an entry went. *)
Dropped(rest) == IF rest = 0 THEN Cent - 1 ELSE 0

(* The maps still hold all that is open, up to what was dropped last. *)
Full ==
  \A p \in Participants :
    /\ Unpaid[p] <= debtors[p] + Dropped(debtors[p])
    /\ Unreceived[p] <= creditors[p] + Dropped(creditors[p])

(* A hundredth for each participant. *)
Bound == Cent * Cardinality(Participants)
AllSmall(m) == \A p \in Participants : m[p] <= Cent

(* Nothing more will be suggested, and little is open. *)
Small ==
  /\ AllSmall(debtors) \/ AllSmall(creditors)
  /\ \A p \in Participants : Unpaid[p] < Bound /\ Unreceived[p] < Bound

(* The two phases of the loop. *)
Phases == (TotalOf(balance) = 0) => Full \/ Small

(* Open amounts are natural, on one side only, and say what is left. *)
LEMMA OpenTyped ==
  ASSUME PlanTyped, NobodyOverpays, NEW p \in Participants
  PROVE  /\ Unpaid[p] = DebtOf(balance[p]) - PaysIn(p)
         /\ Unreceived[p] = CreditOf(balance[p]) - GetsIn(p)
         /\ Unpaid[p] \in Nat /\ Unreceived[p] \in Nat
         /\ Unpaid[p] = 0 \/ Unreceived[p] = 0
         /\ balance[p] + PaysIn(p) - GetsIn(p) = Unreceived[p] - Unpaid[p]
         /\ balance[p] \in Int
<1>1. /\ PaysIn(p) + debtors[p] <= DebtOf(balance[p])
      /\ GetsIn(p) + creditors[p] <= CreditOf(balance[p])
  BY DEF NobodyOverpays
<1>2. balance[p] \in Int /\ debtors[p] \in Nat /\ creditors[p] \in Nat
  BY DEF PlanTyped
<1>3. PaysIn(p) \in Nat /\ GetsIn(p) \in Nat
  BY PaidTyped
<1>4. /\ Unpaid[p] = DebtOf(balance[p]) - PaysIn(p)
      /\ Unreceived[p] = CreditOf(balance[p]) - GetsIn(p)
  BY DEF Unpaid, Unreceived
<1>5. /\ DebtOf(balance[p]) \in Nat /\ CreditOf(balance[p]) \in Nat
      /\ CreditOf(balance[p]) - DebtOf(balance[p]) = balance[p]
      /\ DebtOf(balance[p]) = 0 \/ CreditOf(balance[p]) = 0
  BY <1>2 DEF DebtOf, CreditOf
<1> QED
  BY <1>1, <1>2, <1>3, <1>4, <1>5

(* At the end of the first phase little is open on both sides. *)
LEMMA LittleOpen ==
  ASSUME PlanTyped, NobodyOverpays, Balanced, Full, TotalOf(balance) = 0,
         AllSmall(debtors) \/ AllSmall(creditors)
  PROVE  Small
<1> SUFFICES ASSUME NEW p \in Participants
             PROVE  Unpaid[p] < Bound /\ Unreceived[p] < Bound
  BY DEF Small
<1>1. \A q \in Participants : /\ Unpaid[q] \in Nat /\ Unreceived[q] \in Nat
                              /\ Unpaid[q] = 0 \/ Unreceived[q] = 0
  BY OpenTyped
<1>2. SumOf(Unpaid, Participants) = SumOf(Unreceived, Participants)
  <2>1. SumOf(Unpaid, Participants) \in Int /\ SumOf(Unreceived, Participants) \in Int
    BY <1>1, SPAssumption, SumType
  <2> QED
    BY <2>1 DEF Balanced, TotalOf
<1>3. CASE AllSmall(debtors)
  <2>1. \A q \in Participants : Unpaid[q] <= Cent
    BY <1>1, <1>3, SPAssumption DEF Full, AllSmall, Dropped, PlanTyped
  <2> QED
    BY <1>1, <1>2, <2>1, SPAssumption, Spread DEF Bound
<1>4. CASE AllSmall(creditors)
  <2>1. \A q \in Participants : Unreceived[q] <= Cent
    BY <1>1, <1>4, SPAssumption DEF Full, AllSmall, Dropped, PlanTyped
  <2> QED
    BY <1>1, <1>2, <2>1, SPAssumption, Spread DEF Bound
<1> QED
  BY <1>3, <1>4

(* At the start everything is open. *)
LEMMA OpenInit ==
  ASSUME PlanInit
  PROVE  \A p \in Participants :
           /\ Unpaid[p] = DebtOf(balance[p]) /\ Unreceived[p] = CreditOf(balance[p])
           /\ balance[p] \in Int
           /\ debtors[p] = DebtOf(balance[p]) /\ creditors[p] = CreditOf(balance[p])
<1> SUFFICES ASSUME NEW p \in Participants
             PROVE  /\ Unpaid[p] = DebtOf(balance[p])
                    /\ Unreceived[p] = CreditOf(balance[p])
                    /\ balance[p] \in Int
                    /\ debtors[p] = DebtOf(balance[p])
                    /\ creditors[p] = CreditOf(balance[p])
  OBVIOUS
<1>1. PaysIn(p) = 0 /\ GetsIn(p) = 0
  BY PaidByRole, PaidNothing DEF PlanInit
<1>2. balance[p] \in Int
  BY SPAssumption DEF PlanInit
<1>3. debtors[p] = DebtOf(balance[p]) /\ creditors[p] = CreditOf(balance[p])
  BY DEF PlanInit
<1>4. DebtOf(balance[p]) \in Int /\ CreditOf(balance[p]) \in Int
  BY <1>2 DEF DebtOf, CreditOf
<1> QED
  BY <1>1, <1>2, <1>3, <1>4 DEF Unpaid, Unreceived

LEMMA BalancedInit == PlanInit => Balanced
<1> SUFFICES ASSUME PlanInit PROVE Balanced
  OBVIOUS
<1>1. \A p \in Participants :
        /\ Unpaid[p] \in Int /\ Unreceived[p] \in Int
        /\ balance[p] = Unreceived[p] - Unpaid[p]
  BY OpenInit DEF DebtOf, CreditOf
<1> QED
  BY <1>1, SPAssumption, SumMinus DEF Balanced, TotalOf

LEMMA PhasesInit == PlanInit => Phases
<1> SUFFICES ASSUME PlanInit PROVE Full
  BY DEF Phases
<1> QED
  BY OpenInit, SPAssumption DEF Full, DebtOf, CreditOf, Dropped

(* What a turn with a suggestion makes of what is open. *)
LEMMA OpenNext ==
  ASSUME PlanTyped, NobodyOverpays, NEW d \in Participants, NEW c \in Participants,
         Suggest(d, c),
         NEW amount, amount = Smaller(debtors[d], creditors[c]),
         NEW p \in Participants
  PROVE  /\ amount <= Cent => /\ Unpaid'[p] = Unpaid[p]
                              /\ Unreceived'[p] = Unreceived[p]
         /\ amount > Cent =>
              /\ Unpaid'[p] = Unpaid[p] - (IF p = d THEN amount ELSE 0)
              /\ Unreceived'[p] = Unreceived[p] - (IF p = c THEN amount ELSE 0)
<1>1. /\ amount <= Cent => PaysIn(p)' = PaysIn(p) /\ GetsIn(p)' = GetsIn(p)
      /\ amount > Cent => /\ PaysIn(p)' = PaysIn(p) + (IF p = d THEN amount ELSE 0)
                          /\ GetsIn(p)' = GetsIn(p) + (IF p = c THEN amount ELSE 0)
  BY TurnPays
<1>2. amount \in Nat /\ balance' = balance
  BY TurnMaps
<1>3. /\ Unpaid[p] = DebtOf(balance[p]) - PaysIn(p)
      /\ Unreceived[p] = CreditOf(balance[p]) - GetsIn(p)
      /\ balance[p] \in Int
  BY OpenTyped
<1>4. PaysIn(p) \in Nat /\ GetsIn(p) \in Nat
  BY PaidTyped
<1>5. /\ Unpaid'[p] = DebtOf(balance'[p]) - PaysIn(p)'
      /\ Unreceived'[p] = CreditOf(balance'[p]) - GetsIn(p)'
  BY DEF Unpaid, Unreceived
<1>6. DebtOf(balance[p]) \in Int /\ CreditOf(balance[p]) \in Int
  BY <1>3 DEF DebtOf, CreditOf
<1> QED
  BY <1>1, <1>2, <1>3, <1>4, <1>5, <1>6, SPAssumption

(* A payment closes as much on both sides. *)
LEMMA BalancedNext ==
  ASSUME PlanTyped, NobodyOverpays, Balanced,
         NEW d \in Participants, NEW c \in Participants, Suggest(d, c)
  PROVE  Balanced'
<1>0. PICK amount : amount = Smaller(debtors[d], creditors[c])
  OBVIOUS
<1>1. amount \in Nat /\ balance' = balance
  BY <1>0, TurnMaps
<1>2. \A p \in Participants : Unpaid[p] \in Int /\ Unreceived[p] \in Int
  BY OpenTyped
<1>3. TotalOf(Unpaid) \in Int /\ TotalOf(Unreceived) \in Int
  BY <1>2, SPAssumption, SumType DEF TotalOf
<1>4. CASE amount <= Cent
  <2>1. \A p \in Participants : Unpaid'[p] = Unpaid[p] /\ Unreceived'[p] = Unreceived[p]
    BY <1>0, <1>4, OpenNext
  <2>2. SumOf(Unpaid', Participants) = SumOf(Unpaid, Participants)
        /\ SumOf(Unreceived', Participants) = SumOf(Unreceived, Participants)
    BY <2>1, SPAssumption, SumSame
  <2> QED
    BY <1>1, <2>2 DEF Balanced, TotalOf
<1>5. CASE amount > Cent
  <2>0. -amount \in Int
    BY <1>1
  <2>1. \A p \in Participants :
          /\ Unpaid'[p] = Unpaid[p] - (IF p = d THEN amount ELSE 0)
          /\ Unreceived'[p] = Unreceived[p] - (IF p = c THEN amount ELSE 0)
    BY <1>0, <1>5, OpenNext
  <2>2. \A p \in Participants :
          /\ Unpaid[p] \in Int /\ Unreceived[p] \in Int
          /\ Unpaid'[p] = Unpaid[p] + (IF p = d THEN -amount ELSE 0)
          /\ Unreceived'[p] = Unreceived[p] + (IF p = c THEN -amount ELSE 0)
    BY <1>1, <1>2, <2>1
  <2>3. SumOf(Unpaid', Participants) = SumOf(Unpaid, Participants) + (-amount)
    BY <2>0, <2>2, SPAssumption, SumRaised
  <2>4. SumOf(Unreceived', Participants) = SumOf(Unreceived, Participants) + (-amount)
    BY <2>0, <2>2, SPAssumption, SumRaised
  <2> QED
    BY <1>1, <1>3, <2>3, <2>4 DEF Balanced, TotalOf
<1> QED
  BY <1>1, <1>4, <1>5, SPAssumption

(* A suggested payment leaves in the maps all that is open. *)
LEMMA FullNext ==
  ASSUME PlanTyped, NobodyOverpays, Full, NEW d \in Participants, NEW c \in Participants,
         Suggest(d, c), Smaller(debtors[d], creditors[c]) > Cent
  PROVE  Full'
<1>0. PICK amount : amount = Smaller(debtors[d], creditors[c])
  OBVIOUS
<1> SUFFICES ASSUME NEW p \in Participants
             PROVE  /\ Unpaid'[p] <= debtors'[p] + Dropped(debtors'[p])
                    /\ Unreceived'[p] <= creditors'[p] + Dropped(creditors'[p])
  BY DEF Full, Dropped
<1>1. /\ amount \in Nat /\ amount > 0
      /\ amount <= debtors[d] /\ amount <= creditors[c]
      /\ debtors'[p] = (IF p = d THEN Kept(debtors[d] - amount) ELSE debtors[p])
      /\ creditors'[p] = (IF p = c THEN Kept(creditors[c] - amount) ELSE creditors[p])
  BY <1>0, TurnMaps
<1>2. /\ Unpaid'[p] = Unpaid[p] - (IF p = d THEN amount ELSE 0)
      /\ Unreceived'[p] = Unreceived[p] - (IF p = c THEN amount ELSE 0)
  BY <1>0, OpenNext
<1>3. /\ Unpaid[p] <= debtors[p] + Dropped(debtors[p])
      /\ Unreceived[p] <= creditors[p] + Dropped(creditors[p])
  BY DEF Full
<1>4. /\ Unpaid[p] \in Nat /\ Unreceived[p] \in Nat
      /\ debtors[p] \in Nat /\ creditors[p] \in Nat
      /\ Cent \in Nat \ {0}
  BY OpenTyped, SPAssumption DEF PlanTyped
<1>5. Unpaid'[p] <= debtors'[p] + Dropped(debtors'[p])
  <2>1. CASE p = d
    BY <2>1, <1>1, <1>2, <1>3, <1>4 DEF Kept, Dropped
  <2>2. CASE p # d
    BY <2>2, <1>1, <1>2, <1>3, <1>4
  <2> QED
    BY <2>1, <2>2
<1>6. Unreceived'[p] <= creditors'[p] + Dropped(creditors'[p])
  <2>1. CASE p = c
    BY <2>1, <1>1, <1>2, <1>3, <1>4 DEF Kept, Dropped
  <2>2. CASE p # c
    BY <2>2, <1>1, <1>2, <1>3, <1>4
  <2> QED
    BY <2>1, <2>2
<1> QED
  BY <1>5, <1>6

(* With little open and one side small, a turn suggests nothing. *)
LEMMA SmallNext ==
  ASSUME PlanTyped, NobodyOverpays, Small, NEW d \in Participants, NEW c \in Participants,
         Suggest(d, c)
  PROVE  Small'
<1>0. PICK amount : amount = Smaller(debtors[d], creditors[c])
  OBVIOUS
<1>1. /\ amount \in Nat /\ amount <= debtors[d] /\ amount <= creditors[c]
  BY <1>0, TurnMaps
<1>2. amount <= Cent
  BY <1>1, SPAssumption DEF Small, AllSmall, PlanTyped
<1>3. \A p \in Participants : Unpaid'[p] = Unpaid[p] /\ Unreceived'[p] = Unreceived[p]
  BY <1>0, <1>2, OpenNext
<1>4. \A p \in Participants :
        /\ debtors'[p] \in Nat /\ debtors'[p] <= debtors[p]
        /\ creditors'[p] \in Nat /\ creditors'[p] <= creditors[p]
  <2> SUFFICES ASSUME NEW p \in Participants
               PROVE  /\ debtors'[p] \in Nat /\ debtors'[p] <= debtors[p]
                      /\ creditors'[p] \in Nat /\ creditors'[p] <= creditors[p]
    OBVIOUS
  <2>1. /\ debtors'[p] = (IF p = d THEN Kept(debtors[d] - amount) ELSE debtors[p])
        /\ creditors'[p] = (IF p = c THEN Kept(creditors[c] - amount) ELSE creditors[p])
    BY <1>0, TurnMaps
  <2>2. /\ debtors[d] - amount \in Nat /\ creditors[c] - amount \in Nat
        /\ debtors[p] \in Nat /\ creditors[p] \in Nat
        /\ debtors[d] \in Nat /\ creditors[c] \in Nat
    BY <1>1 DEF PlanTyped
  <2>3. /\ Kept(debtors[d] - amount) \in Nat
        /\ Kept(debtors[d] - amount) <= debtors[d] - amount
        /\ Kept(creditors[c] - amount) \in Nat
        /\ Kept(creditors[c] - amount) <= creditors[c] - amount
    BY <2>2, KeptNat
  <2> QED
    BY <1>1, <2>1, <2>2, <2>3
<1>5. /\ AllSmall(debtors) => AllSmall(debtors')
      /\ AllSmall(creditors) => AllSmall(creditors')
  BY <1>4, SPAssumption DEF AllSmall, PlanTyped
<1>6. /\ AllSmall(debtors)' = AllSmall(debtors')
      /\ AllSmall(creditors)' = AllSmall(creditors')
  BY DEF AllSmall
<1> QED
  BY <1>3, <1>5, <1>6 DEF Small, Bound

(* Every turn stays in its phase or ends the first one. *)
LEMMA PhasesNext ==
  ASSUME PlanTyped, NobodyOverpays, Balanced, Phases,
         NEW d \in Participants, NEW c \in Participants, Suggest(d, c)
  PROVE  Phases'
<1>0. PICK amount : amount = Smaller(debtors[d], creditors[c])
  OBVIOUS
<1>1. /\ amount \in Nat /\ balance' = balance
      /\ amount = debtors[d] \/ amount = creditors[c]
      /\ \A p \in Participants :
           debtors[p] <= debtors[d] /\ creditors[p] <= creditors[c]
  BY <1>0, TurnMaps
<1>2. TotalOf(balance)' = TotalOf(balance)
  BY <1>1 DEF TotalOf
<1> SUFFICES ASSUME TotalOf(balance) = 0 PROVE Full' \/ Small'
  BY <1>2 DEF Phases
<1>3. Full \/ Small
  BY DEF Phases
<1>4. CASE Small
  BY <1>4, SmallNext
<1>5. CASE Full /\ amount > Cent
  BY <1>0, <1>5, FullNext
<1>6. CASE Full /\ amount <= Cent
  <2>1. AllSmall(debtors) \/ AllSmall(creditors)
    BY <1>1, <1>6, SPAssumption DEF AllSmall, PlanTyped
  <2>2. Small
    BY <1>6, <2>1, LittleOpen
  <2> QED
    BY <2>2, SmallNext
<1> QED
  BY <1>1, <1>3, <1>4, <1>5, <1>6, SPAssumption

(* The inductive invariant. *)
Open == PlanTyped /\ NobodyOverpays /\ Balanced /\ Phases

LEMMA OpenStep == Open /\ [PlanNext]_planVars => Open'
<1>1. ASSUME Open, PlanNext PROVE Balanced' /\ Phases'
  BY <1>1, BalancedNext, PhasesNext DEF Open, PlanNext
<1>2. ASSUME Open, UNCHANGED planVars PROVE Balanced' /\ Phases'
  <2>1. Unpaid' = Unpaid /\ Unreceived' = Unreceived
    BY <1>2, PaidByRole DEF planVars, Unpaid, Unreceived, DebtOf, CreditOf
  <2>2. balance' = balance /\ debtors' = debtors /\ creditors' = creditors
    BY <1>2 DEF planVars
  <2> QED
    BY <1>2, <2>1, <2>2
    DEF Open, Balanced, Phases, Full, Small, TotalOf, AllSmall, Bound, Dropped
<1> QED
  BY <1>1, <1>2, TypedNext, OverpaysNext DEF Open

(* The sum of the module, as a sum of this one. *)
LEMMA SumIsTotal == Sum(LAMBDA p : balance[p]) = TotalOf(balance)
BY DEF Sum, TotalOf, SumOf, MapThenSumSet, MapThenFoldSet

(* The end of the loop is the end of the first phase, or after it. *)
LEMMA OpenSettles == Open => PlanSettles
<1> SUFFICES ASSUME Open, Done, TotalOf(balance) = 0, NEW p \in Participants
             PROVE  LET left == balance[p] + PaysIn(p) - GetsIn(p)
                    IN left < Cent * Cardinality(Participants)
                       /\ -left < Cent * Cardinality(Participants)
  BY SumIsTotal DEF PlanSettles
<1>1. Small
  <2>1. CASE Small
    BY <2>1
  <2>2. CASE Full
    <3>1. AllSmall(debtors) \/ AllSmall(creditors)
      BY SPAssumption DEF Open, PlanTyped, Done, Entries, AllSmall
    <3> QED
      BY <2>2, <3>1, LittleOpen DEF Open
  <2> QED
    BY <2>1, <2>2 DEF Open, Phases
<1>2. Unpaid[p] < Bound /\ Unreceived[p] < Bound
  BY <1>1 DEF Small
<1>3. /\ Unpaid[p] \in Nat /\ Unreceived[p] \in Nat
      /\ balance[p] + PaysIn(p) - GetsIn(p) = Unreceived[p] - Unpaid[p]
  BY OpenTyped DEF Open
<1>4. Bound \in Int
  BY SPAssumption, FS_CardinalityType DEF Bound
<1>5. /\ Unreceived[p] - Unpaid[p] < Bound
      /\ -(Unreceived[p] - Unpaid[p]) < Bound
  BY <1>2, <1>3, <1>4
<1> QED
  BY <1>3, <1>5 DEF Bound

(* When the balances cancel, the finished plan leaves nobody with as much *)
(* as a hundredth for each participant.                                   *)
THEOREM PlanSettled == PlanSpec => []PlanSettles
<1>1. PlanInit => Open
  BY TypedInit, OverpaysInit, BalancedInit, PhasesInit DEF Open
<1> QED
  BY <1>1, OpenStep, OpenSettles, PTL DEF PlanSpec

(* Every reachable state is well typed. *)
THEOREM PlanTypeCorrect == PlanSpec => []PlanTypeOK
<1> DEFINE Kind == balance \in [Participants -> Balances]
<1>1. PlanInit => Kind
  BY DEF PlanInit
<1>2. Kind /\ [PlanNext]_planVars => Kind'
  BY DEF PlanNext, Suggest, planVars
<1>3. PlanTyped /\ Kind => PlanTypeOK
  BY DEF PlanTyped, PlanTypeOK
<1> QED
  BY <1>1, <1>2, <1>3, TypedInv, PTL DEF PlanSpec

-----------------------------------------------------------------------------
(* The expense form *)

(* What rounding to the nearest number does. *)
LEMMA RoundedIs ==
  ASSUME NEW m \in Int, NEW d \in Nat \ {0}
  PROVE  /\ Rounded(m, d) \in Int
         /\ m \in Nat => Rounded(m, d) \in Nat
         /\ 2 * (d * Rounded(m, d)) <= 2 * m + d
         /\ 2 * m + d < 2 * (d * Rounded(m, d)) + 2 * d
<1>1. PICK e : e = 2 * d
  OBVIOUS
<1>2. PICK k : k = 2 * m + d
  OBVIOUS
<1>3. e \in Nat \ {0} /\ k \in Int /\ (m \in Nat => k \in Nat)
  BY <1>1, <1>2
<1>4. PICK q : q = k \div e
  OBVIOUS
<1>5. q \in Int /\ e * q <= k /\ k < e * q + e
  BY <1>3, <1>4
<1>6. m \in Nat => q \in Nat
  BY <1>3, <1>5
<1>7. e * q = 2 * (d * q)
  BY <1>1, <1>5
<1> QED
  BY <1>1, <1>2, <1>4, <1>5, <1>6, <1>7 DEF Rounded

(* Two numbers in an interval of that length are equal. *)
LEMMA NearestIs ==
  ASSUME NEW m \in Int, NEW d \in Nat \ {0}, NEW r \in Int,
         2 * (d * r) <= 2 * m + d, 2 * m + d < 2 * (d * r) + 2 * d
  PROVE  Rounded(m, d) = r
<1>1. PICK q : q = Rounded(m, d)
  OBVIOUS
<1>2. q \in Int /\ 2 * (d * q) <= 2 * m + d /\ 2 * m + d < 2 * (d * q) + 2 * d
  BY <1>1, RoundedIs
<1>3. ASSUME NEW s \in Int, NEW t \in Int, s < t PROVE d * s + d <= d * t
  <2>1. PICK k : k = t - (s + 1)
    OBVIOUS
  <2>2. k \in Nat /\ t = k + s + 1
    BY <1>3, <2>1
  <2>3. d * t = d * k + d * s + d /\ d * k \in Nat /\ d * s \in Int
    BY <1>3, <2>2
  <2> QED
    BY <2>3
<1>4. d * q \in Int /\ d * r \in Int
  BY <1>2
<1>5. ~(q < r)
  BY <1>2, <1>3, <1>4
<1>6. ~(r < q)
  BY <1>2, <1>3, <1>4
<1> QED
  BY <1>1, <1>2, <1>5, <1>6

(* Rounding does not see a common factor. *)
LEMMA RoundedReduced ==
  ASSUME NEW m \in Nat, NEW d \in Nat \ {0}, NEW k \in Nat \ {0}
  PROVE  Rounded(m * k, d * k) = Rounded(m, d)
<1>1. PICK q : q = Rounded(m, d)
  OBVIOUS
<1>2. q \in Nat /\ 2 * (d * q) <= 2 * m + d /\ 2 * m + d < 2 * (d * q) + 2 * d
  BY <1>1, RoundedIs
<1>3. PICK x : x = d * q
  OBVIOUS
<1>4. x \in Nat /\ 2 * x <= 2 * m + d /\ 2 * m + d < 2 * x + 2 * d
  BY <1>2, <1>3
<1>5. (2 * x) * k <= (2 * m + d) * k /\ (2 * m + d) * k < (2 * x + 2 * d) * k
  BY <1>4
<1>6. /\ (2 * x) * k = 2 * (x * k)
      /\ (2 * m + d) * k = 2 * (m * k) + d * k
      /\ (2 * x + 2 * d) * k = 2 * (x * k) + 2 * (d * k)
  BY <1>4
<1>7. x * k = (d * k) * q
  BY <1>2, <1>3
<1>8. m * k \in Nat /\ d * k \in Nat \ {0}
  OBVIOUS
<1> QED
  BY <1>1, <1>2, <1>5, <1>6, <1>7, <1>8, NearestIs

(* A ratio of a whole. *)
LEMMA RatioIs ==
  ASSUME NEW W \in Nat \ {0}, NEW w \in Int
  PROVE  /\ SplitRatio(w, W) \in Int
         /\ w \in Nat => SplitRatio(w, W) \in Nat
         /\ 2 * (W * SplitRatio(w, W)) - 20000 * w <= W
         /\ -W <= 2 * (W * SplitRatio(w, W)) - 20000 * w
         /\ w <= W => SplitRatio(w, W) <= 10000
<1>1. PICK r : r = SplitRatio(w, W)
  OBVIOUS
<1>2. /\ r \in Int /\ 2 * (W * r) <= 2 * (10000 * w) + W
      /\ 2 * (10000 * w) + W < 2 * (W * r) + 2 * W
      /\ w \in Nat => r \in Nat
  <2>1. 10000 * w \in Int /\ (w \in Nat => 10000 * w \in Nat)
    OBVIOUS
  <2> QED
    BY <1>1, <2>1, RoundedIs DEF SplitRatio
<1>3. ASSUME w <= W PROVE r <= 10000
  <2>1. ASSUME r >= 10001 PROVE FALSE
    <3>1. W * r >= W * 10001
      <4>1. PICK k : k = r - 10001
        OBVIOUS
      <4>2. k \in Nat /\ r = k + 10001
        BY <1>2, <2>1, <4>1
      <4>3. W * r = W * k + W * 10001 /\ W * k \in Nat
        BY <4>2
      <4> QED
        BY <4>3
    <3>2. W * 10001 = 10001 * W /\ W * r \in Int
      BY <1>2
    <3> QED
      BY <1>2, <1>3, <3>1, <3>2
  <2> QED
    BY <1>2, <2>1
<1>4. W * r \in Int
  BY <1>2
<1> QED
  BY <1>1, <1>2, <1>3, <1>4

LEMMA RatioInt ==
  ASSUME NEW W \in Nat \ {0}, NEW w \in Int PROVE SplitRatio(w, W) \in Int
BY RatioIs

LEMMA RatioNat ==
  ASSUME NEW W \in Nat \ {0}, NEW w \in Nat PROVE SplitRatio(w, W) \in Nat
BY RatioIs

LEMMA RatioOfPart ==
  ASSUME NEW W \in Nat \ {0}, NEW w \in Nat, w <= W PROVE SplitRatio(w, W) \in RatioRange
<1>1. PICK r : r = SplitRatio(w, W)
  OBVIOUS
<1>2. r \in Nat
  BY <1>1, RatioNat
<1>3. r <= 10000
  BY <1>1, RatioIs
<1>4. r \in RatioRange
  BY <1>2, <1>3 DEF RatioRange
<1> QED
  BY <1>1, <1>4

LEMMA RoundedNat ==
  ASSUME NEW m \in Nat, NEW d \in Nat \ {0} PROVE Rounded(m, d) \in Nat
BY RoundedIs

(* The ratios of a bill add up to a whole but for half a unit each. *)
LEMMA RatiosSum ==
  ASSUME NEW S, IsFiniteSet(S), NEW W \in Nat \ {0}, NEW w, NEW r,
         \A x \in S : w[x] \in Int /\ r[x] = SplitRatio(w[x], W)
  PROVE  /\ SumOf(r, S) \in Int /\ SumOf(w, S) \in Int
         /\ 2 * (W * SumOf(r, S)) - 20000 * SumOf(w, S) <= W * Cardinality(S)
         /\ -(W * Cardinality(S)) <= 2 * (W * SumOf(r, S)) - 20000 * SumOf(w, S)
<1> DEFINE Err(s) == 2 * (W * SumOf(r, s)) - 20000 * SumOf(w, s)
           Near(s) == Err(s) <= W * Cardinality(s) /\ -(W * Cardinality(s)) <= Err(s)
           D == {s \in SUBSET S : ~Near(s)}
<1>0. \A x \in S : r[x] \in Int
  <2> SUFFICES ASSUME NEW x \in S PROVE r[x] \in Int
    OBVIOUS
  <2>1. w[x] \in Int /\ r[x] = SplitRatio(w[x], W)
    OBVIOUS
  <2>2. SplitRatio(w[x], W) \in Int
    BY <2>1, RatioInt
  <2> QED
    BY <2>1, <2>2
<1>1. SUFFICES ASSUME D # {} PROVE FALSE
  <2>1. SumOf(r, S) \in Int /\ SumOf(w, S) \in Int
    BY <1>0, SumType
  <2>2. D = {} => Near(S)
    OBVIOUS
  <2> HIDE DEF D
  <2> QED
    BY <2>1, <2>2
<1>2. PICK s \in D : \A t \in D : t \subseteq s => t = s
  <2> D \subseteq SUBSET S
    OBVIOUS
  <2> HIDE DEF D
  <2> QED
    BY <1>1, SmallestSet
<1>3. s \in SUBSET S /\ IsFiniteSet(s) /\ ~Near(s)
  BY FS_Subset
<1>4. s # {}
  <2> HIDE DEF D, Near
  <2>1. ASSUME s = {} PROVE SumOf(r, s) = 0 /\ SumOf(w, s) = 0 /\ Cardinality(s) = 0
    <3>1. SumOf(r, s) = 0
      BY <1>3, <2>1, SumEquation
    <3>2. SumOf(w, s) = 0
      BY <1>3, <2>1, SumEquation
    <3>3. Cardinality(s) = 0
      BY <2>1, FS_EmptySet
    <3> QED
      BY <3>1, <3>2, <3>3
  <2>2. s = {} => Near(s)
    BY <2>1 DEF Near
  <2> QED
    BY <1>3, <2>2
<1> DEFINE t == s \ {Some(s)}
<1>5. /\ IsFiniteSet(t) /\ t \in SUBSET S /\ Some(s) \in S /\ Near(t)
      /\ Cardinality(s) = Cardinality(t) + 1 /\ Cardinality(t) \in Nat
  <2>1. Some(s) \in s /\ IsFiniteSet(t) /\ Cardinality(t) = Cardinality(s) - 1
    BY <1>3, <1>4, SomeIn, FS_RemoveElement
  <2>2. Cardinality(s) \in Nat /\ Cardinality(t) \in Nat
    BY <1>3, <2>1, FS_CardinalityType
  <2>3. t \in SUBSET S /\ t \notin D
    BY <1>2, <1>3, <2>1
  <2>4. Near(t)
    BY <2>3
  <2> HIDE DEF D, t, Near
  <2> QED
    BY <1>3, <2>1, <2>2, <2>3, <2>4
<1>6. /\ SumOf(r, s) = r[Some(s)] + SumOf(r, t)
      /\ SumOf(w, s) = w[Some(s)] + SumOf(w, t)
  <2> HIDE DEF D, Near
  <2>1. SumOf(r, s) = r[Some(s)] + SumOf(r, t)
    BY <1>3, <1>4, SumEquation
  <2>2. SumOf(w, s) = w[Some(s)] + SumOf(w, t)
    BY <1>3, <1>4, SumEquation
  <2> QED
    BY <2>1, <2>2
<1> HIDE DEF t, D
<1>7. PICK a, b, y, z, c : /\ a = r[Some(s)] /\ b = w[Some(s)]
                           /\ y = SumOf(r, t) /\ z = SumOf(w, t) /\ c = Cardinality(t)
  OBVIOUS
<1>8. /\ a \in Int /\ b \in Int /\ y \in Int /\ z \in Int /\ c \in Nat
      /\ a = SplitRatio(b, W)
  <2>1. y \in Int /\ z \in Int
    <3>1. \A x \in t : r[x] \in Int /\ w[x] \in Int
      BY <1>0, <1>5
    <3> QED
      BY <1>5, <1>7, <3>1, SumType
  <2> QED
    BY <1>0, <1>5, <1>7, <2>1
<1>9. 2 * (W * a) - 20000 * b <= W /\ -W <= 2 * (W * a) - 20000 * b
  BY <1>8, RatioIs
<1>10. 2 * (W * y) - 20000 * z <= W * c /\ -(W * c) <= 2 * (W * y) - 20000 * z
  BY <1>5, <1>7
<1>11. W * (a + y) = W * a + W * y /\ W * (c + 1) = W * c + W
       /\ W * a \in Int /\ W * y \in Int /\ W * c \in Nat
  BY <1>8
<1>12. /\ 2 * (W * (a + y)) - 20000 * (b + z) <= W * (c + 1)
       /\ -(W * (c + 1)) <= 2 * (W * (a + y)) - 20000 * (b + z)
  BY <1>8, <1>9, <1>10, <1>11
<1> QED
  BY <1>3, <1>5, <1>6, <1>7, <1>12

(* The number of ones is their sum. *)
LEMMA SumOfOnes ==
  ASSUME NEW S, IsFiniteSet(S), NEW f, NEW k \in Nat, \A x \in S : f[x] = k
  PROVE  SumOf(f, S) = k * Cardinality(S)
<1> DEFINE D == {s \in SUBSET S : SumOf(f, s) # k * Cardinality(s)}
<1>1. SUFFICES ASSUME D # {} PROVE FALSE
  OBVIOUS
<1>2. PICK s \in D : \A t \in D : t \subseteq s => t = s
  <2> D \subseteq SUBSET S
    OBVIOUS
  <2> HIDE DEF D
  <2> QED
    BY <1>1, SmallestSet
<1>3. s \in SUBSET S /\ IsFiniteSet(s) /\ SumOf(f, s) # k * Cardinality(s)
  BY FS_Subset
<1>4. s # {}
  <2>1. ASSUME s = {} PROVE SumOf(f, s) = 0 /\ Cardinality(s) = 0
    BY <1>3, <2>1, SumEquation, FS_EmptySet
  <2> HIDE DEF D
  <2> QED
    BY <1>3, <2>1
<1> DEFINE t == s \ {Some(s)}
<1>5. SumOf(f, s) = k + SumOf(f, t)
  BY <1>3, <1>4, SumEquation, SomeIn
<1>6. /\ SumOf(f, t) = k * Cardinality(t)
      /\ Cardinality(s) = Cardinality(t) + 1 /\ Cardinality(t) \in Nat
  <2>1. Some(s) \in s /\ IsFiniteSet(t) /\ Cardinality(t) = Cardinality(s) - 1
    BY <1>3, <1>4, SomeIn, FS_RemoveElement
  <2>2. Cardinality(s) \in Nat /\ Cardinality(t) \in Nat
    BY <1>3, <2>1, FS_CardinalityType
  <2>3. t \in SUBSET S /\ t \notin D
    BY <1>2, <1>3, <2>1
  <2>4. SumOf(f, t) = k * Cardinality(t)
    BY <2>3
  <2> HIDE DEF D, t
  <2> QED
    BY <2>1, <2>2, <2>4
<1> HIDE DEF D, t
<1>7. k * (Cardinality(t) + 1) = k * Cardinality(t) + k /\ k * Cardinality(t) \in Nat
  BY <1>6
<1> QED
  BY <1>3, <1>5, <1>6, <1>7

LEMMA Cancelled ==
  ASSUME NEW d \in Nat \ {0}, NEW x \in Int, NEW y \in Int, d * x <= d * y
  PROVE  x <= y
<1>1. ASSUME y < x PROVE FALSE
  <2>1. PICK z : z = x - (y + 1)
    OBVIOUS
  <2>2. z \in Nat /\ x = z + y + 1
    BY <1>1, <2>1
  <2>3. d * x = d * z + d * y + d /\ d * z \in Nat /\ d * y \in Int
    BY <2>2
  <2> QED
    BY <2>3
<1> QED
  BY <1>1

LEMMA Growing ==
  ASSUME NEW d \in Nat, NEW x \in Nat, NEW y \in Nat, x <= y
  PROVE  d * x \in Nat /\ d * y \in Nat /\ d * x <= d * y
<1>1. PICK z : z = y - x
  OBVIOUS
<1>2. z \in Nat /\ y = x + z
  BY <1>1
<1>3. d * y = d * x + d * z /\ d * x \in Nat /\ d * z \in Nat
  BY <1>2
<1> QED
  BY <1>3

(* R, the sum of n ratios, is 10000 but for half a unit each. *)
NearWhole(R, n) == 2 * R - 20000 <= n /\ 20000 - 2 * R <= n

(* The ratios of n parts of a whole add up to nearly 10000. *)
LEMMA WholeNear ==
  ASSUME NEW S, IsFiniteSet(S), NEW w, NEW r, \A x \in S : w[x] \in Int,
         NEW W \in Nat \ {0}, W = SumOf(w, S),
         \A x \in S : r[x] = SplitRatio(w[x], W)
  PROVE  /\ SumOf(r, S) \in Int /\ Cardinality(S) \in Nat
         /\ NearWhole(SumOf(r, S), Cardinality(S))
<1>1. /\ SumOf(r, S) \in Int
      /\ 2 * (W * SumOf(r, S)) - 20000 * SumOf(w, S) <= W * Cardinality(S)
      /\ -(W * Cardinality(S)) <= 2 * (W * SumOf(r, S)) - 20000 * SumOf(w, S)
  BY RatiosSum
<1>2. PICK n, R : n = Cardinality(S) /\ R = SumOf(r, S)
  OBVIOUS
<1>3. n \in Nat /\ R \in Int
  BY <1>1, <1>2, FS_CardinalityType
<1>4. 2 * (W * R) - 20000 * W <= W * n /\ -(W * n) <= 2 * (W * R) - 20000 * W
  BY <1>1, <1>2
<1>5. /\ W * (2 * R - 20000) = 2 * (W * R) - 20000 * W
      /\ W * (20000 - 2 * R) = 20000 * W - 2 * (W * R)
      /\ W * R \in Int /\ W * n \in Nat
  BY <1>3
<1>6. W * (2 * R - 20000) <= W * n /\ W * (20000 - 2 * R) <= W * n
  BY <1>3, <1>4, <1>5
<1>7. 2 * R - 20000 <= n
  BY <1>3, <1>6, Cancelled
<1>8. 20000 - 2 * R <= n
  BY <1>3, <1>6, Cancelled
<1> QED
  BY <1>2, <1>3, <1>7, <1>8 DEF NearWhole

(* A term of a sum of natural numbers is not larger than the sum. *)
LEMMA TermOfSum ==
  ASSUME NEW S, IsFiniteSet(S), NEW f, \A x \in S : f[x] \in Nat, NEW e \in S
  PROVE  f[e] <= SumOf(f, S)
<1> DEFINE T == S \ {e}
<1>1. SumOf(f, S) = f[e] + SumOf(f, T)
  BY SumWithout
<1>2. IsFiniteSet(T) /\ \A x \in T : f[x] \in Nat
  BY FS_Subset
<1> HIDE DEF T
<1>3. SumOf(f, T) \in Nat
  BY <1>2, SumType
<1> QED
  BY <1>1, <1>3

(* An amount comes back from its ratio. *)
LEMMA AmountBack ==
  ASSUME NEW a \in Nat \ {0}, NEW w \in Nat, w <= a, NEW n \in Nat, NEW R \in Nat,
         2 * R - 20000 <= n, 20000 - 2 * R <= n, 2 * (a * (n + 1)) + n < 20000
  PROVE  Rounded(a * SplitRatio(w, a), R) = w
<1>1. PICK r : r = SplitRatio(w, a)
  OBVIOUS
<1>2. r \in Nat /\ 2 * (a * r) - 20000 * w <= a /\ -a <= 2 * (a * r) - 20000 * w
  BY <1>1, RatioIs
<1>3. PICK x, y, z, k : x = a * r /\ y = R * w /\ z = n * w /\ k = a * n
  OBVIOUS
<1>4. x \in Nat /\ y \in Nat /\ z \in Nat /\ k \in Nat
  BY <1>2, <1>3
<1>5. z <= k
  <2>1. n * w <= n * a
    BY Growing
  <2> QED
    BY <1>3, <2>1
<1>6. a * (n + 1) = k + a
  BY <1>3
<1>7. 2 * y - 20000 * w <= z /\ 20000 * w - 2 * y <= z
  <2>1. CASE 2 * R >= 20000
    <3>1. PICK e : e = 2 * R - 20000
      OBVIOUS
    <3>2. e \in Nat /\ e <= n /\ 2 * R = 20000 + e
      BY <2>1, <3>1
    <3>3. w * e \in Nat /\ w * n \in Nat /\ w * e <= w * n
      BY <3>2, Growing
    <3>4. (2 * R) * w = (20000 + e) * w
      BY <3>2
    <3>5. (2 * R) * w = 2 * (R * w) /\ (20000 + e) * w = 20000 * w + w * e
      BY <3>2
    <3>6. w * n = n * w
      OBVIOUS
    <3> QED
      BY <1>3, <1>4, <3>3, <3>4, <3>5, <3>6
  <2>2. CASE 2 * R < 20000
    <3>1. PICK e : e = 20000 - 2 * R
      OBVIOUS
    <3>2. e \in Nat /\ e <= n /\ 2 * R + e = 20000
      BY <2>2, <3>1
    <3>3. w * e \in Nat /\ w * n \in Nat /\ w * e <= w * n
      BY <3>2, Growing
    <3>4. (2 * R + e) * w = 20000 * w
      BY <3>2
    <3>5. (2 * R + e) * w = 2 * (R * w) + w * e
      BY <3>2
    <3>6. w * n = n * w
      OBVIOUS
    <3> QED
      BY <1>3, <1>4, <3>3, <3>4, <3>5, <3>6
  <2> QED
    BY <2>1, <2>2
<1>8. 2 * (k + a) + n < 20000
  BY <1>6
<1>9. 2 * x - 2 * y < R /\ 2 * y - 2 * x < R /\ R > 0
  BY <1>2, <1>3, <1>4, <1>5, <1>7, <1>8
<1>10. 2 * (R * w) <= 2 * (a * r) + R /\ 2 * (a * r) + R < 2 * (R * w) + 2 * R
  BY <1>3, <1>4, <1>9
<1>11. a * r \in Nat /\ R \in Nat \ {0}
  BY <1>3, <1>4, <1>9
<1> QED
  BY <1>1, <1>10, <1>11, NearestIs

(* Parts whose ratios are next to each other are equal. *)
LEMMA PartsEqual ==
  ASSUME NEW a \in Nat \ {0}, 4 * a < 20000, NEW v \in Nat, NEW w \in Nat,
         ~ (SplitRatio(w, a) >= SplitRatio(v, a) + 2)
  PROVE  w <= v
<1>1. PICK q, r : q = SplitRatio(v, a) /\ r = SplitRatio(w, a)
  OBVIOUS
<1>2. q \in Nat /\ 2 * (a * q) - 20000 * v <= a
  BY <1>1, RatioIs
<1>3. r \in Nat /\ -a <= 2 * (a * r) - 20000 * w
  BY <1>1, RatioIs
<1>4. a * r <= a * (q + 1)
  <2>1. r <= q + 1
    BY <1>1, <1>2, <1>3
  <2> QED
    BY <1>2, <1>3, <2>1, Growing
<1>5. a * (q + 1) = a * q + a /\ a * q \in Nat /\ a * r \in Nat
  BY <1>2, <1>3
<1> QED
  BY <1>2, <1>3, <1>4, <1>5

(* Equal parts have the ratios of ones. *)
LEMMA RatioOfEqual ==
  ASSUME NEW c \in Nat \ {0}, NEW n \in Nat \ {0}
  PROVE  SplitRatio(c, c * n) = SplitRatio(1, n)
<1>1. Rounded(10000 * c, n * c) = Rounded(10000, n)
  BY RoundedReduced
<1>2. c * n = n * c /\ 10000 * 1 = 10000
  OBVIOUS
<1> QED
  BY <1>1, <1>2 DEF SplitRatio

(* With more people the ratios of an expense might add up to 0. *)
FewPeople == Cardinality(People) < 20000

(* Totals that four decimals of a ratio can tell the amounts of.           *)
SmallTotals ==
  \A a \in Totals :
    2 * (a * (Cardinality(People) + 1)) + Cardinality(People) < 20000

FormType ==
  [payer : People, amount : Totals \cup {0}, type : SplitTypes,
   selected : SUBSET People, exact : [People -> Nat], percent : [People -> Percentages]]

(* The weights an expense was sent with, of which it keeps the ratios.     *)
WeightsOf(b, w) ==
  LET D == DOMAIN b.ratio
      W == SumOf(w, D)
  IN /\ \A p \in D : w[p] \in Int /\ b.ratio[p] = SplitRatio(w[p], W)
     /\ W \in Nat \ {0}
     /\ b.how # "percentage" => \A p \in D : w[p] \in Nat
     /\ b.how = "equal" => \A p \in D : w[p] = 1
     /\ b.how = "exact" => W = b.amount

Stored(b) ==
  /\ b.payer \in People /\ b.amount \in Totals \ {0}
  /\ b.how \in SplitTypes
  /\ DOMAIN b.ratio \in SUBSET People /\ DOMAIN b.ratio # {}
  /\ b.ratio = [p \in DOMAIN b.ratio |-> b.ratio[p]]
  /\ \E w : WeightsOf(b, w)

FormInv ==
  /\ dialog \in {"closed", "create", "edit"}
  /\ dialog = "edit" => bill # NoExpense
  /\ form \in FormType
  /\ chosen \in SUBSET People
  /\ bill # NoExpense => Stored(bill)

-----------------------------------------------------------------------------

(* What is known of the ratios of an expense. *)
LEMMA StoredRatios ==
  ASSUME NEW b, Stored(b), NEW D, D = DOMAIN b.ratio
  PROVE  /\ IsFiniteSet(D) /\ D # {} /\ D \in SUBSET People
         /\ Cardinality(D) \in Nat /\ Cardinality(D) <= Cardinality(People)
         /\ Cardinality(People) \in Nat
         /\ \A p \in D : b.ratio[p] \in Int
         /\ b.how # "percentage" => \A p \in D : b.ratio[p] \in RatioRange
         /\ SumFunction(b.ratio) \in Int
         /\ NearWhole(SumFunction(b.ratio), Cardinality(D))
<1>1. PICK r : D = DOMAIN r /\ r = b.ratio
  OBVIOUS
<1>2. PICK w : WeightsOf(b, w)
  BY DEF Stored
<1>3. PICK W : W = SumOf(w, D)
  OBVIOUS
<1>4. (\A p \in D : w[p] \in Int) /\ (\A p \in D : r[p] = SplitRatio(w[p], W))
  BY <1>1, <1>2, <1>3 DEF WeightsOf
<1>5. W \in Nat \ {0}
  BY <1>1, <1>2, <1>3 DEF WeightsOf
<1>6. D \in SUBSET People /\ D # {}
  BY <1>1 DEF Stored
<1>7. IsFiniteSet(D)
  BY <1>6, FS_Subset, EFAssumption
<1>8. Cardinality(D) <= Cardinality(People) /\ Cardinality(People) \in Nat
      /\ Cardinality(D) \in Nat
  BY <1>6, <1>7, FS_Subset, FS_CardinalityType, EFAssumption
<1>9. ASSUME b.how # "percentage", NEW p \in D PROVE r[p] \in RatioRange
  <2>1. \A q \in D : w[q] \in Nat
    BY <1>1, <1>2, <1>9 DEF WeightsOf
  <2>2. w[p] <= W
    BY <1>3, <1>7, <2>1, TermOfSum
  <2>3. PICK v : v = w[p]
    OBVIOUS
  <2>4. v \in Nat /\ v <= W
    BY <2>1, <2>2, <2>3
  <2>5. SplitRatio(v, W) \in RatioRange
    BY <1>5, <2>4, RatioOfPart, Zenon
  <2>6. r[p] = SplitRatio(v, W)
    BY <1>4, <2>3
  <2> QED
    BY <2>5, <2>6, Zenon
<1>10. ASSUME NEW p \in D PROVE r[p] \in Int
  <2>1. PICK v : v = w[p]
    OBVIOUS
  <2>2. v \in Int /\ r[p] = SplitRatio(v, W)
    BY <1>4, <2>1
  <2>3. SplitRatio(v, W) \in Int
    BY <1>5, <2>2, RatioInt, Zenon
  <2> QED
    BY <2>2, <2>3, Zenon
<1>11. /\ SumOf(r, D) \in Int
       /\ NearWhole(SumOf(r, D), Cardinality(D))
  BY <1>3, <1>4, <1>5, <1>7, WholeNear, Zenon
<1>12. SumFunction(r) = SumOf(r, D)
  BY <1>1, SumsOverSets
<1> QED
  BY <1>1, <1>6, <1>7, <1>8, <1>9, <1>10, <1>11, <1>12, Zenon

LEMMA RatiosPositive ==
  ASSUME FewPeople, NEW b, Stored(b) PROVE SumFunction(b.ratio) \in Nat \ {0}
<1>1. /\ Cardinality(DOMAIN b.ratio) \in Nat /\ Cardinality(People) \in Nat
      /\ Cardinality(DOMAIN b.ratio) <= Cardinality(People)
      /\ SumFunction(b.ratio) \in Int
      /\ NearWhole(SumFunction(b.ratio), Cardinality(DOMAIN b.ratio))
  BY StoredRatios, Zenon
<1> QED
  BY <1>1 DEF FewPeople, NearWhole

LEMMA DistanceNat ==
  ASSUME NEW m \in Int, NEW n \in Int PROVE Distance(m, n) \in Nat
BY DEF Distance

LEMMA StoredAmount ==
  ASSUME NEW b, Stored(b) PROVE b.amount \in Nat \ {0} /\ b.amount \in Totals
<1>1. Totals \in SUBSET Nat
  BY EFAssumption, Zenon
<1>2. b.amount \in Totals \ {0}
  BY DEF Stored
<1> QED
  BY <1>1, <1>2

(* What the effects put into the dialog. *)
LEMMA StartTyped ==
  ASSUME NEW b, b # NoExpense => Stored(b)
  PROVE  /\ StartPayer(b) \in People /\ StartSelected(b) \in SUBSET People
         /\ StartExact(b) \in [People -> Nat]
<1>1. StartPayer(b) \in People
  BY EFAssumption DEF StartPayer, Stored
<1>2. StartSelected(b) \in SUBSET People
  BY DEF StartSelected, Stored
<1>3. ASSUME NEW p \in People, Amounted(b), p \in StartSelected(b)
      PROVE  AmountOf(b, p) \in Nat
  <2>1. p \in DOMAIN b.ratio /\ Stored(b)
    BY <1>3 DEF StartSelected, Amounted
  <2>2. b.ratio[p] \in Int /\ SumFunction(b.ratio) \in Int
    BY <2>1, StoredRatios, Zenon
  <2>3. b.amount \in Nat
    BY <2>1, StoredAmount
  <2>4. b.amount * b.ratio[p] \in Int
    BY <2>2, <2>3
  <2>5. SumFunction(b.ratio) \in Nat \ {0}
    BY <1>3, <2>2 DEF Amounted
  <2>6. PICK m, d : m = b.amount * b.ratio[p] /\ d = SumFunction(b.ratio)
    OBVIOUS
  <2>7. Rounded(m, d) \in Int
    BY <2>4, <2>5, <2>6, RatiosAreNumbers
  <2>8. Distance(Rounded(m, d), 0) \in Nat
    BY <2>7, DistanceNat
  <2> QED
    BY <2>6, <2>8 DEF AmountOf
<1>4. StartExact(b) \in [People -> Nat]
  BY <1>3 DEF StartExact
<1> QED
  BY <1>1, <1>2, <1>4

LEMMA OpenedTyped ==
  ASSUME NEW b, b # NoExpense => Stored(b),
         NEW t \in {"equal", "exact"}, NEW a \in Totals \cup {0}
  PROVE  Opened(b, t, a) \in FormType /\ Opened(b, t, a).selected \in SUBSET People
<1>1. Blank \in [People -> Percentages] /\ t \in SplitTypes
  BY PercentAssumption DEF Blank, Percentages, SplitTypes
<1> QED
  BY <1>1, StartTyped DEF Opened, FormType

(* Opening and closing the dialog. *)
LEMMA OpenPreserves ==
  ASSUME FormInv, NEW b, b # NoExpense => Stored(b),
         NEW t \in {"equal", "exact"}, NEW a \in Totals \cup {0},
         dialog' \in {"closed", "create", "edit"},
         dialog' = "edit" => bill # NoExpense, UNCHANGED bill,
         form' = Opened(b, t, a),
         chosen' \in SUBSET People
  PROVE  FormInv'
BY OpenedTyped DEF FormInv

LEMMA FieldTyped ==
  ASSUME NEW f \in FormType
  PROVE  /\ \A a \in Totals : [f EXCEPT !.amount = a] \in FormType
         /\ \A p \in People : [f EXCEPT !.payer = p] \in FormType
         /\ \A t \in SplitTypes : [f EXCEPT !.type = t] \in FormType
         /\ \A s \in SUBSET People : [f EXCEPT !.selected = s] \in FormType
         /\ \A x \in [People -> Nat] : [f EXCEPT !.exact = x] \in FormType
         /\ \A x \in [People -> Percentages] : [f EXCEPT !.percent = x] \in FormType
BY DEF FormType

LEMMA EditPreserves ==
  ASSUME FormInv, NEW f \in FormType, Edit(f) PROVE FormInv'
BY DEF FormInv, Edit

LEMMA FormInitInv == ASSUME FormInit PROVE FormInv
<1>1. Opened(NoExpense, "equal", 0) \in FormType
  BY OpenedTyped
<1> QED
  BY <1>1 DEF FormInit, FormInv

LEMMA TypesAre == \A b : \A t \in TypesOf(b) : t \in {"equal", "exact"}
BY DEF TypesOf

LEMMA OpenCreatePreserves ==
  ASSUME FormInv, OpenCreate PROVE FormInv'
<1>1. /\ form' = Opened(NoExpense, "equal", 0) /\ dialog' = "create"
      /\ chosen' = Opened(NoExpense, "equal", 0).selected /\ UNCHANGED bill
  BY DEF OpenCreate, OpenDialog
<1>2. /\ Opened(NoExpense, "equal", 0) \in FormType
      /\ Opened(NoExpense, "equal", 0).selected \in SUBSET People
  BY OpenedTyped
<1> QED
  BY <1>1, <1>2 DEF FormInv

LEMMA OpenEditPreserves ==
  ASSUME FormInv, OpenEdit PROVE FormInv'
<1>1. PICK t \in TypesOf(bill) :
        /\ form' = Opened(bill, t, bill.amount) /\ dialog' = "edit"
        /\ chosen' = Opened(bill, t, bill.amount).selected /\ UNCHANGED bill
  BY DEF OpenEdit, OpenDialog
<1>2. bill # NoExpense /\ Stored(bill) /\ bill.amount \in Totals \cup {0}
  BY DEF FormInv, OpenEdit, Stored
<1>3. t \in {"equal", "exact"}
  BY <1>1, TypesAre
<1>4. /\ Opened(bill, t, bill.amount) \in FormType
      /\ Opened(bill, t, bill.amount).selected \in SUBSET People
  BY <1>2, <1>3, OpenedTyped
<1> QED
  BY <1>1, <1>2, <1>4 DEF FormInv

LEMMA ClosePreserves ==
  ASSUME FormInv, Close PROVE FormInv'
<1>1. Opened(NoExpense, "equal", 0) \in FormType
  BY OpenedTyped
<1> QED
  BY <1>1 DEF FormInv, Close

LEMMA TogglePreserves ==
  ASSUME FormInv, NEW p \in People, Toggle(p) PROVE FormInv'
<1> DEFINE x == [form.exact EXCEPT ![p] = 0]
<1>1. form \in FormType
  BY DEF FormInv
<1>2. form.selected \in SUBSET People /\ form.exact \in [People -> Nat]
  BY <1>1 DEF FormType
<1>3. x \in [People -> Nat]
  BY <1>2
<1>4. [form EXCEPT !.selected = @ \ {p}, !.exact[p] = 0] \in FormType
  <2>1. [form EXCEPT !.selected = @ \ {p}, !.exact[p] = 0]
          = [form EXCEPT !.selected = form.selected \ {p}, !.exact = x]
    BY <1>1 DEF FormType
  <2> HIDE DEF x
  <2>2. [form EXCEPT !.selected = form.selected \ {p}, !.exact = x] \in FormType
    BY <1>1, <1>2, <1>3 DEF FormType
  <2> QED
    BY <2>1, <2>2
<1>5. [form EXCEPT !.selected = @ \cup {p}] \in FormType
  BY <1>1, <1>2 DEF FormType
<1>6. form' \in FormType /\ chosen' = form'.selected /\ UNCHANGED <<dialog, bill>>
  BY <1>4, <1>5 DEF Toggle
<1>7. form'.selected \in SUBSET People
  BY <1>6 DEF FormType
<1> QED
  BY <1>6, <1>7 DEF FormInv

LEMMA EqualPercentsTyped ==
  ASSUME FormInv PROVE EqualPercents \in [People -> Percentages]
<1>1. form.selected \in SUBSET People
  BY DEF FormInv, FormType
<1>2. IsFiniteSet(form.selected)
  BY <1>1, FS_Subset, EFAssumption
<1>3. ASSUME NEW p \in People, p \in form.selected
      PROVE  Whole \div Cardinality(form.selected) \in Percentages
  <2>1. Cardinality(form.selected) \in Nat \ {0}
    BY <1>2, <1>3, FS_CardinalityType, FS_EmptySet
  <2>2. PICK n : n = Cardinality(form.selected)
    OBVIOUS
  <2>3. PICK q : q = Whole \div n
    OBVIOUS
  <2>4. Whole \in Nat
    BY PercentAssumption
  <2>5. n \in Nat \ {0} /\ q \in Int /\ n * q <= Whole
    BY <2>1, <2>2, <2>3, <2>4
  <2>6. q <= Whole
    <3>1. ASSUME q > Whole PROVE FALSE
      <4>1. PICK m, d : m = n - 1 /\ d = q - (Whole + 1)
        OBVIOUS
      <4>2. m \in Nat /\ n = m + 1 /\ d \in Nat /\ q = Whole + 1 + d
        BY <2>4, <2>5, <3>1, <4>1
      <4>3. n * q = q + m * q /\ m * q \in Nat
        BY <2>4, <4>2
      <4> QED
        BY <2>4, <2>5, <4>2, <4>3
    <3> QED
      BY <2>4, <2>5, <3>1
  <2> QED
    BY <2>2, <2>3, <2>5, <2>6 DEF Percentages
<1>4. 0 \in Percentages
  BY PercentAssumption DEF Percentages
<1> QED
  BY <1>3, <1>4 DEF EqualPercents

LEMMA EditsPreserve ==
  ASSUME FormInv,
         TypeAmount \/ PickPayer \/ ChooseType \/ TypeExact \/ TypePercent \/ Rerender
  PROVE  FormInv'
<1> SUFFICES \E f \in FormType : Edit(f)
  BY EditPreserves
<1>1. form \in FormType
  BY DEF FormInv
<1>2. CASE TypeAmount
  BY <1>1, <1>2, FieldTyped DEF TypeAmount
<1>3. CASE PickPayer
  BY <1>1, <1>3, FieldTyped DEF PickPayer
<1>4. CASE ChooseType
  <2>1. CASE \E t \in {"equal", "exact"} : Edit([form EXCEPT !.type = t])
    BY <1>1, <2>1, FieldTyped DEF SplitTypes
  <2>2. CASE Edit([form EXCEPT !.type = "percentage", !.percent = EqualPercents])
    <3>1. [form EXCEPT !.type = "percentage", !.percent = EqualPercents] \in FormType
      BY <1>1, EqualPercentsTyped DEF FormType, SplitTypes
    <3> QED
      BY <2>2, <3>1
  <2> QED
    BY <1>4, <2>1, <2>2 DEF ChooseType
<1>5. CASE TypeExact
  <2>1. PICK p \in form.selected, a \in ExactAmounts : Edit([form EXCEPT !.exact[p] = a])
    BY <1>5 DEF TypeExact
  <2> DEFINE x == [form.exact EXCEPT ![p] = a]
  <2>2. x \in [People -> Nat]
    BY <1>1, EFAssumption DEF FormType
  <2>3. [form EXCEPT !.exact[p] = a] = [form EXCEPT !.exact = x]
    BY <1>1 DEF FormType
  <2> HIDE DEF x
  <2>4. [form EXCEPT !.exact = x] \in FormType
    BY <1>1, <2>2, FieldTyped
  <2> QED
    BY <2>1, <2>3, <2>4
<1>6. CASE TypePercent
  <2>1. PICK p \in form.selected, a \in Percents : Edit([form EXCEPT !.percent[p] = a])
    BY <1>6 DEF TypePercent
  <2> DEFINE x == [form.percent EXCEPT ![p] = a]
  <2>2. x \in [People -> Percentages]
    <3>1. a \in Percentages
      BY PercentAssumption DEF Percentages
    <3> QED
      BY <1>1, <3>1 DEF FormType
  <2>3. [form EXCEPT !.percent[p] = a] = [form EXCEPT !.percent = x]
    BY <1>1 DEF FormType
  <2> HIDE DEF x
  <2>4. [form EXCEPT !.percent = x] \in FormType
    BY <1>1, <2>2, FieldTyped
  <2> QED
    BY <2>1, <2>3, <2>4
<1>7. CASE Rerender
  <2> DEFINE b == EditedBill
  <2>1. b # NoExpense => Stored(b)
    BY DEF EditedBill, FormInv
  <2> HIDE DEF b
  <2>2. /\ StartPayer(b) \in People /\ StartSelected(b) \in SUBSET People
        /\ StartExact(b) \in [People -> Nat]
    BY <2>1, StartTyped
  <2>3. [form EXCEPT !.payer = StartPayer(b), !.selected = StartSelected(b),
                     !.exact = StartExact(b)] \in FormType
    BY <1>1, <2>2 DEF FormType
  <2> QED
    BY <1>7, <2>3 DEF Rerender, b
<1> QED
  BY <1>2, <1>3, <1>4, <1>5, <1>6, <1>7

(* r are the ratios of the weights w of the people D. *)
RatiosOf(r, w, D) ==
  /\ IsFiniteSet(D) /\ D \in SUBSET People /\ D # {}
  /\ \A p \in D : w[p] \in Int /\ r[p] = SplitRatio(w[p], SumOf(w, D))
  /\ SumOf(w, D) \in Nat \ {0}
  /\ DOMAIN r = D /\ r = [p \in D |-> r[p]]

(* What Submit stores, and what its checks say of it. *)
LEMMA Submitted ==
  ASSUME FormInv, Submit
  PROVE  \E w, D :
           /\ w = Weights /\ D = form.selected
           /\ RatiosOf(bill'.ratio, w, D)
           /\ form.type = "equal" => \A p \in D : w[p] = 1
           /\ form.type = "exact" => /\ \A p \in D : w[p] = form.exact[p]
                                     /\ SumOf(w, D) = form.amount
           /\ form.type = "percentage" => \A p \in D : w[p] = form.percent[p]
           /\ form.type # "percentage" => \A p \in D : w[p] \in Nat
<1>1. PICK w, D : w = Weights /\ D = form.selected
  OBVIOUS
<1>2. form \in FormType
  BY DEF FormInv
<1>3. D \in SUBSET People /\ D # {}
  BY <1>1, <1>2 DEF FormType, Submit, Valid
<1>4. IsFiniteSet(D)
  BY <1>3, FS_Subset, EFAssumption
<1>5. DOMAIN w = D
  BY <1>1 DEF Weights
<1>6. /\ \A p \in D : form.exact[p] \in Nat /\ form.percent[p] \in Int
      /\ form.type \in SplitTypes
  BY <1>2, <1>3 DEF FormType, Percentages
<1>7. form.type = "equal" => \A p \in D : w[p] = 1
  BY <1>1 DEF Weights
<1>8. form.type = "exact" => \A p \in D : w[p] = form.exact[p]
  BY <1>1 DEF Weights
<1>9. form.type = "percentage" => \A p \in D : w[p] = form.percent[p]
  BY <1>1 DEF Weights
<1>10. /\ \A p \in D : w[p] \in Int
       /\ form.type # "percentage" => \A p \in D : w[p] \in Nat
  BY <1>6, <1>7, <1>8, <1>9 DEF SplitTypes
<1>11. SumFunction(w) = SumOf(w, D)
  BY <1>5, SumsOverSets
<1>12. SumOf(w, D) \in Int
  BY <1>4, <1>10, SumType
<1>13. Answer.weights = w
  BY <1>1 DEF Answer
<1>14. SumFunction(w) > 0
  BY <1>13 DEF Submit, Splittable
<1>15. bill'.ratio = RatioRows(Answer)
  BY DEF Submit
<1>16. RatioRows(Answer) = [p \in D |-> SplitRatio(w[p], SumOf(w, D))]
  BY <1>5, <1>11, <1>13 DEF RatioRows
<1>17. ASSUME form.type = "exact" PROVE SumOf(w, D) = form.amount
  <2>1. SumFunctionOnSet(form.exact, D) = form.amount
    BY <1>1, <1>17 DEF Submit, Valid
  <2>2. PICK e : e = form.exact
    OBVIOUS
  <2>3. SumFunctionOnSet(e, D) = SumOf(e, D)
    BY SumsOverSets
  <2>4. \A p \in D : w[p] = e[p]
    BY <1>8, <1>17, <2>2
  <2>5. SumOf(w, D) = SumOf(e, D)
    BY <1>4, <2>4, SumSame
  <2> QED
    BY <2>1, <2>2, <2>3, <2>5
<1>18. PICK W, r : W = SumOf(w, D) /\ r = bill'.ratio
  OBVIOUS
<1>19. r = [p \in D |-> SplitRatio(w[p], W)]
  BY <1>15, <1>16, <1>18
<1>20. /\ DOMAIN r = D /\ r = [p \in D |-> r[p]]
       /\ \A p \in D : r[p] = SplitRatio(w[p], W)
  BY <1>19
<1>21. W \in Nat \ {0}
  BY <1>11, <1>12, <1>14, <1>18
<1>22. RatiosOf(r, w, D)
  BY <1>3, <1>4, <1>10, <1>18, <1>20, <1>21 DEF RatiosOf
<1> QED
  BY <1>1, <1>7, <1>8, <1>9, <1>10, <1>17, <1>18, <1>22

LEMMA SubmitPreserves ==
  ASSUME FormInv, Submit PROVE FormInv'
<1>1. Opened(NoExpense, "equal", 0) \in FormType
  BY OpenedTyped
<1>2. PICK b : b = bill'
  OBVIOUS
<1>3. /\ b.payer = form.payer /\ b.amount = form.amount /\ b.how = form.type
      /\ form.amount > 0
  BY <1>2 DEF Submit, Valid
<1>4. form.payer \in People /\ form.amount \in Totals \cup {0} /\ form.type \in SplitTypes
  BY DEF FormInv, FormType
<1>5. b.payer \in People /\ b.amount \in Totals \ {0} /\ b.how \in SplitTypes
  BY <1>3, <1>4
<1>6. PICK w, D :
         /\ RatiosOf(b.ratio, w, D)
         /\ form.type = "equal" => \A p \in D : w[p] = 1
         /\ form.type = "exact" => SumOf(w, D) = form.amount
         /\ form.type # "percentage" => \A p \in D : w[p] \in Nat
  BY <1>2, Submitted
<1>7. WeightsOf(b, w)
  BY <1>3, <1>6 DEF WeightsOf, RatiosOf
<1>8. Stored(b)
  BY <1>5, <1>6, <1>7 DEF Stored, RatiosOf
<1>9. dialog' = "closed" /\ chosen' = People /\ form' = Opened(NoExpense, "equal", 0)
  BY DEF Submit
<1> QED
  BY <1>1, <1>2, <1>8, <1>9 DEF FormInv

LEMMA FormInvNext ==
  ASSUME FormInv, [FormNext]_formVars PROVE FormInv'
<1>1. CASE UNCHANGED formVars
  BY <1>1 DEF FormInv, formVars
<1>2. CASE OpenCreate
  BY <1>2, OpenCreatePreserves
<1>3. CASE OpenEdit
  BY <1>3, OpenEditPreserves
<1>4. CASE Close
  BY <1>4, ClosePreserves
<1>5. CASE \E p \in People : Toggle(p)
  BY <1>5, TogglePreserves
<1>6. CASE TypeAmount \/ PickPayer \/ ChooseType \/ TypeExact \/ TypePercent \/ Rerender
  BY <1>6, EditsPreserve
<1>7. CASE Submit
  BY <1>7, SubmitPreserves
<1> QED
  BY <1>1, <1>2, <1>3, <1>4, <1>5, <1>6, <1>7 DEF FormNext

LEMMA FormInvariant == FormSpec => []FormInv
BY FormInitInv, FormInvNext, PTL DEF FormSpec

(* Every variable of the dialog keeps its type. *)
THEOREM FormTypeCorrect == FormSpec => []FormTypeOK
<1>1. ASSUME FormInv PROVE FormTypeOK
  <2>1. /\ dialog \in {"closed", "create", "edit"} /\ chosen \subseteq People
        /\ form \in FormType
    BY <1>1 DEF FormInv
  <2>2. ASSUME bill # NoExpense
        PROVE  /\ bill.payer \in People /\ bill.amount \in Totals \ {0}
               /\ bill.how \in SplitTypes
               /\ DOMAIN bill.ratio \subseteq People
               /\ bill.ratio \in [DOMAIN bill.ratio ->
                                   IF bill.how = "percentage" THEN Int ELSE RatioRange]
    <3>1. Stored(bill)
      BY <1>1, <2>2 DEF FormInv
    <3>2. PICK D, r, V : /\ D = DOMAIN bill.ratio /\ r = bill.ratio
                         /\ V = IF bill.how = "percentage" THEN Int ELSE RatioRange
      OBVIOUS
    <3>3. r = [p \in D |-> r[p]]
      BY <3>1, <3>2 DEF Stored
    <3>4. \A p \in D : r[p] \in V
      <4>1. /\ \A p \in D : r[p] \in Int
            /\ bill.how # "percentage" => \A p \in D : r[p] \in RatioRange
        BY <3>1, <3>2, StoredRatios, Zenon
      <4> QED
        BY <3>2, <4>1, Zenon
    <3>5. [p \in D |-> r[p]] \in [D -> V]
      BY <3>4, Zenon
    <3>6. bill.ratio \in [DOMAIN bill.ratio -> V]
      BY <3>2, <3>3, <3>5, Zenon
    <3>7. /\ bill.payer \in People /\ bill.amount \in Totals \ {0}
          /\ bill.how \in SplitTypes /\ DOMAIN bill.ratio \subseteq People
      BY <3>1 DEF Stored
    <3> QED
      BY <3>2, <3>6, <3>7, Zenon
  <2> QED
    BY <2>1, <2>2 DEF FormTypeOK, FormType
<1> QED
  BY <1>1, FormInvariant, PTL

-----------------------------------------------------------------------------

(* Only Submit writes the expense. *)
LEMMA OnlySubmit ==
  ASSUME [FormNext]_formVars, bill' # bill PROVE Submit
BY DEF FormNext, formVars, OpenCreate, OpenEdit, OpenDialog, Close, Edit, Toggle,
       TypeAmount, PickPayer, ChooseType, TypeExact, TypePercent, Rerender

LEMMA DistanceIs ==
  ASSUME NEW x \in Int, NEW y \in Int, NEW k \in Int, 2 * x - 2 * y <= k, 2 * y - 2 * x <= k
  PROVE  2 * Distance(x, y) <= k
BY DEF Distance

(* Terms that are 0 may be left out of a sum. *)
LEMMA SumOfSome ==
  ASSUME NEW S, IsFiniteSet(S), NEW T \in SUBSET S, NEW f, \A x \in S : f[x] \in Int,
         \A x \in S \ T : f[x] = 0
  PROVE  SumOf(f, S) = SumOf(f, T)
<1> DEFINE D == {s \in SUBSET S : T \subseteq s /\ SumOf(f, s) # SumOf(f, T)}
<1>1. SUFFICES ASSUME D # {} PROVE FALSE
  OBVIOUS
<1>2. PICK s \in D : \A t \in D : t \subseteq s => t = s
  <2> D \subseteq SUBSET S
    OBVIOUS
  <2> HIDE DEF D
  <2> QED
    BY <1>1, SmallestSet
<1>3. PICK y \in s : y \notin T
  OBVIOUS
<1>4. s \ {y} \notin D /\ s \ {y} \in SUBSET S /\ T \subseteq s \ {y}
  BY <1>2, <1>3
<1>5. SumOf(f, s \ {y}) = SumOf(f, T)
  BY <1>4
<1>6. f[y] = 0 /\ y \in s /\ s \in SUBSET S /\ SumOf(f, s) # SumOf(f, T)
  BY <1>3
<1> HIDE DEF D
<1>7. SumOf(f, s) = f[y] + SumOf(f, s \ {y})
  <2>1. IsFiniteSet(s) /\ \A x \in s : f[x] \in Int
    BY <1>6, FS_Subset
  <2> QED
    BY <1>6, <2>1, SumWithout
<1>8. SumOf(f, T) \in Int
  <2>1. IsFiniteSet(T) /\ \A x \in T : f[x] \in Int
    BY FS_Subset
  <2> QED
    BY <2>1, SumType
<1> QED
  BY <1>5, <1>6, <1>7, <1>8

(* A ratio is the part it was computed of. *)
LEMMA RatioIsPart ==
  ASSUME NEW W \in Nat \ {0}, NEW v \in Int PROVE IsPart(SplitRatio(v, W), v, W)
<1>1. PICK q : q = SplitRatio(v, W)
  OBVIOUS
<1>2. q \in Int /\ 2 * (W * q) - 20000 * v <= W /\ -W <= 2 * (W * q) - 20000 * v
  BY <1>1, RatioIs
<1>3. PICK x, y : x = W * q /\ y = 10000 * v
  OBVIOUS
<1>4. x \in Int /\ y \in Int /\ 2 * x - 2 * y <= W /\ 2 * y - 2 * x <= W
  BY <1>2, <1>3
<1>5. 2 * Distance(x, y) <= W
  BY <1>4, DistanceIs
<1> QED
  BY <1>1, <1>3, <1>5 DEF IsPart

(* The percentages of those who are selected make a whole, if nobody else  *)
(* has one.                                                                *)
LEMMA PercentsSum ==
  ASSUME FormInv, Submit, form.type = "percentage",
         \A p \in People \ form.selected : form.percent[p] = 0
  PROVE  Distance(SumFunctionOnSet(form.percent, form.selected), Whole) <= Tolerance
<1>1. PICK f, D : f = form.percent /\ D = form.selected
  OBVIOUS
<1>2. f \in [People -> Percentages] /\ D \in SUBSET People
  BY <1>1 DEF FormInv, FormType
<1>3. Distance(SumFunction(f), Whole) <= Tolerance
  BY <1>1 DEF Submit, Valid
<1>4. SumFunction(f) = SumOf(f, People) /\ SumFunctionOnSet(f, D) = SumOf(f, D)
  BY <1>2, SumsOverSets
<1>5. SumOf(f, People) = SumOf(f, D)
  <2>1. (\A p \in People : f[p] \in Int) /\ \A p \in People \ D : f[p] = 0
    BY <1>1, <1>2 DEF Percentages
  <2>2. IsFiniteSet(People)
    BY EFAssumption
  <2> QED
    BY <1>2, <2>1, <2>2, SumOfSome
<1> QED
  BY <1>1, <1>3, <1>4, <1>5

(* Everybody who is selected bears his part of what the dialog shows. *)
THEOREM PartsCharged == FormSpec => SharesAsAsked
<1> DEFINE Asked ==
      /\ DOMAIN bill'.ratio = form.selected
      /\ form.type = "equal" =>
           LET n == Cardinality(form.selected)
           IN \A p \in form.selected : IsPart(bill'.ratio[p], 1, n)
      /\ form.type = "exact" =>
           \A p \in form.selected :
             IsPart(bill'.ratio[p], form.exact[p], form.amount)
      /\ form.type = "percentage" =>
           LET all == SumFunctionOnSet(form.percent, form.selected)
           IN /\ \A p \in form.selected :
                   IsPart(bill'.ratio[p], form.percent[p], all)
              /\ (\A p \in People \ form.selected : form.percent[p] = 0)
                   => Distance(all, Whole) <= Tolerance
<1>1. ASSUME FormInv, Submit PROVE Asked
  <2>1. PICK w, D :
           /\ w = Weights /\ D = form.selected
           /\ RatiosOf(bill'.ratio, w, D)
           /\ form.type = "equal" => \A p \in D : w[p] = 1
           /\ form.type = "exact" => /\ \A p \in D : w[p] = form.exact[p]
                                     /\ SumOf(w, D) = form.amount
           /\ form.type = "percentage" => \A p \in D : w[p] = form.percent[p]
    BY <1>1, Submitted
  <2>2. PICK r, W, n : r = bill'.ratio /\ W = SumOf(w, D) /\ n = Cardinality(D)
    OBVIOUS
  <2>3. /\ IsFiniteSet(D) /\ DOMAIN r = D /\ W \in Nat \ {0}
        /\ \A p \in D : w[p] \in Int /\ r[p] = SplitRatio(w[p], W)
    BY <2>1, <2>2 DEF RatiosOf
  <2>4. n \in Nat
    BY <2>2, <2>3, FS_CardinalityType
  <2>5. ASSUME NEW p \in D PROVE IsPart(r[p], w[p], W)
    <3>1. PICK v : v = w[p]
      OBVIOUS
    <3>2. v \in Int /\ r[p] = SplitRatio(v, W)
      BY <2>3, <3>1
    <3>3. IsPart(SplitRatio(v, W), v, W)
      BY <2>3, <3>2, RatioIsPart
    <3> QED
      BY <3>1, <3>2, <3>3
  <2>6. ASSUME form.type = "equal", NEW p \in D PROVE IsPart(r[p], 1, n)
    <3>1. SumOf(w, D) = 1 * Cardinality(D)
      BY <2>1, <2>3, <2>6, SumOfOnes
    <3>2. W = n
      BY <2>2, <2>4, <3>1
    <3>3. w[p] = 1
      BY <2>1, <2>6
    <3> QED
      BY <2>5, <3>2, <3>3
  <2>7. ASSUME form.type = "exact", NEW p \in D
        PROVE  IsPart(r[p], form.exact[p], form.amount)
    <3>1. W = form.amount /\ w[p] = form.exact[p]
      BY <2>1, <2>2, <2>7
    <3> QED
      BY <2>5, <3>1
  <2>8. ASSUME form.type = "percentage", NEW p \in D
        PROVE  IsPart(r[p], form.percent[p], SumFunctionOnSet(form.percent, D))
    <3>1. PICK f : f = form.percent
      OBVIOUS
    <3>2. \A q \in D : w[q] = f[q]
      BY <2>1, <2>8, <3>1
    <3>3. SumOf(w, D) = SumOf(f, D)
      BY <2>3, <3>2, SumSame
    <3>4. SumFunctionOnSet(f, D) = SumOf(f, D)
      BY SumsOverSets
    <3> QED
      BY <2>2, <2>5, <3>1, <3>2, <3>3, <3>4
  <2>9. form.type = "percentage"
          /\ (\A p \in People \ form.selected : form.percent[p] = 0)
          => Distance(SumFunctionOnSet(form.percent, form.selected), Whole) <= Tolerance
    BY <1>1, PercentsSum
  <2> QED
    BY <2>1, <2>2, <2>3, <2>6, <2>7, <2>8, <2>9
<1>2. ASSUME FormInv, [FormNext]_formVars PROVE [bill' # bill => Asked]_formVars
  <2> HIDE DEF Asked
  <2> QED
    BY <1>1, <1>2, OnlySubmit
<1> QED
  BY <1>2, FormInvariant, PTL DEF FormSpec, SharesAsAsked

(* The rows that saving the form would store. *)
LEMMA RowsOfAnswer ==
  ASSUME NEW D, D = form.selected, NEW v, v = Weights, NEW W, W = SumOf(v, D)
  PROVE  RatioRows(Answer) = [p \in D |-> SplitRatio(v[p], W)]
<1>1. DOMAIN v = D
  BY DEF Weights
<1>2. SumFunction(v) = W
  BY <1>1, SumsOverSets
<1>3. Answer.weights = v
  BY DEF Answer
<1> QED
  BY <1>1, <1>2, <1>3 DEF RatioRows

(* If they have the weights of an expense, they are its rows. *)
LEMMA SameRows ==
  ASSUME NEW D, IsFiniteSet(D), D = form.selected, NEW r, NEW w, NEW W,
         r = [p \in D |-> r[p]], \A p \in D : r[p] = SplitRatio(w[p], W),
         W = SumOf(w, D), \A p \in D : Weights[p] = w[p]
  PROVE  RatioRows(Answer) = r
<1>1. PICK v, V : v = Weights /\ V = SumOf(v, D)
  OBVIOUS
<1>2. V = W
  BY <1>1, SumSame
<1>3. RatioRows(Answer) = [p \in D |-> SplitRatio(v[p], V)]
  BY <1>1, RowsOfAnswer
<1>4. \A p \in D : SplitRatio(v[p], V) = r[p]
  BY <1>1, <1>2
<1> QED
  BY <1>3, <1>4

(* The amounts an expense was entered with come back. *)
LEMMA AmountsBack ==
  ASSUME SmallTotals, FewPeople, NEW b, b # NoExpense, Stored(b), b.how = "exact",
         NEW w, WeightsOf(b, w)
  PROVE  \A p \in DOMAIN b.ratio : StartExact(b)[p] = w[p]
<1>1. PICK D, r, a, n, R : /\ D = DOMAIN b.ratio /\ r = b.ratio /\ a = b.amount
                           /\ n = Cardinality(D) /\ R = SumFunction(r)
  OBVIOUS
<1>2. a \in Nat \ {0} /\ a \in Totals
  BY <1>1, StoredAmount
<1>3. /\ IsFiniteSet(D) /\ D \in SUBSET People /\ NearWhole(R, n)
      /\ n \in Nat /\ n <= Cardinality(People) /\ Cardinality(People) \in Nat
  BY <1>1, StoredRatios, Zenon
<1>3a. R \in Nat \ {0}
  BY <1>1, RatiosPositive
<1>4. a = SumOf(w, D)
  BY <1>1 DEF WeightsOf
<1>5. (\A p \in D : w[p] \in Nat) /\ (\A p \in D : r[p] = SplitRatio(w[p], a))
  BY <1>1, <1>4 DEF WeightsOf
<1>6. 2 * (a * (n + 1)) + n < 20000
  <2>1. PICK N : N = Cardinality(People)
    OBVIOUS
  <2>2. 2 * (a * (N + 1)) + N < 20000
    BY <1>2, <2>1 DEF SmallTotals
  <2>3. a * (n + 1) \in Nat /\ a * (N + 1) \in Nat /\ a * (n + 1) <= a * (N + 1)
    <3>1. n + 1 \in Nat /\ N + 1 \in Nat /\ n + 1 <= N + 1
      BY <1>3, <2>1
    <3> QED
      BY <1>2, <3>1, Growing
  <2> QED
    BY <1>3, <2>1, <2>2, <2>3
<1>7. 2 * R - 20000 <= n /\ 20000 - 2 * R <= n
  BY <1>3 DEF NearWhole
<1>8. ASSUME NEW p \in D PROVE StartExact(b)[p] = w[p]
  <2>1. PICK x : x = w[p]
    OBVIOUS
  <2>2. x \in Nat /\ x <= a
    BY <1>3, <1>4, <1>5, <2>1, TermOfSum
  <2>3. Rounded(a * SplitRatio(x, a), R) = x
    BY <1>2, <1>3, <1>3a, <1>6, <1>7, <2>2, AmountBack
  <2>4. r[p] = SplitRatio(x, a)
    BY <1>5, <2>1
  <2>5. AmountOf(b, p) = Distance(Rounded(a * r[p], R), 0)
    BY <1>1 DEF AmountOf
  <2>6. StartExact(b)[p] = AmountOf(b, p)
    BY <1>1, <1>3, <1>3a DEF StartExact, StartSelected, Amounted
  <2>7. Distance(x, 0) = x
    BY <2>2 DEF Distance
  <2> QED
    BY <2>1, <2>3, <2>4, <2>5, <2>6, <2>7
<1> QED
  BY <1>1, <1>8

(* Amounts whose ratios pass for equal are equal, and have the ratios of   *)
(* equal parts.                                                            *)
LEMMA PassForEqual ==
  ASSUME NEW D, IsFiniteSet(D), D # {}, NEW w, NEW r, NEW a \in Nat \ {0}, 4 * a < 20000,
         \A p \in D : w[p] \in Nat, a = SumOf(w, D),
         \A p \in D : r[p] = SplitRatio(w[p], a),
         \A p, q \in D : ~ (r[p] >= r[q] + 2)
  PROVE  \A p \in D : r[p] = SplitRatio(1, Cardinality(D))
<1>1. ASSUME NEW p \in D, NEW q \in D PROVE w[p] <= w[q]
  <2>1. PICK x, y : x = w[p] /\ y = w[q]
    OBVIOUS
  <2>2. x \in Nat /\ y \in Nat /\ r[p] = SplitRatio(x, a) /\ r[q] = SplitRatio(y, a)
    BY <2>1
  <2>3. ~ (r[p] >= r[q] + 2)
    OBVIOUS
  <2>4. ~ (SplitRatio(x, a) >= SplitRatio(y, a) + 2)
    BY <2>2, <2>3
  <2>5. x <= y
    BY <2>2, <2>4, PartsEqual
  <2> QED
    BY <2>1, <2>5
<1>2. PICK e \in D : TRUE
  OBVIOUS
<1>3. PICK c : c = w[e]
  OBVIOUS
<1>4. c \in Nat /\ \A p \in D : w[p] = c
  <2> SUFFICES ASSUME NEW p \in D PROVE w[p] = c
    BY <1>2, <1>3
  <2>1. w[p] \in Nat /\ w[e] \in Nat /\ w[p] <= w[e] /\ w[e] <= w[p]
    BY <1>1, <1>2
  <2> QED
    BY <1>3, <2>1
<1>5. PICK n : n = Cardinality(D)
  OBVIOUS
<1>6. n \in Nat
  BY <1>5, FS_CardinalityType
<1>7. n # 0
  BY <1>5, FS_EmptySet
<1>8. a = c * n
  BY <1>4, <1>5, SumOfOnes
<1>9. c # 0
  <2>1. 0 * n = 0
    BY <1>6
  <2> QED
    BY <1>8, <2>1
<1>10. SplitRatio(c, c * n) = SplitRatio(1, n)
  BY <1>4, <1>6, <1>7, <1>9, RatioOfEqual
<1> QED
  BY <1>4, <1>5, <1>8, <1>10

(* What an untouched form shows. *)
LEMMA UntouchedForm ==
  ASSUME FormInv, dialog = "edit", Untouched
  PROVE  /\ bill # NoExpense /\ Stored(bill)
         /\ form.payer = bill.payer /\ form.amount = bill.amount
         /\ form.selected = DOMAIN bill.ratio
         /\ form.exact = StartExact(bill) /\ form.type \in TypesOf(bill)
<1>1. bill # NoExpense /\ Stored(bill)
  BY DEF FormInv
<1>2. PICK t \in TypesOf(bill) : form = Opened(bill, t, bill.amount)
  BY DEF Untouched
<1> QED
  BY <1>1, <1>2 DEF Opened, StartPayer, StartSelected

(* An expense entered in equal parts or by amounts comes back as it was    *)
(* entered, and can be saved again.                                        *)
THEOREM ReopensUnchanged ==
  ASSUME FewPeople, SmallTotals PROVE FormSpec => []ReopenedAsEntered
<1>1. ASSUME FormInv, dialog = "edit", Untouched, bill.how # "percentage"
      PROVE  Valid /\ form.payer = bill.payer /\ RatioRows(Answer) = bill.ratio
  <2>1. PICK b, D, r, a : /\ b = bill /\ D = form.selected /\ r = b.ratio
                          /\ a = b.amount
    OBVIOUS
  <2>2. /\ b # NoExpense /\ Stored(b) /\ D = DOMAIN r
        /\ form.payer = b.payer /\ form.amount = a
        /\ form.exact = StartExact(b) /\ form.type \in TypesOf(b)
    BY <1>1, <2>1, UntouchedForm
  <2>3. PICK w : WeightsOf(b, w)
    BY <2>2 DEF Stored
  <2>4. PICK W : W = SumOf(w, D)
    OBVIOUS
  <2>5. /\ \A p \in D : w[p] \in Nat
        /\ \A p \in D : r[p] = SplitRatio(w[p], W)
        /\ W \in Nat \ {0}
    BY <1>1, <2>1, <2>2, <2>3, <2>4 DEF WeightsOf
  <2>6. IsFiniteSet(D) /\ D # {}
    BY <2>1, <2>2, StoredRatios, Zenon
  <2>7. r = [p \in D |-> r[p]]
    BY <2>1, <2>2 DEF Stored
  <2>8. form.type \in {"equal", "exact"} /\ b.how \in {"equal", "exact"}
    BY <1>1, <2>1, <2>2, TypesAre DEF Stored, SplitTypes
  <2>9. a \in Nat \ {0} /\ a \in Totals
    BY <2>1, <2>2, StoredAmount
  <2>10. ASSUME b.how = "exact"
         PROVE  W = a /\ \A p \in D : form.exact[p] = w[p]
    BY <2>1, <2>2, <2>3, <2>4, <2>10, AmountsBack DEF WeightsOf
  <2>11. ASSUME b.how = "equal" PROVE \A p \in D : w[p] = 1
    BY <2>1, <2>2, <2>3, <2>11 DEF WeightsOf
  <2>12. ASSUME form.type = "exact" PROVE b.how = "exact"
    <3>1. SUFFICES ASSUME b.how = "equal" PROVE FALSE
      BY <2>8
    <3>2. PICK p \in D, q \in D : r[p] >= r[q] + 1
      BY <2>1, <2>2, <2>12 DEF TypesOf
    <3>3. r[p] = r[q]
      BY <2>5, <2>11, <3>1
    <3>4. r[q] \in Nat
      <4>1. SplitRatio(1, W) \in Nat
        BY <2>5, RatioNat
      <4> QED
        BY <2>5, <2>11, <3>1, <4>1
    <3> QED
      BY <3>2, <3>3, <3>4
  <2>13. ASSUME form.type = "exact"
         PROVE  /\ SumFunctionOnSet(form.exact, form.selected) = form.amount
                /\ \A p \in D : Weights[p] = w[p]
    <3>1. W = a /\ \A p \in D : form.exact[p] = w[p]
      BY <2>10, <2>12, <2>13
    <3>2. PICK e : e = form.exact
      OBVIOUS
    <3>3. SumOf(e, D) = W
      BY <2>4, <2>6, <3>1, <3>2, SumSame
    <3>4. SumFunctionOnSet(e, D) = SumOf(e, D)
      BY SumsOverSets
    <3>5. \A p \in D : Weights[p] = e[p]
      BY <2>1, <2>13, <3>2 DEF Weights
    <3> QED
      BY <2>1, <2>2, <3>1, <3>2, <3>3, <3>4, <3>5
  <2>14. Valid
    BY <2>1, <2>2, <2>6, <2>8, <2>9, <2>13 DEF Valid
  <2>15. CASE form.type = "exact" \/ b.how = "equal"
    <3>1. form.type = "equal" => \A p \in D : Weights[p] = 1
      BY <2>1 DEF Weights
    <3>2. \A p \in D : Weights[p] = w[p]
      BY <2>8, <2>11, <2>13, <2>15, <3>1
    <3>3. RatioRows(Answer) = r
      BY <2>1, <2>4, <2>5, <2>6, <2>7, <3>2, SameRows
    <3> QED
      BY <2>1, <2>2, <2>14, <3>3
  <2>16. CASE form.type = "equal" /\ b.how = "exact"
    <3>1. W = a
      BY <2>10, <2>16
    <3>2. \A p, q \in D : ~ (r[p] >= r[q] + 2)
      BY <2>1, <2>2, <2>16 DEF TypesOf
    <3>3. 4 * a < 20000
      <4>1. PICK N : N = Cardinality(People)
        OBVIOUS
      <4>2. 2 * (a * (N + 1)) + N < 20000
        BY <2>9, <4>1 DEF SmallTotals
      <4>3. N \in Nat /\ N # 0
        BY <4>1, EFAssumption, FS_CardinalityType, FS_EmptySet
      <4>4. a * 2 \in Nat /\ a * (N + 1) \in Nat /\ a * 2 <= a * (N + 1)
        <5>1. 2 \in Nat /\ N + 1 \in Nat /\ 2 <= N + 1
          BY <4>3
        <5> QED
          BY <2>9, <5>1, Growing
      <4> QED
        BY <2>9, <4>2, <4>3, <4>4
    <3>4. PICK n : n = Cardinality(D)
      OBVIOUS
    <3>5. \A p \in D : r[p] = SplitRatio(1, n)
      <4>1. a = SumOf(w, D) /\ \A p \in D : r[p] = SplitRatio(w[p], a)
        BY <2>4, <2>5, <3>1
      <4> QED
        BY <2>5, <2>6, <2>9, <3>2, <3>3, <3>4, <4>1, PassForEqual
    <3>6. PICK v, V : v = Weights /\ V = SumOf(v, D)
      OBVIOUS
    <3>7. \A p \in D : v[p] = 1
      BY <2>1, <2>16, <3>6 DEF Weights
    <3>8. V = n
      <4>1. V = 1 * Cardinality(D)
        BY <2>6, <3>6, <3>7, SumOfOnes
      <4>2. n \in Nat
        BY <2>6, <3>4, FS_CardinalityType
      <4> QED
        BY <3>4, <4>1, <4>2
    <3>9. RatioRows(Answer) = [p \in D |-> SplitRatio(v[p], V)]
      BY <2>1, <3>6, RowsOfAnswer
    <3>10. \A p \in D : SplitRatio(v[p], V) = r[p]
      BY <3>5, <3>7, <3>8
    <3>11. RatioRows(Answer) = r
      BY <2>7, <3>9, <3>10
    <3> QED
      BY <2>1, <2>2, <2>14, <3>11
  <2> QED
    BY <2>8, <2>15, <2>16
<1>2. FormInv => ReopenedAsEntered
  BY <1>1 DEF ReopenedAsEntered
<1> QED
  BY <1>2, FormInvariant, PTL

(* The ratios of any bill miss 1 by no more than half a ten-thousandth for *)
(* each beneficiary.                                                       *)
THEOREM RatiosNearWhole ==
  ASSUME NEW b, IsFiniteSet(DOMAIN b.weights), Splittable(b),
         \A p \in DOMAIN b.weights : b.weights[p] \in Int
  PROVE  2 * Distance(SumFunction(RatioRows(b)), 10000) <= Cardinality(DOMAIN b.weights)
<1>1. PICK D, w, r : D = DOMAIN w /\ w = b.weights /\ r = RatioRows(b)
  OBVIOUS
<1>2. IsFiniteSet(D) /\ \A p \in D : w[p] \in Int
  BY <1>1
<1>3. SumFunction(w) = SumOf(w, D)
  BY <1>1, SumsOverSets
<1>4. PICK W : W = SumOf(w, D)
  OBVIOUS
<1>5. W \in Int
  BY <1>2, <1>4, SumType
<1>6. W > 0
  BY <1>1, <1>3, <1>4 DEF Splittable
<1>7. r = [p \in D |-> SplitRatio(w[p], W)]
  BY <1>1, <1>3, <1>4 DEF RatioRows
<1>8. DOMAIN r = D /\ \A p \in D : r[p] = SplitRatio(w[p], W)
  BY <1>7
<1>9. SumFunction(r) = SumOf(r, D)
  BY <1>8, SumsOverSets
<1>10. /\ SumOf(r, D) \in Int /\ Cardinality(D) \in Nat
       /\ NearWhole(SumOf(r, D), Cardinality(D))
  <2>1. W \in Nat \ {0}
    BY <1>5, <1>6
  <2> QED
    BY <1>2, <1>4, <1>8, <2>1, WholeNear
<1>11. PICK R, n : R = SumFunction(r) /\ n = Cardinality(D)
  OBVIOUS
<1>12. /\ R \in Int /\ 10000 \in Int /\ n \in Int
       /\ 2 * R - 2 * 10000 <= n /\ 2 * 10000 - 2 * R <= n
  BY <1>9, <1>10, <1>11 DEF NearWhole
<1>13. 2 * Distance(R, 10000) <= n
  BY <1>12, DistanceIs
<1> QED
  BY <1>1, <1>11, <1>13

(* What the payers of any bill are taken to have paid misses its total by  *)
(* little more than half a hundredth for each of them.                     *)
THEOREM PaymentsNearTotal ==
  ASSUME NEW b, IsFiniteSet(DOMAIN b.payers), DOMAIN b.payers # {}, b.amount \in Nat
  PROVE  200 * Distance(SumFunction(PaidRows(b)), b.amount) <= 101 * Cardinality(DOMAIN b.payers)
<1>1. PICK P, a, n : P = DOMAIN b.payers /\ a = b.amount /\ n = Cardinality(P)
  OBVIOUS
<1>2. a \in Nat /\ n \in Nat \ {0}
  BY <1>1, FS_CardinalityType, FS_EmptySet
<1>3. PICK x, q, r : x = Rounded(100 * a, n) /\ q = Rounded(x, 100) /\ r = PaidRows(b)
  OBVIOUS
<1>4. 100 * a \in Nat /\ 100 \in Nat \ {0}
  BY <1>2
<1>5. x \in Nat /\ 2 * (n * x) <= 2 * (100 * a) + n
      /\ 2 * (100 * a) + n < 2 * (n * x) + 2 * n
  BY <1>2, <1>3, <1>4, RoundedIs
<1>6. q \in Nat /\ 2 * (100 * q) <= 2 * x + 100 /\ 2 * x + 100 < 2 * (100 * q) + 2 * 100
  <2>1. PICK h : h = 100
    OBVIOUS
  <2>2. x \in Int /\ x \in Nat /\ h \in Nat \ {0}
    BY <1>5, <2>1
  <2>3. /\ q = Rounded(x, h)
        /\ q \in Nat /\ 2 * (h * q) <= 2 * x + h /\ 2 * x + h < 2 * (h * q) + 2 * h
    BY <1>3, <2>1, <2>2, RoundedIs
  <2> QED
    BY <2>1, <2>3
<1>7. r = [p \in P |-> q]
  BY <1>1, <1>3 DEF PaidRows, PaidAmount
<1>8. DOMAIN r = P /\ \A p \in P : r[p] = q
  BY <1>7
<1>9. SumFunction(r) = SumOf(r, P)
  BY <1>8, SumsOverSets
<1>10. SumOf(r, P) = q * n
  <2>1. IsFiniteSet(P)
    BY <1>1
  <2> QED
    BY <1>1, <1>6, <1>8, <2>1, SumOfOnes
<1>11. PICK y, s : y = n * x /\ s = n * q
  OBVIOUS
<1>12. y \in Nat /\ s \in Nat /\ q * n = s
  BY <1>2, <1>5, <1>6, <1>11
<1>13. 200 * s <= 2 * y + 100 * n /\ 2 * y <= 200 * s + 100 * n
  <2>1. 200 * q <= 2 * x + 100 /\ 2 * x <= 200 * q + 100
    BY <1>5, <1>6
  <2>2. /\ 200 * q \in Nat /\ 2 * x + 100 \in Nat
        /\ 2 * x \in Nat /\ 200 * q + 100 \in Nat /\ n \in Nat
    BY <1>2, <1>5, <1>6
  <2>3. n * (200 * q) <= n * (2 * x + 100) /\ n * (2 * x) <= n * (200 * q + 100)
    BY <2>1, <2>2, Growing
  <2>4. /\ n * (200 * q) = 200 * (n * q) /\ n * (2 * x + 100) = 2 * (n * x) + 100 * n
        /\ n * (2 * x) = 2 * (n * x) /\ n * (200 * q + 100) = 200 * (n * q) + 100 * n
    BY <1>2, <1>5, <1>6
  <2> QED
    BY <1>11, <2>3, <2>4
<1>14. 200 * s - 200 * a <= 101 * n /\ 200 * a - 200 * s <= 101 * n
  BY <1>2, <1>5, <1>11, <1>12, <1>13
<1>15. 200 * Distance(s, a) <= 101 * n
  BY <1>2, <1>12, <1>14 DEF Distance
<1> QED
  BY <1>1, <1>3, <1>9, <1>10, <1>12, <1>15
===============================================================================
