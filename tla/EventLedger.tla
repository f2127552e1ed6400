----------------------------- MODULE EventLedger -----------------------------
(***************************************************************************)
(* The members and the expenses of one standing event: joining, adding a   *)
(* guest, leaving, kicking; creating, updating and deleting an expense;    *)
(* and the statistics that triggers keep on the event row.                 *)
(*                                                                         *)
(* As in PaymentRequests every call has a handler of its own, what a       *)
(* statement sees is the committed state, and locks follow from where the  *)
(* handlers are.  A new participant or expense row is named after the call *)
(* that inserts it: who leaves and joins again has a new row.              *)
(*                                                                         *)
(* Settlements and payment requests of these members are the subject of    *)
(* PaymentRequests.                                                        *)
(***************************************************************************)
EXTENDS Integers, FiniteSets, FiniteSetsExt, ExpenseSplit

CONSTANTS
  Calls,      \* HTTP calls, each served once
  Workloads,  \* what the calls may ask for: functions from Calls to Ops
  Users,      \* accounts
  Creator,    \* the account that created the event
  Founders,   \* participant rows when the model starts
  Account,    \* Account[p]: the account of founder p, or None
  Bills,      \* the expenses a client may send: amount, payers, and who
              \* bears which weight, of any sign; both are lists
  None        \* a NULL, or no row

Ops == {"join", "addGuest", "leave", "kick", "spend", "revise", "erase"}

Ids == Founders \cup Calls

Gone == "gone"

(* An expense with detail rows of S who paid and of T who share it. *)
ExpenseOn(S, T) == [total : Nat, paid : [S -> Nat], ratio : [T -> Int]]

ASSUME ELAssumption ==
  /\ Workloads \subseteq [Calls -> Ops]
  /\ Creator \in Users
  /\ Founders \cap Calls = {} /\ IsFiniteSet(Founders)
  /\ Account \in [Founders -> Users \cup {None}]
  /\ \A p, q \in Founders : Account[p] = Account[q] /\ Account[p] # None => p = q
  /\ \A b \in Bills :
       /\ b.amount \in Nat
       /\ b.payers \in [DOMAIN b.payers -> Ids] /\ IsFiniteSet(DOMAIN b.payers)
       /\ b.bearers \in [DOMAIN b.weights -> Ids]
       /\ b.weights \in [DOMAIN b.weights -> Int] /\ IsFiniteSet(DOMAIN b.weights)
  /\ None \notin Users \cup Ids /\ Gone \notin Users \cup {None}
  /\ \A S, T \in SUBSET Ids : None \notin ExpenseOn(S, T)

NoBill == [amount |-> 0, payers |-> <<>>, bearers |-> <<>>, weights |-> <<>>]

(* The steps of a handler between its awaits on the database. *)
Steps == {"idle", "insertRow", "balance", "lockRow", "cascade", "count",
          "insertExpense", "updateExpense", "deleteDetails", "insertDetails",
          "commit", "eraseExpense", "notify", "done"}

(* A handler's local variables: the caller of a removal, the user to add   *)
(* or remove and his row, the expense, its bill and the names it may use.  *)
NoFrame == [caller |-> None, user |-> None, target |-> None, expense |-> None,
            bill |-> NoBill, known |-> {}]

VARIABLES
  endpoint,   \* endpoint[c]: what the call c asks for, chosen at the start
  account,    \* account[p]: account of participant row p, None for a guest
  expenses,   \* expenses[x]: total, paid rows and ratio rows of expense x
  stats,      \* total_participants, total_transactions, total_expenses
  pc,         \* pc[c]: the next step of the handler of c
  frame,      \* frame[c]: its local variables
  answer      \* answer[c]: what the client was told

vars == <<endpoint, account, expenses, stats, pc, frame, answer>>

Rows     == {p \in Ids : account[p] # Gone}
Expenses == {x \in Calls : expenses[x] # None}

RowOf(u) == {p \in Rows : account[p] = u}
IsMember(u) == RowOf(u) # {}

Rowed(e) ==
  /\ DOMAIN e.paid \subseteq Ids /\ DOMAIN e.ratio \subseteq Ids
  /\ e \in ExpenseOn(DOMAIN e.paid, DOMAIN e.ratio)

TypeOK ==
  /\ account \in [Ids -> Users \cup {None, Gone}]
  /\ DOMAIN expenses = Calls
  /\ \A x \in Calls : expenses[x] = None \/ Rowed(expenses[x])
  /\ stats \in [participants : Nat, transactions : Nat, total : Nat]
  /\ pc \in [Calls -> Steps]
  /\ frame \in [Calls -> [caller : Users \cup {None}, user : Users \cup {None},
                          target : Ids \cup {None},
                          expense : Calls \cup {None},
                          bill : Bills \cup {NoBill}, known : SUBSET Ids]]
  /\ answer \in [Calls -> {"none", "ok", "refused", "error"}]

Init ==
  /\ endpoint \in Workloads
  /\ account = [p \in Ids |-> IF p \in Founders THEN Account[p] ELSE Gone]
  /\ expenses = [x \in Calls |-> None]
  /\ stats = [participants |-> Cardinality(Founders), transactions |-> 0,
              total |-> 0]
  /\ pc = [c \in Calls |-> "idle"]
  /\ frame = [c \in Calls |-> NoFrame]
  /\ answer = [c \in Calls |-> "none"]

-----------------------------------------------------------------------------
(* Balances *)

(* What GetParticipantBalance adds up for participant p: paid less shares. *)
Balance(p) ==
  MapThenSumSet(
    LAMBDA x : (IF p \in DOMAIN expenses[x].paid
                  THEN PaidUnits(expenses[x].paid[p]) ELSE 0)
               - (IF p \in DOMAIN expenses[x].ratio
                    THEN ShareOf(expenses[x].total, expenses[x].ratio[p]) ELSE 0),
    Expenses)

(* The query goes by account: who has no row any more has balance 0. *)
BalanceOfUser(u) == MapThenSumSet(Balance, RowOf(u))

(* Outside of +-0.01. *)
NotZero(balance) == balance > 10000 \/ balance < -10000

-----------------------------------------------------------------------------
(* Locks *)

Named(bill) == Range(bill.payers) \cup Range(bill.bearers)

Mentions(x) == DOMAIN expenses[x].paid \cup DOMAIN expenses[x].ratio

(* The trigger on expenses changes the event row when the total changes. *)
TotalChanges(c) ==
  expenses[frame[c].expense] # None
  /\ expenses[frame[c].expense].total # frame[c].bill.amount

(* d's transaction wrote an expense; a trigger updated the event row. *)
HoldsEvent(d) ==
  /\ pc[d] \in {"deleteDetails", "insertDetails", "commit"}
  /\ endpoint[d] = "spend" \/ TotalChanges(d)

HoldsExpense(d, x) ==
  /\ endpoint[d] = "revise" /\ frame[d].expense = x
  /\ pc[d] \in {"deleteDetails", "insertDetails", "commit"}

(* d's transaction deleted the detail rows of x. *)
HoldsDetails(d, x) == HoldsExpense(d, x) /\ pc[d] # "deleteDetails"

(* d's transaction inserted a detail row that names p. *)
Shares(d, p) == pc[d] = "commit" /\ p \in Named(frame[d].bill)

(* d's DELETE owns participant p; at "count" it has cleared p's details. *)
Deletes(d, p) == pc[d] \in {"cascade", "count"} /\ frame[d].target = p

Clears(d, x) == pc[d] = "count" /\ frame[d].target \in Mentions(x)

(* The next statement of c needs a row that d has locked. *)
WaitsFor(c, d) ==
  LET x == frame[c].expense IN
  \/ /\ pc[c] \in {"insertRow", "insertExpense", "count"}
     /\ HoldsEvent(d)
  \/ /\ pc[c] = "lockRow"
     /\ Deletes(d, frame[c].target) \/ Shares(d, frame[c].target)
  \/ /\ pc[c] = "cascade"
     /\ \E y \in Expenses : frame[c].target \in Mentions(y) /\ HoldsDetails(d, y)
  \/ /\ pc[c] = "updateExpense"
     /\ HoldsExpense(d, x) \/ (TotalChanges(c) /\ HoldsEvent(d))
  \/ /\ pc[c] = "deleteDetails"
     /\ expenses[x] # None /\ Clears(d, x)
  \/ /\ pc[c] = "insertDetails"
     /\ \E p \in Named(frame[c].bill) \cap frame[c].known : Deletes(d, p)
  \/ /\ pc[c] = "eraseExpense" /\ expenses[x] # None
     /\ HoldsExpense(d, x) \/ Clears(d, x) \/ HoldsEvent(d)

Free(c) == \A d \in Calls : c = d \/ ~WaitsFor(c, d)

-----------------------------------------------------------------------------
(* Ends of a handler *)

tables == <<account, expenses, stats>>

Goto(c, step) == pc' = [pc EXCEPT ![c] = step]

Reply(c, a) ==
  /\ Goto(c, "done")
  /\ answer' = [answer EXCEPT ![c] = a]

(* The reply is all that happens: an early return or a rollback. *)
Return(c, a) == Reply(c, a) /\ UNCHANGED <<tables, frame>>

Step(c, step) == Goto(c, step) /\ UNCHANGED <<tables, frame, answer>>

Enter(c, f, step) ==
  /\ frame' = [frame EXCEPT ![c] = f]
  /\ Goto(c, step)
  /\ UNCHANGED <<tables, answer>>

Arrives(c, op) == pc[c] = "idle" /\ endpoint[c] = op

-----------------------------------------------------------------------------
(* JoinEvent and AddVirtualParticipant *)

(* An error of the lookup is taken for "not a member yet". *)
JoinLookup(c, u) ==
  /\ Arrives(c, "join")
  /\ \/ IsMember(u) /\ Return(c, "refused")
     \/ Enter(c, [NoFrame EXCEPT !.user = u], "insertRow")

AddGuestLookup(c, u) ==
  /\ Arrives(c, "addGuest")
  /\ IF IsMember(u) THEN Enter(c, NoFrame, "insertRow")
     ELSE Return(c, "refused")

(* A participants table without UNIQUE(event_id, user_id). *)
NeverTaken(u) == FALSE

(* UNIQUE(event_id, user_id); a NULL is never equal to a NULL. *)
Taken(u) == u # None /\ IsMember(u)

(* The row of a user who was a founder is used again. *)
FormerRow(c) ==
  CHOOSE p \in Ids :
    \/ p \in Founders /\ Account[p] = frame[c].user
    \/ p = c /\ \A q \in Founders : Account[q] # frame[c].user

(* A new BIGSERIAL. *)
NewRow(c) == c

(* INSERT INTO participants, with its trigger.  The creator is told of a   *)
(* user who joined, of no guest.                                           *)
InsertRow(c) ==
  LET u == frame[c].user IN
  /\ pc[c] = "insertRow"
  /\ Free(c)
  /\ \/ /\ Taken(u)
        /\ Return(c, "error")
     \/ /\ ~Taken(u)
        /\ account' = [account EXCEPT ![NewRow(c)] = u]
        /\ stats' = [stats EXCEPT !.participants = @ + 1]
        /\ IF u \in {None, Creator}
             THEN Reply(c, "ok")
             ELSE Goto(c, "notify") /\ UNCHANGED answer
        /\ UNCHANGED <<expenses, frame>>

-----------------------------------------------------------------------------
(* LeaveEvent and KickParticipant *)

LeaveLookup(c, u) ==
  /\ Arrives(c, "leave")
  /\ \/ /\ ~IsMember(u)
        /\ Return(c, "refused")
     \/ \E p \in RowOf(u) :
          Enter(c, [NoFrame EXCEPT !.caller = u, !.user = u, !.target = p],
                "balance")

(* Any member may kick any other. *)
AnyMemberKicks(u, p) == p \in Rows /\ IsMember(u) /\ account[p] # u

MayKick(u, p) == p \in Rows /\ u = Creator /\ account[p] # u

(* The balance of a guest is not looked at. *)
KickLookup(c, u, p) ==
  /\ Arrives(c, "kick")
  /\ \/ /\ ~MayKick(u, p)
        /\ Return(c, "refused")
     \/ /\ MayKick(u, p)
        /\ Enter(c, [NoFrame EXCEPT !.caller = u, !.user = account[p],
                                    !.target = p],
                 IF account[p] = None THEN "lockRow" ELSE "balance")

(* What is read here may be out of date when the row is locked; and when   *)
(* the query fails the removal goes on without it.                         *)
ReadBalance(c) ==
  /\ pc[c] = "balance"
  /\ \/ NotZero(BalanceOfUser(frame[c].user)) /\ Return(c, "refused")
     \/ Step(c, "lockRow")

(* DELETE FROM participants in three steps: the row, the foreign keys, the *)
(* trigger.  A row that is gone is no error.                               *)
LockRow(c) ==
  /\ pc[c] = "lockRow"
  /\ Free(c)
  /\ IF frame[c].target \in Rows THEN Step(c, "cascade") ELSE Return(c, "ok")

Cascade(c) ==
  /\ pc[c] = "cascade"
  /\ Free(c)
  /\ Step(c, "count")

(* ON DELETE SET NULL: the detail row stays and is nobody's any more. *)
Without(f, p) == Restrict(f, DOMAIN f \ {p})

RemoveRow(c) ==
  LET p == frame[c].target IN
  /\ pc[c] = "count"
  /\ Free(c)
  /\ account' = [account EXCEPT ![p] = Gone]
  /\ expenses' = [x \in Calls |->
       IF expenses[x] = None THEN None
       ELSE [expenses[x] EXCEPT !.paid = Without(@, p),
                                !.ratio = Without(@, p)]]
  /\ stats' = [stats EXCEPT !.participants = @ - 1]
  /\ Reply(c, "ok")
  /\ UNCHANGED frame

-----------------------------------------------------------------------------
(* CreateTransaction *)

(* The participants the bill may name are read before the transaction. *)
SpendLookup(c, u, bill) ==
  /\ Arrives(c, "spend")
  /\ LET valid == DOMAIN bill.payers # {} /\ DOMAIN bill.weights # {} /\ IsMember(u)
     IN \/ /\ ~valid
           /\ Return(c, "refused")
        \/ /\ valid
           /\ Enter(c, [NoFrame EXCEPT !.expense = c, !.bill = bill,
                                       !.known = Rows], "insertExpense")

InsertExpense(c) ==
  /\ pc[c] = "insertExpense"
  /\ Free(c)
  /\ Step(c, "insertDetails")

(* The list read before the transaction is all that is looked at. *)
InTheList(bill, known) == Named(bill) \subseteq known

(* Every name is in that list and, by the foreign key, still a row. *)
Resolved(bill, known) == Named(bill) \subseteq known \cap Rows

(* A name that does not resolve undoes the transaction. *)
InsertDetails(c) ==
  /\ pc[c] = "insertDetails"
  /\ Free(c)
  /\ IF Splittable(frame[c].bill) /\ Resolved(frame[c].bill, frame[c].known)
       THEN Step(c, "commit")
       ELSE Return(c, "error")

(* What the rows of the entries make for each participant: somebody may be *)
(* named more than once.                                                   *)
Together(rows, who) ==
  [p \in Range(who) |-> SumFunctionOnSet(rows, {i \in DOMAIN who : who[i] = p})]

RowsOf(bill) ==
  [total |-> bill.amount,
   paid  |-> Together(PaidRows(bill), bill.payers),
   ratio |-> Together(RatioRows(bill), bill.bearers)]

(* The trigger without its TG_OP = 'UPDATE' branch. *)
CountedOnInsert(x, n, total) ==
  [stats EXCEPT !.transactions = @ + n,
                !.total = @ + n * (IF n = 1 THEN total ELSE expenses[x].total)]

(* The triggers on expenses: the count and the sum follow the table. *)
Counted(x, n, total) ==
  [stats EXCEPT !.transactions = @ + n,
                !.total = @ + total
                   - (IF expenses[x] = None THEN 0 ELSE expenses[x].total)]

CommitSpend(c) ==
  /\ pc[c] = "commit" /\ endpoint[c] = "spend"
  /\ expenses' = [expenses EXCEPT ![c] = RowsOf(frame[c].bill)]
  /\ stats' = Counted(c, 1, frame[c].bill.amount)
  /\ Goto(c, "notify")
  /\ UNCHANGED <<account, frame, answer>>

-----------------------------------------------------------------------------
(* UpdateTransaction and DeleteTransaction *)

ReviseLookup(c, u, x, bill) ==
  /\ Arrives(c, "revise")
  /\ IF expenses[x] # None /\ IsMember(u)
       THEN Enter(c, [NoFrame EXCEPT !.expense = x, !.bill = bill,
                                     !.known = Rows], "updateExpense")
       ELSE Return(c, "refused")

(* The update takes effect before the rest of the transaction. *)
UpdateAtOnce(c) ==
  /\ pc[c] = "updateExpense"
  /\ Free(c)
  /\ \/ /\ expenses[frame[c].expense] = None
        /\ Return(c, "error")
     \/ /\ expenses[frame[c].expense] # None
        /\ expenses' = [expenses EXCEPT ![frame[c].expense].total =
                          frame[c].bill.amount]
        /\ stats' = Counted(frame[c].expense, 0, frame[c].bill.amount)
        /\ Goto(c, "deleteDetails")
        /\ UNCHANGED <<account, frame, answer>>

UpdateExpense(c) ==
  /\ pc[c] = "updateExpense"
  /\ Free(c)
  /\ IF expenses[frame[c].expense] # None THEN Step(c, "deleteDetails")
     ELSE Return(c, "error")

DeleteDetails(c) ==
  /\ pc[c] = "deleteDetails"
  /\ Free(c)
  /\ Step(c, "insertDetails")

CommitRevise(c) ==
  LET x == frame[c].expense IN
  /\ pc[c] = "commit" /\ endpoint[c] = "revise"
  /\ expenses' = [expenses EXCEPT ![x] = RowsOf(frame[c].bill)]
  /\ stats' = Counted(x, 0, frame[c].bill.amount)
  /\ Reply(c, "ok")
  /\ UNCHANGED <<account, frame>>

EraseLookup(c, u, x) ==
  /\ Arrives(c, "erase")
  /\ IF expenses[x] # None /\ IsMember(u)
       THEN Enter(c, [NoFrame EXCEPT !.expense = x], "eraseExpense")
       ELSE Return(c, "refused")

(* DELETE FROM expenses, with its details and its trigger. *)
EraseExpense(c) ==
  LET x == frame[c].expense IN
  /\ pc[c] = "eraseExpense"
  /\ Free(c)
  /\ \/ /\ expenses[x] = None
        /\ Return(c, "ok")
     \/ /\ expenses[x] # None
        /\ expenses' = [expenses EXCEPT ![x] = None]
        /\ stats' = Counted(x, -1, 0)
        /\ Reply(c, "ok")
        /\ UNCHANGED <<account, frame>>

-----------------------------------------------------------------------------

(* The notifications.  A failure is the caller's error when he joined, and *)
(* is forgotten when he created an expense.                                *)
Notify(c) ==
  /\ pc[c] = "notify"
  /\ \/ Return(c, "ok")
     \/ endpoint[c] = "join" /\ Return(c, "error")

(* A lost connection or a crash of the server. *)
Abort(c) ==
  /\ pc[c] \notin {"idle", "done"}
  /\ Return(c, "error")

Deadlocked(c) ==
  \E S \in SUBSET {a \in Calls : ~Free(a)} :
    c \in S /\ \A a \in S : \E b \in S \ {a} : WaitsFor(a, b)

NoDetector(c) == FALSE

(* PostgreSQL aborts one of the transactions that wait for one another. *)
DeadlockAbort(c) == Deadlocked(c) /\ Return(c, "error")

Request(c) ==
  \E u \in Users :
    \/ JoinLookup(c, u)
    \/ AddGuestLookup(c, u)
    \/ LeaveLookup(c, u)
    \/ \E p \in Ids : KickLookup(c, u, p)
    \/ \E bill \in Bills : SpendLookup(c, u, bill)
    \/ \E x \in Calls : EraseLookup(c, u, x)
                        \/ \E bill \in Bills : ReviseLookup(c, u, x, bill)

Run(c) ==
  \/ InsertRow(c)
  \/ ReadBalance(c) \/ LockRow(c) \/ Cascade(c) \/ RemoveRow(c)
  \/ InsertExpense(c) \/ InsertDetails(c) \/ CommitSpend(c)
  \/ UpdateExpense(c) \/ DeleteDetails(c) \/ CommitRevise(c)
  \/ EraseExpense(c)
  \/ Notify(c)

Next ==
  /\ \E c \in Calls : Request(c) \/ Run(c) \/ Abort(c) \/ DeadlockAbort(c)
  /\ UNCHANGED endpoint

(* A handler that the database lets run runs, and the detector detects. *)
Fairness ==
  /\ \A c \in Calls : WF_vars(Run(c) /\ UNCHANGED endpoint)
  /\ WF_vars((\E c \in Calls : DeadlockAbort(c)) /\ UNCHANGED endpoint)

Spec == Init /\ [][Next]_vars
FairSpec == Spec /\ Fairness

-----------------------------------------------------------------------------
(* Properties *)

(* However many times a user joins at once, the event has one row of his: *)
(* the handler's check may be out of date, the constraint is not.          *)
OneRowPerUser == \A u \in Users : Cardinality(RowOf(u)) <= 1

(* The counters of the event row agree with the tables they summarise,     *)
(* whatever handlers insert, update, delete and fail in between.           *)
StatsMatchTables ==
  stats = [participants |-> Cardinality(Rows),
           transactions |-> Cardinality(Expenses),
           total |-> MapThenSumSet(LAMBDA x : expenses[x].total, Expenses)]

(* No detail of an expense names a participant who is gone: the handlers   *)
(* translate names with a list they read before the transaction.           *)
DetailsNameMembers == \A x \in Expenses : Mentions(x) \subseteq Rows

(* What the payers of an expense paid and what its beneficiaries owe both  *)
(* add up to its total, also when updates of it overlap or fail half way,  *)
(* as long as the founders, whom the bills name, are all there.            *)
BillsAddUp ==
  Founders \subseteq Rows =>
    \A x \in Expenses :
      /\ SumFunction(expenses[x].paid) = expenses[x].total
      /\ SumFunction(expenses[x].ratio) = 10000

(* Who was told that he left, or that he kicked somebody, finds the row    *)
(* gone for good; who was refused has changed nothing.                     *)
RemovalsStand ==
  \A c \in Calls :
    /\ answer[c] = "ok" /\ endpoint[c] \in {"leave", "kick"}
         => frame[c].target \notin Rows
    /\ answer[c] = "refused" => c \notin Rows /\ expenses[c] = None

(* Only its own account or the creator can make a row go away, and the     *)
(* creator's own row goes away by nobody's kick.                           *)
RemovalsAuthorised ==
  [][\A p \in Rows : account'[p] = Gone =>
       \E c \in Calls :
         /\ frame[c].target = p
         /\ \/ frame[c].caller = account[p]
            \/ frame[c].caller = Creator /\ account[p] # Creator]_vars

(* Every call is answered: handlers that wait for each other's rows are    *)
(* told apart by the deadlock detector.                                    *)
EveryCallAnswered == \A c \in Calls : pc[c] # "idle" ~> pc[c] = "done"

(* "Leave the event if the balance is 0": who owes money does not leave. *)
LeaverOwesNothing ==
  [][\A c \in Calls :
       pc[c] = "count" /\ answer'[c] = "ok" /\ endpoint[c] = "leave"
         => ~NotZero(Balance(frame[c].target))]_vars

(* "Kick a participant (creator only, checks the balance)": nobody with a  *)
(* balance is kicked.  Stated for the state the handler looked at, before  *)
(* anybody else moved.                                                     *)
KickedIsSettled ==
  [][\A c \in Calls :
       pc[c] = "idle" /\ pc'[c] = "lockRow"
         => ~NotZero(Balance(frame'[c].target))]_vars

(* "List the transactions of the event": the name of a payer is read into  *)
(* a string, so every expense must have a payer who is a participant.      *)
ListingReadable == \A x \in Expenses : DOMAIN expenses[x].paid # {}
=============================================================================
