# Verification of Sharever (share-bill)

Sharever lets a group share the bills of an event: members enter expenses, the
server works out who owes whom, members pay each other and confirm payments.
The backend is a Go service over PostgreSQL and Redis; the frontend is a React
application that keeps the session in the browser. This directory holds TLA+
models of the parts of that system where the order of concurrent steps matters,
TLC configurations that check them, and TLAPS proofs about all of them.

Paths below are relative to `src/`; `be/` stands for
`share-bill-backend-v2/internal/` and `fe/` for `sharever-frontend/src/`.

## 1. The system

| Part | State it keeps | Operations | Where it is hard |
|---|---|---|---|
| Payment requests (`be/services/payment_request_service.go`) | table `payment_requests` | create, list, confirm, cancel | look-ups outside the transaction that decides; two deciders; removals; crashes |
| Settlements (`be/services/settlement_service.go`) | table `settlements` | record one directly, summarise the event with a repayment plan | money entered once; loop over floating point amounts |
| Expenses (`be/services/expense_service.go`) | `expenses`, `expense_payers`, `expense_beneficiaries` | create, get, list, update, delete | details deleted and inserted again by overlapping updates; names resolved from a stale list; rounding |
| Participants and events (`be/services/participant_service.go`, `event_service.go`) | `participants`, `events` with statistics columns | create, join, add a guest, leave, kick, update, delete | check-then-act on balances and membership; cascades; row locks |
| Schema (`be/db/migrations`) | constraints, cascades, triggers | fire inside other statements | counters kept by triggers under concurrency |
| Store and pool (`be/db/sqlc/store.go`, `be/db/connection.go`) | 20 connections | `ExecTx`, single queries | a transaction that needs a second connection |
| Registration (`be/services/auth_service.go`) | Redis `otp:*`, `otp_resend:*`; table `users` | request, resend, confirm a code | several Redis commands per call; expiries at any moment |
| Sessions, password (`auth_service.go`, `password_service.go`) | Redis `rt:*`; hash in `users` | login, refresh, logout, change password | rotation in two commands; overlapping refresh and logout |
| HTTP client, auth store (`fe/shared/api/http.ts`, `fe/features/auth/model/use-auth.ts`) | tokens in `localStorage`, a flag and a queue per tab | intercept 401, refresh, replay, log in and out | one exchange for many failing requests; several tabs |
| Activity page (`fe/pages/activity`, `fe/features/activity`) | cached summary and payment requests, the payment dialog | fetch and renew, pay, confirm, cancel, enter and delete expenses, remove members | decisions from caches; fetches that overlap calls; answers that get lost |
| Expense form (`fe/features/transaction-create`) | payer, selection, amounts, percentages | enter, reset by effects, validate, send | effects that run on renderings the user does not see; amounts stored as ratios |
| Account page (`fe/pages/accounts`, `fe/features/bank-update`) | bank accounts in `localStorage`; name, bank account and picture in `users`, name and bank account once more in each of the user's `participants` rows | add, edit, delete, set as default; change name, password, picture | one handler is many requests, one per event; handlers overlap, are cut off, or meet a join |
| Event pages and navigation (`fe/pages/home`, `dashboard`, `expenses`, `invite`, `fe/widgets`, `fe/stores`) | cached list of events, stored selection, page numbers, filter | create, delete, join, select, turn pages, log in and out | every page corrects the selection and its page number by effects, from a list that may be stale |
| Forms of login and registration, event detail page | fields | one call per button; reads | little |
| Notifications, QR, uploads, configuration | rows and URLs | read or write one thing | little |

Interactions. A browser calls a handler; the handler calls one service method;
the method issues statements to PostgreSQL or commands to Redis. Handlers share
no memory: every interaction between two calls goes through the database, by
what a statement can see at READ COMMITTED and by row locks. That is the shape
of all server modules: a `pc` per call, local variables that were read earlier,
one action per statement, and everything another call may do in between.

What would make each part correct is stated as the properties in section 4.

## 2. Modules

| Module | What it models |
|---|---|
| `PaymentContract` | the abstract promise: a request is proposed, decided at most once, and the ledger entry is made in the confirming step |
| `PaymentRequests` | the handlers of payment requests, direct settlements and removals, statement by statement, with row locks; implements `PaymentContract` through the instance `Book` |
| `PaymentRequests_proofs`, `ConnectionPool_proofs`, `Registration_proofs`, `Sessions_proofs`, `ActivityPage_proofs`, `Accounts_proofs` | TLAPS proofs about these modules |
| `Amounts_proofs`, `SessionAndPages_proofs` | TLAPS proofs about `EventLedger`, `SettlementPlan`, `ExpenseForm` and `ExpenseSplit`, which share the facts about sums, and about `ClientSession` and `EventPages`; for their sake the parts of some modules are called `PlanInit`, `FormInit`, `SessionInit` and so on |
| `ExpenseSplit` | the arithmetic of payers and ratios, shared with `EventLedger` |
| `EventLedger` | members and expenses of one event with triggers, cascades and locks; extends `ExpenseSplit` |
| `SettlementPlan` | the greedy loop of the event summary |
| `ConnectionPool` | `ExecTx` and the pool, with `CreateEvent` as the call that takes two connections |
| `Registration` | codes, counters and the account of one e-mail address |
| `Sessions` | refresh tokens and password of one account on the server |
| `ClientSession` | the interceptors, queue and storage of the browser |
| `ExpenseForm` | the dialog of an expense and what the server keeps of it; extends `ExpenseSplit` |
| `ActivityPage` | the caches of the activity page beside members, expenses and requests of one event |
| `Accounts` | the account page with the two syncs through the events, and the rows of the server it writes to |
| `EventPages` | the shared list of events, the selection and the pages of one tab, beside the server and other members |
| `MC...` | constants of the instances that TLC checks (`MCExpenseSplit` also drives the operators of `ExpenseSplit` over all small bills) |

How the code is rendered:

* An *endpoint* is a value of the constant function `Endpoint`: each call has a
  fixed endpoint and is served once. Its arguments are chosen by `\E` from the
  values a client can send.
* A *look-up* (queries before any write, and the early returns that depend on
  them) is one action when nothing between its queries can matter, else several.
  What it read is kept in `frame`.
* A *write* is one action per statement that takes a lock or that another call
  can see. A multi-statement transaction becomes visible at `Commit`; the rows
  it holds until then are derived from its `pc` (`HoldsRequest`, `Shares`,
  `Deletes`, ...). A statement that needs a row somebody holds is disabled
  (`Free`); a cycle of such waits is ended by `DeadlockAbort`.
* A cascade or trigger is part of the statement that fires it.
* `Abort` is a lost connection or a stop of the server: what was committed
  stays, an open transaction is undone, the client sees an error.
* Redis executes a command at a time, so in `Registration` and `Sessions` an
  action is a command; keys may expire at any moment.
* Serial ids, UUIDs and codes are named after the call that draws them: they
  are fresh because the call is. Two independent draws of the same six-digit
  code are therefore not modelled.
* In the browser an event handler runs to its next `await` without
  interruption, so an action of `ClientSession` is such a stretch; a 401 and its
  treatment are one action because a token that is refused stays refused. The
  server's side of a refresh is two steps (look-up, rotation), the finer grain
  is in `Sessions`.
* In `ExpenseForm` every action is one event of the browser. The page builds a
  new array of participants whenever it renders, so the effects of the dialog,
  which depend on that array, start over although the data are the same:
  `Rerender`. A toast, also the form's own, is enough to make the page render.
  A percentage is a number of parts of the constant `Whole`, 100 percent, which
  has so many that equal percentages are whole numbers; a sum is accepted within
  0.01 percent of it (`Tolerance`). Percentages can be typed below 0 but not above
  100, as in the field. Ratios are in ten-thousandths as the column has them.
* In `EventLedger` and `ExpenseSplit` a bill is what the server accepts, not only
  what the dialog sends: two lists in which a participant may be named more than
  once, with weights of any sign whose sum is positive. The rows of one
  participant are added up (`Together`), as every query does. A ratio too large
  for its column fails its INSERT, which is one of the cases of `Abort`.
* In `ActivityPage` a call is carried out by the server in one step (the steps
  are in `PaymentRequests` and `EventLedger`) and answered later; a fetch is
  asked, served and landed, and a fetch that is started anew drops the one under
  way, as TanStack Query does when it invalidates or refetches. A call whose
  answer is lost, or a fetch that fails, sets `doubt`, an observation of the
  model. Members without a page in the model act through `Elsewhere`. The plan
  is not computed by the loop of `SettlementPlan`: among three members there is
  one debtor or one creditor, so who pays whom is determined (`APAssumption`).

* In `Accounts` a call is a handler of the page: its first, synchronous part is
  one action, then each request it sends is one, so that handlers interleave
  between any two `await`s. A sync reads and writes the rows of the events in any
  order, as `Promise.all` lets it. The list of bank accounts is a sequence of
  records, and an account's three fields are one value (`Infos`). Reloading
  drops the handlers, leaving the page only takes away what they would do to its
  dialogs. `spoiled` is an observation: the kind of data (bank, name) that a
  failure, a cut or an overlap of two handlers may have left in disorder; a
  handler that runs alone to its end takes it away.
* In `EventPages` the effects of a page are part of the step that renders it
  (`Render`), since no event of the user comes between them. Events are numbered
  in the order of their creation, the list shows them newest first. The fetch of
  the list is asked, served and landed as in `ActivityPage`; a page that mounts
  is content with one under way, an invalidation starts it anew unless it is the
  first. `wanted` (the event the user chose or created last, forgotten when he
  loses it or a case occurs in which the code opens another), `deleted` and
  `doubt` are observations.

Bounds: the number of calls (two to six), members (two or three accounts, a
guest), bills, amounts, bank accounts and events are fixed by the configuration; no variable is
unbounded beyond them. A call that is never made is a behaviour of every model,
so a run with five calls contains all runs with fewer of the same endpoints.

## 3. Fairness

Safety runs assume none. `FairSpec` in `PaymentRequests` and `EventLedger` asks
for weak fairness of each handler's next statement (a goroutine the database
lets run is run; a statement that waits for a lock is not enabled) and of the
deadlock detector, which PostgreSQL runs after `deadlock_timeout`. No fairness
is assumed of arrivals or failures. `ConnectionPool` asks for it of each call's
next step: the pool hands a free connection to the longest waiting call, and
with finitely many calls weak fairness says no more than that. `ClientSession`
(`SessionFairSpec`) asks that each request that was sent is settled in some way,
as the client gives up after 15 s by itself (`fe/shared/api/http.ts:13`). It asks
nothing of the exchange of tokens, which is posted without a time-out (line 100).
So `OnlyExchangesHang` says that a request settles unless an exchange of its tab
goes on for ever, which it makes itself or waits for in the queue; that every
request settles is false (`SessionGaps`). `SettlementPlan` asks that its loop
goes on. `Accounts` and
`EventPages` assume none: their properties speak of the states in which
everything under way has ended.

## 4. Runs

Passing runs:

| Run | Question | Instance |
|---|---|---|
| `payment_race` | Is a request decided once, with exactly one settlement, true answers and notices; do references hold and does nothing leave the ledger; are the handlers an implementation of `PaymentContract`? | one creation, two confirmations, a cancellation, a direct settlement, a deletion of any row; two users |
| `ledger` | Do payers and shares of an expense add up however updates overlap, do the triggers' counters and the details agree with the tables; is membership unique, are removals final and authorised? | either a creation, two updates, a kick of a member who is named in the bill and a deletion, or two joins, a departure, a kick and a guest; two right bills, one of them with a participant named twice and a negative weight, and one without payers; three accounts |
| `settlement_plan` | Does the greedy plan end, and is it short, fair and sufficient? | all balances of four members from eleven values around the tolerance |
| `connection_pool` | Can the pool seize up, are connections returned? | two creations of events, two queries, one transaction, three connections |
| `registration` | One account, from a code generated for it? | a request, two resends, two confirmations; resend limit 1 |
| `sessions` | Where do refresh tokens come from, and do they stay dead? | a login, two refreshes, a logout, two changes of password |
| `client_session` | Does the flag of the tab tell the truth, is the queue served, is the user kept logged in, does a request settle unless an exchange hangs? | two requests of one tab, one of them the start-up call, two logins and a logout; failures on |
| `expense_form` | Is everybody selected charged the part the dialog shows for him of what it shows for all of them, and does the dialog show what the server has? | two people, two totals, three exact amounts, percentages of 100 and just below 0 beside the equal ones, all payers, selections, ways of splitting, renderings in between, unlimited editing |
| `activity_page` | When fetches, answers, failures and other members' calls have overlapped, does the page at rest show what its user did? | one page of the creator beside another member; one bill; two requests, interchangeable |
| `accounts` | Has the list one default; do server, events and screen agree with the page once all handlers have ended? | any two handlers, two values of a bank account, two names, two events, a list of up to two entries, also one of an earlier visit |
| `event_pages` | Does the chosen event stay selected, does a deleted one stay away, is no page of the lists empty? | two calls of any kind, one to three events, pages of two entries, a filter; one user, others who remove him |

The run that shows a disagreement between the code and what it says of itself:

| Run | What the code does |
|---|---|
| `leave_race` | lets a debtor leave if the expense is committed after the balance check (or if the balance query fails) |

Why these sizes are enough: a race needs two calls of the racing kind and one of
each kind that can interfere, and each run has them; a third call of a kind
only repeats, since a call keeps nothing once it is done. Lock cycles need two
transactions and are found with two: without the detector
(`NoDetector`), `DirectSettlement` has calls that are never answered. The page
needs two fetches (one per query), two requests and one other member to be
overtaken in every order. Two handlers of the account page overlap in all ways
that a pair can, two events are what a sync can leave half done (three handlers
in one event pass as well). Three events make two pages, one of which can
empty. The amounts of `expense_form` are those at which
rounding bites (3 = 1 + 2) and at which it does not (2000 = 1 + 1999); totals
far beyond 10000/(n + 1) for n people fail, which `FormGaps` shows. Every
property of a passing run fails when one mapped definition is replaced by a
plausible mistake; these mistakes are the operators such as `AnyStatus` or
`NoDetector` that stand before the definition they replace.

### Further instances

These configurations ask narrower questions of the same models. Check one with
`tlc -config <name>.cfg <module>`. The first four pass; TLC violates each
property of the others, and the trace is the behaviour described. The files
named `...Gaps` hold several properties of one instance, all but one of them
commented out.

| Configuration | Module | Property | What it shows |
|---|---|---|---|
| `GuestRequests` | `MCPaymentRequests` | those of `payment_race`, `TypeOK`, `GuestRequestsStayPending` | the race of `payment_race` with a guest among the parties: requests to him are never decided |
| `DirectSettlement` | `MCPaymentRequests` | `ReferencesExist`, `LedgerAppendOnly`, `EveryCallAnswered` | settlements of any sign beside a request, whose locks can form cycles: every call ends |
| | | `SettlementAmountsPositive` | a settlement of 0 is stored although the DTO demands `gt=0`: no validator is run |
| `LedgerLive` | `MCEventLedger` | `EveryCallAnswered` | a creation, an update, a kick and a departure all end: the detector breaks the cycles of expense and participant rows |
| `ExpenseSplit` | `MCExpenseSplit` | `PaidNearTotal`, `SharesNearTotal` | for all bills over four people, four totals and five weights, one of them negative, rounded payments and ratios stay within their rounding of the total |
| `RemovalGaps` | `MCEventLedger` | `KickedIsSettled` | a guest is kicked without any balance check |
| | | `ListingReadable` | a member who paid only for himself leaves with balance 0; `ON DELETE SET NULL` takes him off his expense, and the listing cannot scan the missing name of the payer |
| `PoolGaps` | `MCConnectionPool` | `TransactionsEnd` | concurrent `CreateEvent` calls, as many as there are connections, wait for each other for ever |
| | | `FailureLeavesNothing` | `CreateEvent` calls `s.store` inside `ExecTx` instead of the queries of the transaction: when it fails half way the event stays, without its creator, although `ExecTx` promises to roll back (`be/db/sqlc/store.go:13`) |
| `ResendLimit` | `MCRegistration` | `FiveResends` | 100 resends an hour are allowed where the comment says 5 |
| `ResendGaps` | `MCRegistration` | `ResendExtends` | a resend overwrites a newer code with the older one whose life it means to extend |
| | | `CounterExpires` | the resend counter has no expiry if `EXPIRE` fails once |
| `RefreshTwice` | `MCSessions` | `ExchangedOnce` | one refresh token is exchanged twice |
| `SessionGaps` | `MCClientSession` | `SessionKept` | with two tabs, one logs the user out of a session that the other has just renewed |
| | | `LoginKept` | the refusal of an exchange clears the storage without a look at it, and with it the session of a login made in the meantime |
| | | `EveryRequestSettles` | the exchange is posted with plain axios instead of the client with its 15 s (`fe/shared/api/http.ts:100`): if its answer never comes, all requests of the tab wait in the queue for ever |
| `FormGaps` | `MCExpenseForm` | `SplitAsChosen` | the user takes somebody off, the page renders, everybody is selected again, and the bill is split among all |
| | | `PercentagesCharged` | the percentage of a person who was taken off still counts towards 100, so the others are charged more than the percentage they see, in proportion; `SharesAsAsked` says the latter for all cases and the percentage itself for the others |
| | | `ReopenedAsEntered` | 70000 among three: ratios of four decimals do not give the exact amounts back, and the dialog refuses the values it shows |
| `PageGaps` | `MCActivityPage` | `RemovedUninvolved` | entering an expense does not renew the summary, so the creator can remove a member who is part of it |
| | | `PaymentsDue` | a payment is confirmed that is not due any more: the page offered it from a plan that others have changed |
| `SelectionGaps` | `MCEventPages` | `SelectionOwn` | an event the user was removed from stays selected on the home page and the list page, which fill an empty selection but never correct one (`fe/pages/dashboard/events-list-page.tsx:68`) |
| | | `FilteredPagesShown` | the filtered list loses an entry while the whole list keeps its length: the list page shows an empty page (line 208) |
| | | `CreatedOpened` | the list that a creation renews fails to come, or its wait is ended by another renewal: the activity page drops the new event and opens another |
| | | `JoinedOpened` | joining does not renew the list, so the activity page drops the event just joined (`fe/pages/invite/invite-page.tsx:58`) |
| | | `SelectionSurvives` | a reload on the activity page empties the stored selection before the list is there (`fe/pages/activity/activity-page.tsx:126`) |
| | | `ListOwn` | the logout of the header keeps the query cache; the next user's page joins the fetch of the former and shows his events (`fe/widgets/header/header.tsx:219`) |

The `Resend` instances run with the limit of the code, 100;
`registration` lowers it to 1 so that the refusal happens.

Two limits of `activity_page` are part of its properties. They speak of a page
at rest none of whose calls or fetches has failed (`~doubt[p]`): after a lost
answer the page keeps its dialog, and its user may send a payment again. And
they speak of the only page of its user; a second tab learns of a call when it
gets the focus.

So it is with the others of the browser. `DefaultEverywhere` and
`NameEverywhere` speak of the moments in which no handler is under way, and
except data that failures or overlaps have touched until a handler has run alone
again: overlapping handlers do disagree, as nothing orders their requests. They
also except an empty list, since deleting the last account sends empty strings,
which the server takes for "no change". `ChoiceKept` excepts the cases that
`SelectionGaps` shows, and `DeletedGone` lists of which a fetch has failed.

## 5. Proofs

`PaymentRequests_proofs` proves, for any set of calls, endpoints, participants,
guests and amounts that satisfy `PRAssumption` and `NoneAssumption`:

* `TypeCorrect`: `Spec => []TypeOK`
* `ConfirmedOnce`: `Spec => []ConfirmedIffSettledOnce`
* `NoDanglingReference`: `Spec => []ReferencesExist`
* `GuestRequestsUndecided`: `Spec => []GuestRequestsStayPending`
* `DecisionsFinal`: `Spec => DecisionFinal`
* `LedgerKept`: `Spec => LedgerAppendOnly`
* `AnswersHold`: `Spec => []AnswersTrue`
* `NoticesHold`: `Spec => []NoticesTrue`
* `Implements`: `Spec => ImplementsContract`, that is `Spec => Book!Spec`

`ConfirmedIffSettledOnce` is not inductive. It holds across a commit only
because the confirming transaction kept the request row locked since its
conditional UPDATE, so that it is still pending, and because the copy of the
row that the look-up put into the frame still is what the table holds. The
inductive invariant `IInv` therefore adds: frames have the shape their `pc`
promises (`FramesOK`), a call that has not inserted has no row of its name
(`RowsFresh`), a decider's copy agrees with the row as long as that exists
(`CopiesTrue`), and a request that a transaction holds exists and is pending
(`HeldRequestsPending`); `ReferencesExist` and `GuestRequestsStayPending` are
part of it, as settlements keep their parents from being deleted and the look-up
compares the caller with the receiver. There is a lemma per action, and
`Invariant` combines them.

The action properties and the refinement follow from `IInv` step by step. Only
six statements change the tables (`TableWrite`, `TablesChange`); everything else
is a stutter of the contract. A creation is its `Propose`, the commit of a
confirmation its `Confirm` (the copy in the frame is true, and no entry was made
before because the request is pending), the UPDATE of a cancellation its
`Cancel`, the removal of a participant its `Withdraw` of all his requests, none
of which was paid since a settlement would have kept him, and the deletion of
the event its `CloseBook`. A direct settlement is invisible to it.

For the answers and notices the invariant `Told` is added to `IInv`: each
handler walks the path of its endpoint, has no request of its own before it
inserted one and no answer before its end (`PathOK`); what a call decided stands
from its write on (`DecisionStands`); and two calls that decided never had the
same request (`OneDecider`), since who decides finds the request pending, which
it no longer is for the second. One lemma (`ToldStep`) says what a step must not
do; the actions meet its conditions.

`Amounts_proofs` proves of `EventLedger`, for any calls, workloads, accounts, founders and
bills under `ELAssumption`, `DetailsHaveMembers` (`Spec =>
[]DetailsNameMembers`), `JoinedOnce` (`Spec => []OneRowPerUser`), `RemovalsHold`
(`Spec => []RemovalsStand`) and `RemovalsByRight` (`Spec =>
RemovalsAuthorised`). The list of names a transaction uses may be out of date
when it inserts its details; what saves it is that the insertion shares the rows
of all it names until it commits, while no removal holds any of them
(`NamesHeld`), and that a removal takes its participant off all expenses in the
step in which the row goes. A row is inserted by the one call it is named after
(`RowsFresh`), and a look-up only finds rows that were inserted (`Inserted`), so
that the row a removal has in hand stays the same person's until it is gone
(`TargetsOK`).

With the same invariant it proves `StatsRight` (`Spec => []StatsMatchTables`),
`TypeCorrect` (`Spec => []TypeOK`) and `BillsWhole`. The statistics need that
a removal which has locked its row has it alone, that an update's expense is not
deleted under it, and that a transaction about to commit has a bill with rows
(`Held`); then each trigger counts what its statement does (`NInv`). The total
of the event is a sum, which the library computes by folding over a set in an
order of its own choice. That the fold exists, that two folds agree, and that one
term can be taken out or replaced (`FoldsExist`, `FoldsAgree`, `SumWithout`,
`SumSame`) is proved by a smallest counterexample: a nonempty set of subsets of a
finite set has a smallest one (`SmallestSet`), and the equation of the fold
leads from it to a smaller one. So no induction theorem with an operator as its
parameter is needed. `BillsWhole` is `Spec => []BillsAddUp` under the hypothesis
`EvenBills`: the bills that can be divided name founders only and divide without
rounding. The bills of the run satisfy it; for others expenses add up only as
nearly as `ExpenseSplit` allows. As long as all founders are there an expense is
then the rows of one bill (`OneBill`), since an update holds the expense while it
deletes and inserts details. `ELAssumption` says that founders and the names of a
bill are finitely many, that amounts are natural numbers, and that the values
`None` and `Gone` are no accounts, rows or expenses. Weights are integers of any
sign and the lists of a bill may repeat a name, so that the paid amounts of a
detail are natural numbers but its ratios only integers.

Of `SettlementPlan` it proves, for any finite set of participants, any balances and
any `Cent`, the types and `NeverOverpaid` (`Spec => []NobodyOverpays`), `PlanShort`
(`Spec => []PlanIsShort`) and `PlanSettled` (`Spec => []PlanSettles`). The first
is inductive with the types. For the second the payments and the entries of both
maps are counted together (`Short`). For the third the invariant (`Open`) follows
what the plan leaves open: debts and credits that are open differ by the sum of
the balances (`Balanced`), and the loop has two phases. While it suggests
payments the maps hold all that is open but less than a hundredth for each entry
that went (`Full`). Once it drops a payment, nobody on one of the sides has more
than a hundredth open. Not everybody is on that side, so less is open there in
all than a hundredth for each participant; as much in all is open on the other
side, and nobody there can have more (`Spread`, `Small`).

Of `ExpenseForm` it proves `PartsCharged` (`FormSpec => SharesAsAsked`) and
`FormTypeCorrect` under `EFAssumption` and `PercentAssumption` alone, which allow
any integer up to `Whole` as a percentage: ratios lie between 0 and 10000 unless
the expense was entered by percentages. That a percentage is the part of the
percentages of all selected needs no more than rounding (`RatioIsPart`); that
these are 100 together if nobody was taken off with one follows from the check of
the dialog (`PercentsSum`). `ReopensUnchanged` (`FormSpec => []ReopenedAsEntered`)
needs fewer than 20000 people (`FewPeople`; with more an equal share may be stored
as 0, and the amounts of the reopened dialog divide by the sum of the shares), and
that every total *a* satisfies 2*a*(*n* + 1) + *n* < 20000 for *n* people
(`SmallTotals`). That bound is what the argument needs and nearly what is true:
`FormGaps` shows 70000 among three fail. The invariant (`FormInv`) says that a
stored expense has the ratios of the weights it was sent with (`Stored`). Each
ratio is off by half a unit at most, so they add up to 10000 but for half a unit
for each person (`WholeNear`); an amount computed back from its ratio is then
less than one half away from the amount that was typed, and is it after rounding
(`AmountBack`). The way of splitting is not stored: ratios that pass for equal come
from equal amounts (`PartsEqual`), whose ratios are those of ones (`RatioOfEqual`),
so either guess saves the same rows.

For `ExpenseSplit` it proves, for all bills and weights of any sign, the bounds that `MCExpenseSplit`
checks on small ones: `RatiosNearWhole` and `PaymentsNearTotal`.

`Registration_proofs` proves, for any calls under `RGAssumption`, `VerifiedFirst`
(`Spec => []AccountVerified`) and `ConfirmedOnce` (`Spec => []OneConfirmation`).
A code that is stored, mailed or in a handler's hands was generated by the call
it is named after (`CodesGenerated`, `CodesFresh`), and who inserts the account
holds such a code; the unique e-mail address stops the second insertion
(`Inserted`). `TypeCorrect` includes the counter of resends, which is at most the
number of resends that are past their INCR (`Counter`).

`ConnectionPool_proofs` proves, for any finite set of calls under
`CPAssumption`, `ConnectionsComeBack` (`Spec => []ConnectionsReturned`),
`CreatorsIncluded` (`Spec => []CreatedWithCreator`) and, assuming
`Cardinality(CreateCalls) < MaxConns`, `PoolNeverBlocked` (`Spec =>
[]SomebodyRuns`). The invariant says which connections a call holds at each of
its steps (`Held`) and what it has committed (`Progress`); a call that keeps one
connection and waits for another is then a creation, and a subset of the
creations is smaller than the pool. Without that assumption the property is
false (`PoolGaps` shows where it ends).

`Sessions_proofs` proves `TokensStayDead` (`Spec => NeverRevived`),
`LogoutIsFinal` (`Spec => LogoutHolds`) and `SessionsHaveOrigin` (`Spec =>
[]SessionsProven`) for any calls. The invariant: an id is stored by one step of
the call it is named after, before the call gives it to the client (`IdsFresh`),
so an id that is out and not in Redis has nobody left to store it; whoever
stores was let through by a password that some successful call set or by a token
that was out (`Admitted`); a confirmed logout's token is out and deleted
(`LoggedOut`).

`SessionAndPages_proofs` proves of `ClientSession` `FlagTellsTruth` (`SessionSpec =>
[]OneExchange`), `QueueHasLeader` (`SessionSpec => []QueueServed`) and
`SessionTypeCorrect` for any number of tabs and requests.
`OneExchange` is inductive once cardinalities are replaced by the one leader
there is (`FlagTrue`); `QueueServed` needs that whoever is queued has the flag
of his tab set (`QueueGuarded`). `SessionStays` is `Spec => SessionKept` under
the hypothesis that there is one tab (`SingleTab`): the token in the storage
during an exchange is the one it presented, unless the user has logged out or in
since (`Presents`). With two tabs it is false, and a login made during an
exchange of the former session is one of its exceptions (`SessionGaps`).

Of `EventPages` it proves `Kept` (`Spec => []ChoiceKept`), `StayGone` (`Spec =>
[]DeletedGone`), `Filled` (`Spec => []PagesShown`) and `TypeCorrect`, for any
users, finitely many calls, any number of events, any length of a page and any
filter. None of the three is inductive: they speak of what the page shows, and a
list that was fetched before may come at any time.

* `ChoiceKept`: while somebody's choice stands, what a fetch has in its hands has
  the event too, unless the fetch came about without a guarantee (`WantedKept`);
  an own renewal after a creation has brought the new event, or will
  (`RenewalOK`); a fetch belongs to the user of the page (`FetchOwn`); and who has
  created an event stays in it until it is deleted (`MakersIn`). A logout ends
  the trust in renewals that are under way: the attempt to prove `RenewalOK`
  without that failed, and TLC confirmed with two users that the former model
  called a renewal trustworthy that the next user's login had overtaken.
* `DeletedGone`: an answered deletion is complete (`DeletionsDone`), and what is
  still to come lacks the event or leaves a doubt (`DeletionsSeen`).
* `PagesShown`: every rendering brings page numbers back into range (`PagesOK`).
  That a page within the range has an entry needs that some event has each rank
  (`EveryRank`): the events of a list are numbered from the newest without a gap,
  which is proved by the smallest set that would lack a rank, as for the sums.

`EPAssumption` says that founders are users or nobody, and that `None` is no
user, event or set of events.

`ActivityPage_proofs` proves `RequestsShown` (`Spec => []OwnRequestsShown`) and
`ChangesCounted` (`Spec => []OwnChangesCounted`), for any bills, requests and
pages and the at most three members for which `ActivityPage` has the plan of the
summary. What an own call has done is either in the newest answer that the page
has received (`Newest`, which is the cache or what a served fetch will put
there), or something is still to come that will show it: a fetch that the server
has not served, or the answer to the call, which starts one (`Open`, `Known`). At
rest nothing is still to come. It needs little of the tables: a request keeps its
parties, a decision is never taken back, a settlement of a decided request stays,
an erased expense does not return (`TablesChange`); and that the calls of others
are not those of this page's user (`OthersForeign`), which is where `OnlyPage`
comes in.

Its `TypeCorrect` (`Spec => []TypeOK`) says what every table, cached answer and
open dialog holds, and so that a page only ever offers and sends positive amounts
between members. It rests on the plan of a summary (`PlanTyped`): balances are
integers as sums over finitely many bills and payments, which is why
`APAssumption` asks that `Bills` and `Requests` are finite and `Typed` keeps the
payments of every answer finite, and a debtor and a creditor meet in an amount
above 0. A dialog is filled from a cached summary, hence the types of answers
under way (`ServeTyped`, `FetchEndsTyped`). The lemmas about sums repeat those of
`Amounts_proofs`, as that module extends other state machines.

`Accounts_proofs` proves `OneDefaultHolds` (`Spec => []OneDefault`) for any
handlers, accounts, names, events and pictures. The list is written by `Save`
alone, whose argument goes through `normalizeBanks`; the lemma `NormalizeOne`
says that a list with at most one mark comes back with exactly one. The
invariant adds that both copies are lists and that the index under edit is a
number, and there is a lemma per handler that the list it hands over has at most
one mark: deleting shifts marks, setting the default moves the mark, editing
keeps it, and an added entry is marked only in an empty list.

It also proves `DefaultPaid` (`Spec => []DefaultEverywhere`) and `NameShown`
(`Spec => []NameEverywhere`). `Shape` says what a handler holds at each of its
steps; `BankInv` and `NameInv` that, unless a failure or an overlap has spoiled
the data, whoever writes them is *clean*, that is, has had nobody beside it who
writes or copies them, that such a handler has written its value wherever it has
been (`Paying`, `Renaming`), and that while nobody writes the value is the same
everywhere, also in what a join, a sync or an upload of a picture has read and
will write later.

The type invariant is proved for each of these state machines.

Only model-checked: liveness (`EveryCallAnswered`, `Terminates`,
`OnlyExchangesHang`), which is out of the prover's reach under fairness. All
other properties of the passing runs are proved; the few hypotheses (one tab for
`SessionKept`, bills that divide evenly for `BillsAddUp`, fewer creations than
connections for `SomebodyRuns`, few people and small totals for
`ReopenedAsEntered`) are
those without which TLC shows them violated or which the bills of the run satisfy.

## 6. Not modelled

* Reads that only present data: event and transaction details, profile,
  notifications, QR URLs, and the balances that the home, list and expenses
  pages add up. What they need of the tables is stated where it matters
  (`ReferencesExist`, `ListingReadable`).
* `UpdateEvent`, which no page calls; `MarkAllRead`; uploads.
* Parsing, formatting, passwords and signatures as computations. Rounding *is*
  modelled (`ExpenseSplit`), binary floating point is not: sums and quotients
  are exact before they are rounded.
* The tables for collectors and SQL refresh tokens, which no code writes.
* Of the activity page: filters and pagination of its tables, the addition of a
  guest, the QR code in the payment dialog. The update of an expense renews what
  its creation renews.
* Of the event pages: the renewal that a handler of the activity page ends with
  when its user is by then on a page without the list, which takes a logout (it
  refetches inactive queries too, `fe/pages/activity/activity-page.tsx:359`);
  sorting, search, descriptions and the fields of the dialog
  of a new event. The event detail page, to which nothing links, and the forms
  of login and registration, whose calls are in `Registration` and `Sessions`.
* Of the account page: a second tab with a list of its own, and what the fields
  of its forms hold: what is submitted is any value.
* PostgreSQL itself: row locks, READ COMMITTED visibility and the deadlock
  detector are modelled from how the statements use them.

### Hazards seen and not covered

Beside those that the configurations above show, the code has these, which no
property states:

| Where | What |
|---|---|
| `fe/shared/api/http.ts:118` | an exchange of tokens that was under way at a logout stores new tokens; nothing promises the contrary |
| `fe/features/auth/model/use-auth.ts:64` | any failure of the start-up call, also one of the network, ends the session |
| `fe/pages/accounts/accounts-page.tsx:232` | the answer to a change of the name sets the user also after a logout |
| `fe/features/bank-update/ui/bank-info-form.tsx:37` | the fields take their initial values when the page mounts, so that Edit shows what was typed last |
| `fe/features/bank-update/ui/bank-info-form.tsx:71` | the end of a submission closes the form although it may be open for another account |
| `fe/pages/accounts/accounts-page.tsx:291` | a picture the browser cannot decode leaves the dialog waiting for ever |
| `fe/pages/accounts/accounts-page.tsx:126` | a second tab writes its old copy of the whole list back |
| `fe/features/event/ui/create-event-modal.tsx:56` | the end of a creation closes and empties a dialog that was opened again |
| `fe/widgets/header/header.tsx:105` | a notification selects an event that the list may lack; the activity page shows another |
| `fe/pages/activity/activity-page.tsx:545` | an updated expense renews the list but not the cached detail its row computes the own balance from |
| `fe/pages/activity/activity-page.tsx:233` | the row of an expense shows its payer his own share, not what the others owe him |
| `fe/pages/expenses/expenses-page.tsx:39` | this page and the list page cache values of different shapes under one key |
| `fe/pages/dashboard/events-list-page.tsx:115` | totals count as complete once one balance is there; those that failed count as 0 |
| `be/services/notification_service.go:39` | all notices are marked as read, also those that came after the list was fetched or exceed its 50 rows |

## 7. Plan

Done, in this order: payment requests with contract and proofs; splits, ledger
and plan; pool; registration; sessions; browser session; the dialog of an
expense; the activity page; the account page with its proof; the event pages.

Next:

1. `Balances`: compose expenses and settlements of one event, with the two
   notions of balance in the code (`GetEventBalances` counts settlements,
   `GetParticipantBalance`, which decides about leaving, does not). Properties:
   the balances of an event sum to zero; following the plan settles it in both
   senses or not. `ActivityPage` has both notions already (`Balance`, `Expel`).
2. The balances of the home, list and expenses page, with their shared keys; the
   update of an expense and the addition of a guest on the activity page.
3. Proofs of what these add: that the balances of an event sum to zero, with the
   facts about sums in `Amounts_proofs`.
