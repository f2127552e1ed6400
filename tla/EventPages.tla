------------------------------ MODULE EventPages ------------------------------
(***************************************************************************)
(* One tab: the list of the user's events, which every page takes from one *)
(* cached query, and the event that is selected for all of them.  Events   *)
(* are created, deleted and joined by calls that go on while the user      *)
(* moves about; the effects of a page, which correct the selection and the *)
(* page numbers, are part of the step that renders it.                     *)
(*                                                                         *)
(* Events are numbered as they are created and listed newest first.  The   *)
(* client never updates one, so nothing else changes their order.          *)
(***************************************************************************)
EXTENDS Integers, FiniteSets, FiniteSetsExt

CONSTANTS
  Users,      \* who may log in at this tab
  Calls,      \* handlers that send a request, each started once
  Founders,   \* who of them created the events of the start, or None
  MaxEvents,  \* bound on all events
  Tour,       \* pages of the side and top menus that are visited
  Filters,    \* filters by date that are tried
  RecentFrom, \* events from this one on pass the filter by date
  PerPage,    \* ITEMS_PER_PAGE
  None        \* null, nobody, or a list that was never loaded

ASSUME EPAssumption ==
  /\ MaxEvents \in Nat /\ Filters \subseteq {"all", "recent"} /\ "all" \in Filters
  /\ \A f \in Founders : \E n \in 0..MaxEvents : f \in [1..n -> Users \cup {None}]
  /\ PerPage \in Nat \ {0} /\ RecentFrom \in Nat
  /\ Tour \subseteq {"home", "list", "expenses", "activity", "accounts"}
  /\ None \notin Users /\ None \notin 1..MaxEvents
  /\ \A s \in SUBSET (1..MaxEvents) : s # None
  /\ IsFiniteSet(Calls)

VARIABLES
  count,    \* events created so far
  maker,    \* maker[e]: the user who created event e, None for anybody else
  members,  \* members[u]: the events that have a row of u
  user,     \* the user of the tab
  selected, \* selectedEventId, in the store and in localStorage
  cache,    \* the list of events, None before the first one has come
  fetch,    \* the fetch of that list, see Idle
  doubt,    \* observation: the list may lack what the user has changed
  place,    \* the page
  side,     \* currentPage of the sidebar
  current,  \* currentPage of the list page
  filter,   \* its filter by date
  call,     \* call[c]: the handler c, see Ready
  wanted,   \* observation: what the user chose last, while he is in it
  deleted   \* observation: events whose deletion was confirmed to the user

server == <<count, maker, members>>
query  == <<cache, fetch, doubt>>
view   == <<place, selected, side, current, filter>>
vars == <<server, query, view, user, call, wanted, deleted>>

Events == 1..MaxEvents
App == {"list", "expenses", "activity", "accounts"}
Observed == App \cup {"home"}  \* pages with a component that uses the list

Idle == [st |-> "idle", got |-> {}, by |-> None, sure |-> TRUE]

(* rest: the list when the user asked for a deletion; clean: whether the   *)
(* renewal that a creation awaits was its own and came to its end, and the *)
(* user has not logged out since.                                          *)
Ready == [kind |-> "none", pc |-> "ready", host |-> None, by |-> None,
          event |-> 0, rest |-> {}, clean |-> TRUE]

Rows == (UNION {members[u] : u \in Users}) \cup
        {e \in 1..count : maker[e] = None}

Running(c) == call[c].pc \notin {"ready", "done"}

-----------------------------------------------------------------------------
(* The list and its pages *)

List(c) == IF c = None THEN {} ELSE c

Newest(l) == IF l = {} THEN None ELSE Max(l)

PagesOf(l) == (Cardinality(l) + PerPage - 1) \div PerPage

(* slice of the list for page n of size k. *)
Slice(l, n, k) ==
  {e \in l : Cardinality({d \in l : d > e}) \in (n - 1) * k .. n * k - 1}

Filtered(l, f) == IF f = "all" THEN l ELSE {e \in l : e >= RecentFrom}

(* The effects on the selection: of the home page and the list page, which *)
(* fill it, and of the activity page, which also corrects it.              *)
Adjusted(p, l, s) ==
  IF (p \in {"home", "list"} /\ s = None) \/ (p = "activity" /\ s \notin l)
  THEN Newest(l) ELSE s

(* Mutant: the sidebar keeps its page number whatever becomes of the list. *)
Unclamped(n, l) == n

(* The effect of the sidebar. *)
Clamped(n, l) == IF l # {} /\ n > PagesOf(l) THEN PagesOf(l) ELSE n

(* The effect of the list page. *)
Reset(n, l, f) ==
  IF f # filter \/ Cardinality(l) # Cardinality(List(cache)) THEN 1 ELSE n

(* Page p is shown with the list c, the selection s, the numbers i and n   *)
(* of sidebar and list page, and the filter f.                             *)
Render(p, c, s, i, n, f) ==
  /\ place' = p /\ cache' = c
  /\ selected' = Adjusted(p, List(c), s)
  /\ side' = IF {p, place} \subseteq App THEN Clamped(i, List(c)) ELSE 1
  /\ IF p = "list" /\ place = "list"
     THEN filter' = f /\ current' = Reset(n, List(c), f)
     ELSE filter' = "all" /\ current' = 1

Show(p, c, s) == Render(p, c, s, side, current, filter)

-----------------------------------------------------------------------------
(* The query *)

Asked == [Idle EXCEPT !.st = "asked", !.by = user]

(* A component that mounts is content with a fetch under way. *)
Mounts(p) == p \in Observed /\ p # place /\ (p # "accounts" \/ place \notin App)

MountFetch(p) ==
  fetch' = IF ~Mounts(p) THEN fetch
           ELSE IF fetch.st = "idle" THEN Asked
           ELSE [fetch EXCEPT !.sure = @ /\ place \in Observed]

(* An invalidation starts anew the fetch of a list that is in use, except  *)
(* that of the first list.                                                 *)
JoinsFirst == place \in Observed /\ fetch.st # "idle" /\ cache = None

(* The calls that awaited the fetch before go on. *)
Released(calls, ok) ==
  [c \in Calls |-> IF calls[c].pc # "renew" THEN calls[c]
                   ELSE [calls[c] EXCEPT !.pc = "go", !.clean = @ /\ ok]]

(* Mutant: an invalidation is content with any fetch under way. *)
JoinsAny == IF place \in Observed /\ fetch.st = "idle" THEN Asked ELSE fetch

(* Mutant: no invalidation. *)
NotRenewed == fetch

Renewed == IF place \notin Observed THEN fetch
           ELSE IF JoinsFirst THEN [fetch EXCEPT !.sure = FALSE]
           ELSE Asked

ServeList ==
  /\ fetch.st = "asked"
  /\ fetch' = [fetch EXCEPT !.st = "served", !.got = members[fetch.by]]
  /\ UNCHANGED <<server, view, user, call, wanted, deleted, cache, doubt>>

Land ==
  /\ fetch.st = "served"
  /\ Show(place, fetch.got, selected)
  /\ fetch' = Idle /\ doubt' = ~fetch.sure
  /\ call' = Released(call, TRUE)
  /\ wanted' = IF fetch.sure THEN wanted ELSE None
  /\ UNCHANGED <<server, user, deleted>>

(* The retries are used up; what was there stays. *)
FetchFails ==
  /\ fetch.st # "idle"
  /\ fetch' = Idle /\ doubt' = TRUE
  /\ call' = Released(call, FALSE)
  /\ UNCHANGED <<server, view, user, wanted, deleted, cache>>

Focus ==
  /\ place \in Observed /\ fetch.st = "idle"
  /\ fetch' = Asked
  /\ UNCHANGED <<server, view, user, call, wanted, deleted, cache, doubt>>

-----------------------------------------------------------------------------
(* What the user does; the dialog of a deletion covers the page. *)

(* He is in e, and was when the list was made that is on its way. *)
StillIn(e, m) ==
  IF user # None /\ e \in m[user] /\ (fetch.st = "served" => e \in fetch.got)
  THEN e ELSE None

Uncovered == \A c \in Calls : call[c].pc # "confirm"

(* The button of the activity page; the end of a removal or of a deletion  *)
(* of an expense does the same, wherever the user is by then.  The fetch   *)
(* of a page without the list, where such an end finds the user after a    *)
(* logout, is left out.                                                    *)
handleRefresh ==
  /\ place \in Observed
  /\ fetch' = Renewed
  /\ call' = IF JoinsFirst THEN call ELSE Released(call, FALSE)
  /\ UNCHANGED <<server, view, user, wanted, deleted, cache, doubt>>

Visit(p, s) == Show(p, cache, s) /\ MountFetch(p)

Go(p) ==
  /\ place \in Observed /\ Uncovered
  /\ Visit(p, selected)
  /\ UNCHANGED <<server, user, call, wanted, deleted, doubt>>

(* The events one can click on: in the sidebar, on the home page, the      *)
(* cards of the list page and the rows of the expenses page.               *)
SidebarEvents(l) == IF place \in App THEN Slice(l, side, PerPage) ELSE {}
HomeEvents(l) == IF place = "home" THEN Slice(l, 1, 3) ELSE {}
EventCards(l) ==
  IF place = "list" THEN Slice(Filtered(l, filter), current, PerPage) ELSE {}
ExpenseRows(l) == IF place = "expenses" THEN l ELSE {}

Offered ==
  UNION {SidebarEvents(List(cache)), HomeEvents(List(cache)),
         EventCards(List(cache)), ExpenseRows(List(cache))}

Choose(e) ==
  /\ e \in Offered /\ Uncovered
  /\ Visit("activity", e)
  /\ wanted' = StillIn(e, members)
  /\ UNCHANGED <<server, user, call, deleted, doubt>>

(* A notification may be about an event that the list does not have: then  *)
(* the activity page puts another in its place.                            *)
handleNotificationClick(e) ==
  /\ place \in App /\ Uncovered /\ e \in 1..count
  /\ Visit("activity", e)
  /\ wanted' = IF e \in List(cache) THEN StillIn(e, members) ELSE None
  /\ UNCHANGED <<server, user, call, deleted, doubt>>

TurnSidebar(n) ==
  /\ place \in App /\ Uncovered
  /\ n \in {side - 1, side + 1} /\ n \in 1..PagesOf(List(cache))
  /\ Render(place, cache, selected, n, current, filter)
  /\ UNCHANGED <<server, user, call, wanted, deleted, doubt, fetch>>

TurnList(n) ==
  /\ place = "list" /\ Uncovered
  /\ n \in {current - 1, current + 1} /\ n \in 1..PagesOf(Filtered(List(cache), filter))
  /\ Render(place, cache, selected, side, n, filter)
  /\ UNCHANGED <<server, user, call, wanted, deleted, doubt, fetch>>

setTimeFilter(f) ==
  /\ place = "list" /\ Uncovered /\ f # filter
  /\ Render(place, cache, selected, side, current, f)
  /\ UNCHANGED <<server, user, call, wanted, deleted, doubt, fetch>>

Start(c, h) ==
  /\ call[c].pc = "ready"
  /\ call' = [call EXCEPT ![c] = h]
  /\ UNCHANGED <<server, query, view, user, wanted, deleted>>

(* Creations that were sent and whose event is not there yet. *)
Creating ==
  {c \in Calls : call[c].kind = "create" /\ call[c].event = 0 /\ Running(c)}

(* Each of the two dialogs, of the sidebar and of the list page, waits for *)
(* its answer; both let the user go on elsewhere.                          *)
CanCreate(host) ==
  /\ place \in App /\ Uncovered /\ (host = "list" => place = "list")
  /\ \A d \in Calls : Running(d) => call[d].host # host

handleCreateEvent(c, host) ==
  /\ CanCreate(host)
  /\ count + Cardinality(Creating) < MaxEvents
  /\ Start(c, [Ready EXCEPT !.kind = "create", !.pc = "sent", !.host = host, !.by = user])

isCreator == selected \in List(cache) /\ maker[selected] = user

handleDeleteActivity(c) ==
  /\ place = "activity" /\ Uncovered /\ isCreator
  /\ Start(c, [Ready EXCEPT !.kind = "delete", !.pc = "confirm", !.by = user,
                            !.event = selected, !.rest = cache \ {selected}])

onConfirm(c, yes) ==
  /\ call[c].pc = "confirm"
  /\ call' = [call EXCEPT ![c].pc = IF yes THEN "sent" ELSE "done"]
  /\ UNCHANGED <<server, query, view, user, wanted, deleted>>

CanJoin(e) ==
  /\ place = "invite" /\ user # None
  /\ e \in Rows \ members[user]
  /\ \A d \in Calls : Running(d) => call[d].kind # "join"

handleJoin(c, e) ==
  /\ CanJoin(e)
  /\ Start(c, [Ready EXCEPT !.kind = "join", !.pc = "sent", !.by = user, !.event = e])

-----------------------------------------------------------------------------
(* The server *)

Reply(c, h, n) ==
  call' = [call EXCEPT ![c] = IF @.pc = "lost" THEN [Ready EXCEPT !.pc = "done"]
                              ELSE [h EXCEPT !.pc = "answered", !.event = n]]

ServeCall(c) ==
  LET h == call[c] IN
  /\ h.pc \in {"sent", "lost"}
  /\ \/ /\ h.kind = "create"
        /\ count' = count + 1
        /\ maker' = [maker EXCEPT ![count + 1] = h.by]
        /\ members' = [members EXCEPT ![h.by] = @ \cup {count + 1}]
        /\ Reply(c, h, count + 1)
     \/ /\ h.kind = "delete" /\ h.event \in Rows
        /\ members' = [u \in Users |-> members[u] \ {h.event}]
        /\ UNCHANGED <<count, maker>>
        /\ Reply(c, h, h.event)
     \/ /\ h.kind = "join" /\ h.event \in Rows
        /\ members' = [members EXCEPT ![h.by] = @ \cup {h.event}]
        /\ UNCHANGED <<count, maker>>
        /\ Reply(c, h, h.event)
  /\ wanted' = StillIn(wanted, members')
  /\ UNCHANGED <<query, view, user, deleted>>

(* The request is refused, or its answer does not arrive: a toast. *)
Fail(c) ==
  /\ call[c].pc \in {"sent", "answered", "lost"}
  /\ call' = [call EXCEPT ![c] = [Ready EXCEPT !.pc = "done"]]
  /\ UNCHANGED <<server, query, view, user, wanted, deleted>>

(* Somebody else removes the user from an event, or deletes it. *)
Removed(u, e) ==
  /\ e \in members[u] /\ maker[e] # u
  /\ members' = [members EXCEPT ![u] = @ \ {e}]
  /\ wanted' = StillIn(wanted, members')
  /\ UNCHANGED <<count, maker, query, view, user, call, deleted>>

-----------------------------------------------------------------------------
(* Answers *)

(* Create: invalidate the list and await it. *)
Created(c) ==
  LET h == call[c]
      alone == place \in Observed /\ ~JoinsFirst
      others == IF alone THEN Released(call, FALSE) ELSE call
  IN
  /\ h.kind = "create" /\ h.pc = "answered"
  /\ fetch' = Renewed
  /\ call' = [others EXCEPT ![c] = [h EXCEPT !.clean = alone,
                !.pc = IF place \in Observed THEN "renew" ELSE "go"]]
  /\ UNCHANGED <<server, view, user, wanted, deleted, cache, doubt>>

(* The guard sends nobody to the login page. *)
RequireAuth(p) == IF user = None THEN "login" ELSE p

(* Then select the new event and go to the activity page, wherever the     *)
(* user is.                                                                *)
OpenCreated(c) ==
  LET h == call[c] IN
  /\ h.pc = "go"
  /\ Visit(RequireAuth("activity"), h.event)
  /\ wanted' = IF h.clean /\ user = h.by THEN StillIn(h.event, members) ELSE None
  /\ call' = [call EXCEPT ![c] = [Ready EXCEPT !.pc = "done"]]
  /\ UNCHANGED <<server, user, deleted, doubt>>

(* Delete: select the first of the others in the list of that time. *)
Deleted(c) ==
  LET h == call[c] IN
  /\ h.kind = "delete" /\ h.pc = "answered"
  /\ Show(place, cache, Newest(h.rest))
  /\ fetch' = Renewed
  /\ call' = [(IF place \in Observed /\ ~JoinsFirst THEN Released(call, FALSE) ELSE call)
                EXCEPT ![c] = [Ready EXCEPT !.pc = "done"]]
  /\ wanted' = None /\ deleted' = deleted \cup {h.event}
  /\ UNCHANGED <<server, user, doubt>>

(* Join: no invalidation, the list that the activity page finds is old. *)
Joined(c) ==
  LET h == call[c] IN
  /\ h.kind = "join" /\ h.pc = "answered"
  /\ Visit(RequireAuth("activity"), h.event)
  /\ wanted' = None
  /\ call' = [call EXCEPT ![c] = [Ready EXCEPT !.pc = "done"]]
  /\ UNCHANGED <<server, user, deleted, doubt>>

-----------------------------------------------------------------------------
(* Session *)

(* The page is loaded anew, or an invitation by its link: what was cached  *)
(* is gone and nobody hears the answers.                                   *)
Load(p) ==
  /\ user # None
  /\ place' = p /\ cache' = None
  /\ selected' = Adjusted(p, {}, selected)
  /\ side' = 1 /\ current' = 1 /\ filter' = "all"
  /\ fetch' = IF p \in Observed THEN Asked ELSE Idle
  /\ doubt' = FALSE /\ wanted' = None
  /\ call' = [c \in Calls |->
       IF call[c].pc = "sent" THEN [call[c] EXCEPT !.pc = "lost"]
       ELSE IF Running(c) /\ call[c].pc # "lost" THEN [Ready EXCEPT !.pc = "done"]
       ELSE call[c]]
  /\ UNCHANGED <<server, user, deleted>>

(* The button of the account page empties the cache, that of the header    *)
(* does not; neither touches the selection.                                *)
logout(clear) ==
  /\ place \in App /\ Uncovered /\ (clear => place = "accounts")
  /\ user' = None /\ wanted' = None
  /\ Show("login", IF clear THEN None ELSE cache, selected)
  /\ fetch' = IF clear THEN Idle ELSE fetch
  /\ call' = LET rest == IF clear THEN Released(call, FALSE) ELSE call
             IN [c \in Calls |-> [rest[c] EXCEPT !.clean = FALSE]]
  /\ UNCHANGED <<server, deleted, doubt>>

(* To the home page, or back to the invitation that asked for the login. *)
Login(u, p) ==
  /\ place = "login"
  /\ user' = u
  /\ Show(p, cache, selected)
  /\ fetch' = IF p # "home" THEN fetch
              ELSE IF fetch.st = "idle" THEN [Asked EXCEPT !.by = u]
              ELSE [fetch EXCEPT !.sure = FALSE]
  /\ UNCHANGED <<server, call, wanted, deleted, doubt>>

-----------------------------------------------------------------------------
Init ==
  /\ \E f \in Founders :
       /\ count = Cardinality(DOMAIN f)
       /\ maker = [e \in Events |-> IF e <= count THEN f[e] ELSE None]
  /\ members \in [Users -> SUBSET (1..count)]
  /\ \A e \in 1..count, u \in Users : maker[e] = u => e \in members[u]
  /\ user \in Users
  /\ selected = None /\ cache = None
  /\ place = "home" /\ fetch = Asked /\ doubt = FALSE
  /\ side = 1 /\ current = 1 /\ filter = "all"
  /\ call = [c \in Calls |-> Ready]
  /\ wanted = None /\ deleted = {}

Gestures ==
  \/ \E p \in Tour : Go(p)
  \/ \E e \in Events : Choose(e) \/ handleNotificationClick(e)
  \/ \E n \in Events : TurnSidebar(n) \/ TurnList(n)
  \/ \E f \in Filters : setTimeFilter(f)
  \/ \E p \in {place, "invite"} : Load(p)
  \/ \E clear \in BOOLEAN : logout(clear)
  \/ \E u \in Users, p \in {"home", "invite"} : Login(u, p)
  \/ Focus \/ handleRefresh

Handler(c) ==
  \/ \E h \in {"sidebar", "list"} : handleCreateEvent(c, h)
  \/ handleDeleteActivity(c) \/ \E yes \in BOOLEAN : onConfirm(c, yes)
  \/ \E e \in Events : handleJoin(c, e)
  \/ Created(c) \/ OpenCreated(c) \/ Deleted(c) \/ Joined(c)

Network ==
  \/ ServeList \/ Land \/ FetchFails
  \/ \E c \in Calls : ServeCall(c) \/ Fail(c)
  \/ \E u \in Users, e \in Events : Removed(u, e)

Next == Gestures \/ Network \/ \E c \in Calls : Handler(c)

Spec == Init /\ [][Next]_vars

-----------------------------------------------------------------------------
(* Properties *)

TypeOK ==
  /\ count \in 0..MaxEvents
  /\ members \in [Users -> SUBSET Events]
  /\ user \in Users \cup {None} /\ selected \in Events \cup {None}
  /\ cache = None \/ cache \subseteq Events
  /\ place \in Observed \cup {"invite", "login"}
  /\ {side, current} \subseteq Nat \ {0}

(* Whatever fetches, answers and removals overlap, the event the user has   *)
(* chosen last, or created, stays selected on every page as long as he is  *)
(* in it: no list that lands late makes the activity page drop it.         *)
ChoiceKept == wanted # None => selected = wanted

(* An event whose deletion was confirmed is not listed again: once a page  *)
(* is at rest it is neither in the list nor what the activity page shows.  *)
DeletedGone ==
  place \in Observed /\ fetch.st = "idle" /\ ~doubt =>
    /\ deleted \cap List(cache) = {}
    /\ place = "activity" => selected \notin deleted

(* A list that has entries shows some: no sequence of turning pages,       *)
(* creations and removals leaves the user on an empty page of the sidebar, *)
(* or of the unfiltered list page.                                         *)
PagesShown ==
  LET l == List(cache) IN
  l # {} => /\ place \in App => Slice(l, side, PerPage) # {}
            /\ place = "list" /\ filter = "all" => Slice(l, current, PerPage) # {}

(* The same of the list page with its filter. *)
FilteredPagesShown ==
  LET l == Filtered(List(cache), filter) IN
  place = "list" /\ l # {} => Slice(l, current, PerPage) # {}

(* The dialog of a new event opens it. *)
CreatedOpened ==
  [][\A c \in Calls : OpenCreated(c) /\ user = call[c].by => selected' = call[c].event]_vars

(* Who has joined by an invitation sees the event he has joined. *)
JoinedOpened ==
  [][\A c \in Calls : Joined(c) => selected' = call[c].event]_vars

(* The selection, which is stored for that, outlives a reload. *)
SelectionSurvives ==
  [][cache # None /\ cache' = None /\ place' = place => selected' = selected]_vars

(* What a page at rest has selected is an event of its user. *)
SelectionOwn ==
  place \in Observed /\ fetch.st = "idle" /\ ~doubt /\ selected # None
    => selected \in List(cache)

(* A list that lands was asked for by the user who sees it. *)
ListOwn == [][Land => user \in {fetch.by, None}]_vars
===============================================================================
