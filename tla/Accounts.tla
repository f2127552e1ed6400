------------------------------- MODULE Accounts -------------------------------
(***************************************************************************)
(* The account page of one user in one tab.  The bank accounts are kept in *)
(* localStorage only; the default one is also sent to the server, which    *)
(* keeps one for the user and a copy in his row of every event.  A name is *)
(* copied the same way.  Each handler of the page is a call: it changes    *)
(* the page at once and then sends its requests one after the other, while *)
(* other handlers may run.                                                 *)
(***************************************************************************)
EXTENDS Integers, Sequences

CONSTANTS
  Calls,     \* handlers that run, each started once
  Infos,     \* bank, number and owner of an account, as one value
  Names,
  Events,
  Files,     \* pictures the user may choose
  Corrupt,   \* those the browser cannot decode
  MaxBanks,  \* bound on the accounts of the list
  NoBank,    \* three empty strings, or NULL in the table
  None       \* no user, no row, no name read

ASSUME AccAssumption ==
  /\ NoBank \notin Infos
  /\ None \notin Names /\ None \notin [name : Names, bank : Infos \cup {NoBank}]
  /\ Corrupt \subseteq Files
  /\ MaxBanks \in Nat

VARIABLES
  banks,    \* the page's list of bank accounts
  stored,   \* the list in localStorage
  page,     \* "accounts", "elsewhere" in the application, or "login"
  dialog,   \* the dialog that covers the page
  index,    \* editingBankIndex while the bank form is open, 0 for null
  user,     \* the user of the auth store
  call,     \* call[c]: the handler c, see Idle
  account,  \* the row of the user in users
  rows,     \* rows[e]: his row in the event e
  spoiled   \* observation: the data that a failure or an overlap of handlers
            \* may have left in disorder, see Data

list == <<banks, stored>>
screen == <<page, dialog, index>>
server == <<account, rows>>
vars == <<list, screen, user, call, server, spoiled>>

Entries == [info : Infos, isDefault : BOOLEAN]

(* kind and value: what the handler sends; pc: the request under way; left *)
(* and seen: the events a sync has to go through and the names it has read *)
(* there; got: the answer; own: whether the page that started it is still  *)
(* there; clean: no failure and no overlap so far.                         *)
Idle == [kind |-> "none", pc |-> "idle", value |-> None, left |-> {},
         seen |-> [e \in Events |-> None], got |-> None, own |-> FALSE,
         clean |-> FALSE]

Handler(k, first, v) == [Idle EXCEPT !.kind = k, !.pc = first, !.value = v]

Running(c) == call[c].pc \notin {"idle", "done"}
Quiet == \A c \in Calls : ~Running(c)

(* saving, loading, avatarUploading: states of the page, gone with it. *)
Busy(k) == \E c \in Calls : call[c].kind = k /\ call[c].own /\ Running(c)

BankKinds == {"submit", "default", "delete"}
Data(k) == IF k \in BankKinds THEN {"bank"} ELSE IF k = "name" THEN {"name"} ELSE {}

(* What the writes of two handlers leave undecided if they overlap. *)
Mixes(k, l) ==
  (IF k \in BankKinds /\ l \in BankKinds \cup {"join"} THEN {"bank"} ELSE {})
    \cup (IF k = "name" /\ l \in BankKinds \cup {"name", "join", "avatar"}
          THEN {"name"} ELSE {})

Disorder(k, l) == Mixes(k, l) \cup Mixes(l, k)

Spoil(d) == spoiled' = spoiled \cup d

(* Handler c starts as h; it and those it overlaps are clean no more. *)
Start(c, h) ==
  LET mixed == UNION {Disorder(h.kind, call[d].kind) : d \in {x \in Calls : Running(x)}}
  IN  /\ call[c].pc = "idle"
      /\ call' = [d \in Calls |->
           IF d = c THEN [h EXCEPT !.own = TRUE, !.clean = Data(h.kind) \cap mixed = {}]
           ELSE [call[d] EXCEPT !.clean =
                   @ /\ Data(call[d].kind) \cap Disorder(h.kind, call[d].kind) = {}]]
      /\ Spoil(mixed)

End(c) == call' = [call EXCEPT ![c] = [Idle EXCEPT !.pc = "done"]]

(***************************************************************************)
(* The list of bank accounts                                               *)
(***************************************************************************)
Marked(l) == {i \in DOMAIN l : l[i].isDefault}

(* Mutant: a list whose default is gone gets no other. *)
FirstMarkOnly(l) ==
  [i \in 1..Len(l) |->
     [l[i] EXCEPT !.isDefault = i \in Marked(l) /\ \A j \in Marked(l) : i <= j]]

normalizeBanks(l) ==
  [i \in 1..Len(l) |->
     [l[i] EXCEPT !.isDefault = IF Marked(l) = {} THEN i = 1
                                ELSE i \in Marked(l) /\ \A j \in Marked(l) : i <= j]]

Default(l) == IF Marked(l) = {} THEN NoBank ELSE l[CHOOSE i \in Marked(l) : TRUE].info

Without(l, k) == [i \in 1..(Len(l) - 1) |-> IF i < k THEN l[i] ELSE l[i + 1]]

Save(l) == banks' = normalizeBanks(l) /\ stored' = normalizeBanks(l)

(* If the default changes, the new one goes to the server, or three empty *)
(* strings if there is none; else the handler is over.                    *)
SendDefault(c, k, changed) ==
  /\ call[c].pc = "idle"
  /\ IF changed
     THEN Start(c, Handler(k, "profile", Default(banks')))
     ELSE End(c) /\ UNCHANGED spoiled

OnPage(d) == page = "accounts" /\ dialog = d

onAdd ==
  /\ OnPage("none")
  /\ dialog' = "bank" /\ index' = 0
  /\ UNCHANGED <<list, page, user, call, server, spoiled>>

(* The buttons Edit, Delete and Set as default of an entry of the list;    *)
(* an account that only the server knows has none.                         *)
Listed(k) == OnPage("none") /\ k \in DOMAIN banks

onEdit(k) ==
  /\ Listed(k)
  /\ dialog' = "bank" /\ index' = k
  /\ UNCHANGED <<list, page, user, call, server, spoiled>>

onDelete(c, k) ==
  /\ Listed(k)
  /\ Save(Without(banks, k))
  /\ SendDefault(c, "delete", banks[k].isDefault)
  /\ UNCHANGED <<screen, user, server>>

onSetDefault(c, k) ==
  /\ Listed(k) /\ ~banks[k].isDefault
  /\ Save([i \in 1..Len(banks) |-> [banks[i] EXCEPT !.isDefault = i = k]])
  /\ SendDefault(c, "default", TRUE)
  /\ UNCHANGED <<screen, user, server>>

(* Mutant: the first entry is taken for the default. *)
EditsFirst == index = 1

isEditingDefault == index # 0 /\ banks[index].isDefault
isFirstBank == banks = <<>>

(* The form is closed before the requests are sent, but its button waits   *)
(* for them.                                                               *)
CanSubmit == OnPage("bank") /\ ~Busy("submit")

onSubmit(c, info) ==
  /\ CanSubmit
  /\ index = 0 => Len(banks) < MaxBanks
  /\ Save(IF index # 0 THEN [banks EXCEPT ![index].info = info]
          ELSE Append(banks, [info |-> info, isDefault |-> isFirstBank]))
  /\ dialog' = "none" /\ index' = 0
  /\ SendDefault(c, "submit", isEditingDefault \/ isFirstBank)
  /\ UNCHANGED <<page, user, server>>

(***************************************************************************)
(* Name, password, picture                                                 *)
(***************************************************************************)
(* The dialog with name and password, or the one with the name alone. *)
OpenPersonal ==
  /\ OnPage("none")
  /\ dialog' = "personal"
  /\ UNCHANGED <<list, page, index, user, call, server, spoiled>>

handleAvatarChange ==
  /\ OnPage("none") /\ ~Busy("avatar")
  /\ dialog' = "crop"
  /\ UNCHANGED <<list, page, index, user, call, server, spoiled>>

(* A click beside a dialog closes it, whatever goes on; the one of the     *)
(* picture has only its Cancel button, which waits for an upload.          *)
CloseDialog ==
  /\ dialog # "none" /\ (dialog = "crop" => ~Busy("avatar"))
  /\ dialog' = "none" /\ index' = 0
  /\ UNCHANGED <<list, page, user, call, server, spoiled>>

handleSaveName(c, n) ==
  /\ OnPage("personal") /\ ~Busy("name")
  /\ Start(c, Handler("name", "profile", n))
  /\ UNCHANGED <<list, screen, user, server>>

handleChangePassword(c) ==
  /\ OnPage("personal") /\ ~Busy("password")
  /\ Start(c, Handler("password", "password", None))
  /\ UNCHANGED <<list, screen, user, server>>

CanCrop == OnPage("crop") /\ ~Busy("avatar")

handleCropAvatar(c, f) ==
  /\ CanCrop
  /\ Start(c, Handler("avatar", "decode", f))
  /\ UNCHANGED <<list, screen, user, server>>

(* img.onload; nothing waits for a picture that cannot be decoded. *)
Decoded(c) ==
  /\ call[c].pc = "decode" /\ call[c].value \notin Corrupt
  /\ call' = [call EXCEPT ![c].pc = "upload"]
  /\ UNCHANGED <<list, screen, user, server, spoiled>>

(***************************************************************************)
(* Requests.  One that goes out after a logout is refused.                 *)
(***************************************************************************)
token == page # "login"

NextRequest(c, h) ==
  IF token THEN call' = [call EXCEPT ![c] = h] /\ UNCHANGED spoiled
           ELSE End(c) /\ Spoil(Data(h.kind))

(* PUT /users/profile; an empty string leaves the column as it is. *)
UpdateProfile(c) ==
  LET h == call[c] IN
  /\ h.pc = "profile"
  /\ account' = IF h.kind = "name" THEN [account EXCEPT !.name = h.value]
                ELSE IF h.value = NoBank THEN account
                ELSE [account EXCEPT !.bank = h.value]
  /\ IF h.kind = "name"
     THEN /\ call' = [call EXCEPT ![c].pc = "answer", ![c].got = account']
          /\ UNCHANGED spoiled
     ELSE NextRequest(c, [h EXCEPT !.pc = "events"])
  /\ UNCHANGED <<list, screen, user, rows>>

UpdateAvatar(c) ==
  /\ call[c].pc = "upload"
  /\ call' = [call EXCEPT ![c].pc = "answer", ![c].got = account]
  /\ UNCHANGED <<list, screen, user, server, spoiled>>

(* Mutant: the handler is over once the store has the answer. *)
SetUserAlone(c) ==
  /\ call[c].pc = "answer"
  /\ user' = call[c].got
  /\ End(c)
  /\ UNCHANGED <<list, screen, server, spoiled>>

(* setUser(updated), also when the user has logged out meanwhile. *)
SetUser(c) ==
  LET h == call[c] IN
  /\ h.pc = "answer"
  /\ user' = h.got
  /\ IF h.kind = "avatar"
     THEN /\ End(c) /\ UNCHANGED spoiled
          /\ dialog' = IF h.own /\ dialog = "crop" THEN "none" ELSE dialog
     ELSE NextRequest(c, [h EXCEPT !.pc = "events", !.got = None]) /\ UNCHANGED dialog
  /\ UNCHANGED <<list, page, index, server>>

Member == {e \in Events : rows[e] # None}

ListEvents(c) ==
  LET h == call[c] IN
  /\ h.pc = "events"
  /\ NextRequest(c, [h EXCEPT !.pc = "rows", !.left = Member])
  /\ UNCHANGED <<list, screen, user, server>>

(* The sync in the event e is over, or ends there with an error. *)
Leaves(c, e, ok) ==
  call' = [call EXCEPT ![c].left = @ \ {e}, ![c].seen[e] = None, ![c].clean = @ /\ ok]

Misses(c, e) == Leaves(c, e, FALSE) /\ Spoil(Data(call[c].kind))

(* GET the participants of e: his own row, if it has to be changed. *)
ReadRow(c, e) ==
  LET h == call[c] IN
  /\ h.pc = "rows" /\ e \in h.left /\ h.seen[e] = None
  /\ IF h.kind = "name" /\ rows[e].name = h.value
     THEN Leaves(c, e, TRUE) /\ UNCHANGED spoiled
     ELSE IF token
     THEN call' = [call EXCEPT ![c].seen[e] = rows[e].name] /\ UNCHANGED spoiled
     ELSE Misses(c, e)
  /\ UNCHANGED <<list, screen, user, server>>

(* PUT the row: a sync of the bank account sends along the name it read. *)
WriteRow(c, e) ==
  LET h == call[c] IN
  /\ h.pc = "rows" /\ e \in h.left /\ h.seen[e] # None
  /\ rows' = [rows EXCEPT ![e] =
       IF h.kind = "name" THEN [@ EXCEPT !.name = h.value]
       ELSE [name |-> h.seen[e], bank |-> IF h.value = NoBank THEN @.bank ELSE h.value]]
  /\ Leaves(c, e, TRUE)
  /\ UNCHANGED <<list, screen, user, account, spoiled>>

(* The end of a handler closes its dialog, even one that was opened again. *)
Finish(c) ==
  LET h == call[c]
      its == IF h.kind = "submit" THEN "bank" ELSE IF h.kind = "name" THEN "personal" ELSE "none"
  IN
  /\ h.pc = "rows" /\ h.left = {}
  /\ End(c)
  /\ IF h.own /\ dialog = its THEN dialog' = "none" /\ index' = 0
                              ELSE UNCHANGED <<dialog, index>>
  /\ spoiled' = IF h.clean /\ h.value # NoBank THEN spoiled \ Data(h.kind) ELSE spoiled
  /\ UNCHANGED <<list, page, user, server>>

(* A request that fails, or was carried out and has its answer lost, ends  *)
(* its handler, in an event only the sync there.                           *)
Fail(c) ==
  /\ \/ /\ call[c].pc \in {"profile", "answer", "events", "upload", "password", "insert"}
        /\ End(c) /\ Spoil(Data(call[c].kind))
     \/ call[c].pc = "rows" /\ \E e \in call[c].left : Misses(c, e)
  /\ UNCHANGED <<list, screen, user, server>>

(***************************************************************************)
(* Session and navigation                                                  *)
(***************************************************************************)
Unmounted(calls) == [c \in Calls |-> [calls[c] EXCEPT !.own = FALSE]]

LogOut(calls) ==
  /\ user' = None
  /\ page' = "login" /\ dialog' = "none" /\ index' = 0
  /\ call' = Unmounted(calls)
  /\ UNCHANGED <<list, server, spoiled>>

ChangePassword(c) ==
  /\ call[c].pc = "password"
  /\ LogOut([call EXCEPT ![c] = [Idle EXCEPT !.pc = "done"]])

logout == OnPage("none") /\ LogOut(call)

Login ==
  /\ page = "login"
  /\ user' = account /\ page' = "elsewhere"
  /\ UNCHANGED <<list, dialog, index, call, server, spoiled>>

(* The page mounts and takes the list of the storage. *)
Visit ==
  /\ page = "elsewhere"
  /\ page' = "accounts" /\ banks' = stored
  /\ UNCHANGED <<stored, dialog, index, user, call, server, spoiled>>

Leave ==
  /\ page = "accounts"
  /\ page' = "elsewhere" /\ dialog' = "none" /\ index' = 0
  /\ call' = Unmounted(call)
  /\ UNCHANGED <<list, user, server, spoiled>>

(* The tab is loaded anew: its handlers are gone, the user is fetched. *)
Reload ==
  /\ page # "login"
  /\ page' = "elsewhere" /\ dialog' = "none" /\ index' = 0
  /\ call' = [c \in Calls |-> IF Running(c) THEN [Idle EXCEPT !.pc = "done"] ELSE call[c]]
  /\ Spoil(UNION {Data(call[c].kind) : c \in {d \in Calls : Running(d)}})
  /\ user' = account
  /\ UNCHANGED <<list, server>>

(* handleJoin of the invite page, under the name of the auth store; the    *)
(* server reads the bank account first and inserts the row afterwards.     *)
handleJoin(c, e) ==
  /\ page = "elsewhere" /\ rows[e] = None
  /\ \A d \in Calls : call[d].kind = "join" => call[d].value # e
  /\ Start(c, [Handler("join", "insert", e) EXCEPT
                !.got = [name |-> user.name, bank |-> account.bank]])
  /\ UNCHANGED <<list, screen, user, server>>

InsertRow(c) ==
  /\ call[c].pc = "insert"
  /\ rows' = [rows EXCEPT ![call[c].value] = call[c].got]
  /\ End(c)
  /\ UNCHANGED <<list, screen, user, account, spoiled>>

(***************************************************************************)
(* Specification                                                           *)
(***************************************************************************)
(* What earlier visits may have left in the storage: the list is empty, or *)
(* its default is the bank account of the user.                            *)
Kept(b) ==
  {<<>>} \cup {l \in UNION {[1..n -> Entries] : n \in 1..MaxBanks} :
                 (\E i \in DOMAIN l : Marked(l) = {i}) /\ Default(l) = b}

Init ==
  /\ account \in [name : Names, bank : Infos \cup {NoBank}]
  /\ rows \in [Events -> {account, None}]
  /\ banks = <<>> /\ stored \in Kept(account.bank)
  /\ page = "elsewhere" /\ dialog = "none" /\ index = 0
  /\ user = account
  /\ call = [c \in Calls |-> Idle]
  /\ spoiled = {}

Gestures ==
  \/ onAdd
  \/ \E k \in 1..MaxBanks : onEdit(k)
  \/ OpenPersonal \/ handleAvatarChange \/ CloseDialog
  \/ logout \/ Login \/ Visit \/ Leave \/ Reload

Handlers(c) ==
  \/ \E k \in 1..MaxBanks : onDelete(c, k) \/ onSetDefault(c, k)
  \/ \E i \in Infos : onSubmit(c, i)
  \/ \E n \in Names : handleSaveName(c, n)
  \/ handleChangePassword(c)
  \/ \E f \in Files : handleCropAvatar(c, f)
  \/ \E e \in Events : handleJoin(c, e)

(* What the browser and the server do by themselves. *)
Proceed(c) ==
  \/ Decoded(c) \/ UpdateProfile(c) \/ UpdateAvatar(c) \/ SetUser(c)
  \/ ListEvents(c)
  \/ \E e \in Events : ReadRow(c, e) \/ WriteRow(c, e)
  \/ Finish(c) \/ ChangePassword(c) \/ InsertRow(c)

Next == Gestures \/ \E c \in Calls : Handlers(c) \/ Proceed(c) \/ Fail(c)

Spec == Init /\ [][Next]_vars

(***************************************************************************)
(* Properties                                                              *)
(***************************************************************************)
TypeOK ==
  /\ banks \in Seq(Entries) /\ stored \in Seq(Entries)
  /\ index \in Nat

(* A list that is not empty has exactly one default, on the page and in   *)
(* the storage: the section shows one badge and the server gets one bank. *)
OneDefault ==
  \A l \in {banks, stored} : l # <<>> => \E i \in DOMAIN l : Marked(l) = {i}

(* Once all handlers have ended the server pays the default of the list,   *)
(* for the user and in every event he is a member of; after a failure or   *)
(* an overlap again when one that ran alone has ended.                     *)
DefaultEverywhere ==
  Quiet /\ "bank" \notin spoiled /\ stored # <<>> =>
    /\ account.bank = Default(stored)
    /\ \A e \in Member : rows[e].bank = Default(stored)

(* So it is with his name, on the screen as well. *)
NameEverywhere ==
  Quiet /\ "name" \notin spoiled =>
    /\ \A e \in Member : rows[e].name = account.name
    /\ page # "login" => user.name = account.name

=============================================================================
