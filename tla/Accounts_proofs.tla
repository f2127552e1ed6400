--------------------------- MODULE Accounts_proofs ---------------------------
(***************************************************************************)
(* Proofs about Accounts, for any number of handlers and bank accounts.    *)
(* Whatever handler changes the list hands to normalizeBanks one with at   *)
(* most one mark, and gets it back with exactly one.  No other step marks, *)
(* moves or drops an entry, and a visit only copies the storage.           *)
(*                                                                         *)
(* DefaultEverywhere and NameEverywhere are about the handlers as well.    *)
(* Shape says what each of them holds at its step.  A handler is clean as  *)
(* long as no other writes or copies the same data beside it; what such a  *)
(* handler has written so far, and where it has been, is Paying and        *)
(* Renaming.  BankInv and NameInv say that unless the data are spoiled     *)
(* every writer is clean, and that they agree while there is none.         *)
(***************************************************************************)
EXTENDS Accounts, TLAPS

One(l) == l # <<>> => \E i \in DOMAIN l : Marked(l) = {i}

IInv == TypeOK /\ One(banks) /\ One(stored)

-----------------------------------------------------------------------------
(* normalizeBanks returns a list of the same length, with one default if   *)
(* there is an entry at all.                                               *)
LEMMA NormalizeOne ==
  ASSUME NEW l \in Seq(Entries),
         \A i, j \in Marked(l) : i = j
  PROVE  normalizeBanks(l) \in Seq(Entries) /\ One(normalizeBanks(l))
<1> DEFINE n == normalizeBanks(l)
<1>1. /\ l \in [1..Len(l) -> Entries] /\ Len(l) \in Nat
      /\ DOMAIN l = 1..Len(l)
  OBVIOUS
<1>2. \A i \in 1..Len(l) : l[i] \in Entries
  BY <1>1
<1>3. \A i \in 1..Len(l), b \in BOOLEAN : [l[i] EXCEPT !.isDefault = b] \in Entries
  BY <1>2 DEF Entries
<1>4. n \in [1..Len(l) -> Entries] /\ DOMAIN n = 1..Len(l)
  BY <1>3 DEF normalizeBanks
<1>5. n \in Seq(Entries)
  BY <1>1, <1>4
<1>6. CASE Marked(l) = {}
  <2>1. \A i \in 1..Len(l) : n[i].isDefault = (i = 1)
    BY <1>2, <1>6 DEF normalizeBanks, Entries
  <2>2. ASSUME n # <<>> PROVE Marked(n) = {1} /\ 1 \in DOMAIN n
    <3>1. 1 \in 1..Len(l)
      BY <1>1, <1>4, <1>5, <2>2
    <3> QED
      BY <1>4, <2>1, <3>1 DEF Marked
  <2> QED
    BY <1>5, <2>2 DEF One
<1>7. CASE Marked(l) # {}
  <2>1. PICK k \in 1..Len(l) : Marked(l) = {k}
    BY <1>1, <1>7 DEF Marked
  <2>2. \A i \in 1..Len(l) : n[i].isDefault = (i = k)
    BY <1>2, <2>1 DEF normalizeBanks, Entries
  <2>3. Marked(n) = {k} /\ k \in DOMAIN n
    BY <1>4, <2>1, <2>2 DEF Marked
  <2> QED
    BY <1>5, <2>3 DEF One
<1> QED
  BY <1>6, <1>7

(* A handler that saves such a list keeps the invariant. *)
LEMMA SaveKeeps ==
  ASSUME NEW l \in Seq(Entries), \A i, j \in Marked(l) : i = j,
         Save(l), index' \in Nat
  PROVE  IInv'
<1>1. banks' = normalizeBanks(l) /\ stored' = normalizeBanks(l)
  BY DEF Save
<1>2. normalizeBanks(l) \in Seq(Entries) /\ One(normalizeBanks(l))
  BY NormalizeOne
<1>3. TypeOK'
  BY <1>1, <1>2 DEF TypeOK
<1> QED
  BY <1>1, <1>2, <1>3 DEF IInv

(* In a list of the page two marks are the same. *)
LEMMA AtMostOne ==
  ASSUME IInv
  PROVE  banks \in Seq(Entries) /\ \A i, j \in Marked(banks) : i = j
<1>1. banks \in Seq(Entries) /\ One(banks)
  BY DEF IInv, TypeOK
<1>2. CASE banks = <<>>
  BY <1>1, <1>2 DEF Marked
<1>3. CASE banks # <<>>
  BY <1>1, <1>3 DEF One
<1> QED
  BY <1>1, <1>2, <1>3

LEMMA DeletePreserves ==
  ASSUME IInv, NEW c \in Calls, NEW k \in 1..MaxBanks, onDelete(c, k)
  PROVE  IInv'
<1> DEFINE w == Without(banks, k)
<1>1. banks \in Seq(Entries) /\ \A i, j \in Marked(banks) : i = j
  BY AtMostOne
<1>2. k \in 1..Len(banks) /\ Len(banks) \in Nat /\ DOMAIN banks = 1..Len(banks)
  BY <1>1 DEF onDelete, Listed
<1>3. \A i \in 1..Len(banks) : banks[i] \in Entries
  BY <1>1, <1>2
<1>4. w \in [1..(Len(banks) - 1) -> Entries] /\ DOMAIN w = 1..(Len(banks) - 1)
  BY <1>2, <1>3 DEF Without
<1>5. w \in Seq(Entries)
  BY <1>2, <1>4
<1>6. ASSUME NEW i \in Marked(w), NEW j \in Marked(w) PROVE i = j
  <2> DEFINE at(x) == IF x < k THEN x ELSE x + 1
  <2>1. \A x \in 1..(Len(banks) - 1) : w[x] = banks[at(x)] /\ at(x) \in 1..Len(banks)
    BY <1>2 DEF Without
  <2>2. i \in 1..(Len(banks) - 1) /\ j \in 1..(Len(banks) - 1)
    BY <1>4 DEF Marked
  <2>3. at(i) \in Marked(banks) /\ at(j) \in Marked(banks)
    BY <1>2, <2>1, <2>2 DEF Marked
  <2>4. at(i) = at(j)
    BY <1>1, <2>3
  <2> QED
    BY <1>2, <2>2, <2>4
<1>7. Save(w) /\ index' \in Nat
  BY DEF onDelete, screen, IInv, TypeOK
<1> QED
  BY <1>5, <1>6, <1>7, SaveKeeps

LEMMA SetDefaultPreserves ==
  ASSUME IInv, NEW c \in Calls, NEW k \in 1..MaxBanks, onSetDefault(c, k)
  PROVE  IInv'
<1> DEFINE l == [i \in 1..Len(banks) |-> [banks[i] EXCEPT !.isDefault = i = k]]
<1>1. banks \in Seq(Entries) /\ Len(banks) \in Nat
  BY AtMostOne
<1>2. \A i \in 1..Len(banks) : /\ [banks[i] EXCEPT !.isDefault = i = k] \in Entries
                               /\ [banks[i] EXCEPT !.isDefault = i = k].isDefault = (i = k)
  <2>1. \A i \in 1..Len(banks) : banks[i] \in Entries
    BY <1>1
  <2> QED
    BY <2>1 DEF Entries
<1>3. l \in [1..Len(banks) -> Entries] /\ DOMAIN l = 1..Len(banks)
  BY <1>2
<1>4. l \in Seq(Entries)
  BY <1>1, <1>3
<1>5. \A i, j \in Marked(l) : i = j
  BY <1>2, <1>3 DEF Marked
<1>6. Save(l) /\ index' \in Nat
  BY DEF onSetDefault, screen, IInv, TypeOK
<1> QED
  BY <1>4, <1>5, <1>6, SaveKeeps

LEMMA SubmitPreserves ==
  ASSUME IInv, NEW c \in Calls, NEW info \in Infos, onSubmit(c, info)
  PROVE  IInv'
<1> DEFINE edited == [banks EXCEPT ![index].info = info]
           added == Append(banks, [info |-> info, isDefault |-> isFirstBank])
<1>1. /\ banks \in Seq(Entries) /\ Len(banks) \in Nat /\ DOMAIN banks = 1..Len(banks)
      /\ \A i, j \in Marked(banks) : i = j
  BY AtMostOne
<1>2. \A i \in 1..Len(banks) : banks[i] \in Entries
  BY <1>1
<1>3. index' \in Nat
  BY DEF onSubmit
<1>4. CASE index # 0
  <2>1. Save(edited)
    BY <1>4 DEF onSubmit
  <2>2. \A i \in 1..Len(banks) :
          edited[i] \in Entries /\ edited[i].isDefault = banks[i].isDefault
    BY <1>1, <1>2 DEF Entries
  <2>3. DOMAIN edited = 1..Len(banks) /\ edited = [i \in 1..Len(banks) |-> edited[i]]
    BY <1>1
  <2>4. edited \in Seq(Entries)
    <3>1. edited \in [1..Len(banks) -> Entries]
      BY <2>2, <2>3, Zenon
    <3> QED
      BY <1>1, <3>1
  <2>5. Marked(edited) = Marked(banks)
    BY <1>1, <2>2, <2>3 DEF Marked
  <2>6. \A i, j \in Marked(edited) : i = j
    BY <1>1, <2>5
  <2> QED
    BY <1>3, <2>1, <2>4, <2>6, SaveKeeps
<1>5. CASE index = 0
  <2>1. Save(added)
    BY <1>5 DEF onSubmit
  <2>2. [info |-> info, isDefault |-> isFirstBank] \in Entries
    BY DEF Entries, isFirstBank
  <2>3. added \in Seq(Entries) /\ DOMAIN added = 1..(Len(banks) + 1)
    BY <1>1, <2>2
  <2>4. \A i \in 1..Len(banks) : added[i] = banks[i]
    BY <1>1
  <2>5. added[Len(banks) + 1].isDefault = (banks = <<>>)
    <3>1. added[Len(banks) + 1] = [info |-> info, isDefault |-> isFirstBank]
      BY <1>1
    <3> QED
      BY <3>1 DEF isFirstBank
  <2>6. \A i, j \in Marked(added) : i = j
    <3>1. CASE banks = <<>>
      BY <1>1, <2>3, <3>1 DEF Marked
    <3>2. CASE banks # <<>>
      <4>1. Marked(added) \subseteq Marked(banks)
        <5>1. SUFFICES ASSUME NEW i \in 1..(Len(banks) + 1), added[i].isDefault
                       PROVE  i \in 1..Len(banks) /\ banks[i].isDefault
          BY <1>1, <2>3 DEF Marked
        <5>2. i # Len(banks) + 1
          BY <2>5, <3>2, <5>1
        <5>3. i \in 1..Len(banks)
          BY <1>1, <5>2
        <5> QED
          BY <2>4, <5>1, <5>3
      <4> QED
        BY <1>1, <4>1
    <3> QED
      BY <3>1, <3>2
  <2> QED
    BY <1>3, <2>1, <2>3, <2>6, SaveKeeps
<1>6. index \in Nat
  BY DEF IInv, TypeOK
<1> QED
  BY <1>4, <1>5

(* A step that leaves the lists alone, or a visit. *)
LEMMA Copied ==
  ASSUME IInv, stored' = stored, banks' \in {banks, stored}, index' \in Nat
  PROVE  IInv'
BY DEF IInv, TypeOK, One, Marked

LEMMA StepPreserves ==
  ASSUME IInv, [Next]_vars
  PROVE  IInv'
<1> USE DEF list, screen, server, vars
<1>0. index \in Nat
  BY DEF IInv, TypeOK
<1>1. CASE UNCHANGED vars
  BY <1>0, <1>1, Copied
<1>2. CASE Gestures
  <2>1. stored' = stored /\ banks' \in {banks, stored} /\ index' \in Nat
    BY <1>0, <1>2, AccAssumption
    DEF Gestures, onAdd, onEdit, OpenPersonal, handleAvatarChange, CloseDialog, logout,
        LogOut, Login, Visit, Leave, Reload
  <2> QED
    BY <2>1, Copied
<1>3. ASSUME NEW c \in Calls, Handlers(c) PROVE IInv'
  <2>1. ASSUME NEW k \in 1..MaxBanks, onDelete(c, k) \/ onSetDefault(c, k) PROVE IInv'
    BY <2>1, DeletePreserves, SetDefaultPreserves
  <2>2. ASSUME NEW i \in Infos, onSubmit(c, i) PROVE IInv'
    BY <2>2, SubmitPreserves
  <2>3. ASSUME \/ \E n \in Names : handleSaveName(c, n)
               \/ handleChangePassword(c)
               \/ \E f \in Files : handleCropAvatar(c, f)
               \/ \E e \in Events : handleJoin(c, e)
        PROVE  IInv'
    <3>1. UNCHANGED <<list, index>>
      BY <2>3 DEF handleSaveName, handleChangePassword, handleCropAvatar, handleJoin
    <3> QED
      BY <1>0, <3>1, Copied
  <2> QED
    BY <1>3, <2>1, <2>2, <2>3 DEF Handlers
<1>4. ASSUME NEW c \in Calls, Proceed(c) \/ Fail(c) PROVE IInv'
  <2>1. UNCHANGED list /\ index' \in {index, 0}
    BY <1>4
    DEF Proceed, Fail, Decoded, UpdateProfile, UpdateAvatar, SetUser, ListEvents, ReadRow,
        WriteRow, Finish, ChangePassword, InsertRow, LogOut
  <2> QED
    BY <1>0, <2>1, Copied
<1> QED
  BY <1>1, <1>2, <1>3, <1>4 DEF Next

LEMMA InitInvariant == Init => IInv
<1> SUFFICES ASSUME Init PROVE IInv
  OBVIOUS
<1>1. banks = <<>> /\ index = 0 /\ stored \in Kept(account.bank)
  BY DEF Init
<1>2. CASE stored = <<>>
  BY <1>1, <1>2 DEF IInv, TypeOK, One
<1>3. CASE stored # <<>>
  <2>1. PICK n \in 1..MaxBanks : stored \in [1..n -> Entries]
    BY <1>1, <1>3 DEF Kept
  <2>2. \E i \in DOMAIN stored : Marked(stored) = {i}
    BY <1>1, <1>3 DEF Kept
  <2> QED
    BY <1>1, <2>1, <2>2, AccAssumption DEF IInv, TypeOK, One
<1> QED
  BY <1>2, <1>3

-----------------------------------------------------------------------------
(* OneDefault: on the page and in the storage a list that is not empty has *)
(* exactly one default, for any handlers in any order.                     *)
THEOREM OneDefaultHolds == Spec => []OneDefault
<1>1. IInv => OneDefault
  BY DEF IInv, One, OneDefault
<1> QED
  BY InitInvariant, StepPreserves, <1>1, PTL DEF Spec

-----------------------------------------------------------------------------
(***************************************************************************)
(* The frames of the handlers                                              *)
(***************************************************************************)
Profiles == [name : Names, bank : Infos \cup {NoBank}]

Syncing == BankKinds \cup {"name"}

Frames ==
  [kind : Syncing \cup {"none", "password", "avatar", "join"},
   pc : {"idle", "done", "profile", "events", "rows", "answer", "decode",
         "upload", "password", "insert"},
   value : Infos \cup Names \cup Files \cup Events \cup {NoBank, None},
   left : SUBSET Events, seen : [Events -> Names \cup {None}],
   got : Profiles \cup {None}, own : BOOLEAN, clean : BOOLEAN]

(* A handler goes the way of its kind; what it has in hand has the type it *)
(* needs, and the events it still has to go through have a row of the user.*)
PathOK(h) ==
  /\ h.pc \in {"idle", "done"} => h.kind = "none"
  /\ h.pc \in {"profile", "events", "rows"} => h.kind \in Syncing
  /\ h.pc = "answer" => h.kind \in {"name", "avatar"} /\ h.got \in Profiles
  /\ h.pc \in {"decode", "upload"} => h.kind = "avatar"
  /\ h.pc = "password" => h.kind = "password"
  /\ h.pc = "insert" =>
       h.kind = "join" /\ h.got \in Profiles /\ h.value \in Events
  /\ h.kind = "name" => h.value \in Names
  /\ h.kind \in BankKinds => h.value \in Infos \cup {NoBank}
  /\ h.pc # "rows" => h.left = {} /\ h.seen = [e \in Events |-> None]

FramesOK ==
  /\ call \in [Calls -> Frames]
  /\ \A c \in Calls : PathOK(call[c])
  /\ \A c \in Calls : \A e \in call[c].left : rows[e] \in Profiles

TablesOK ==
  /\ account \in Profiles
  /\ rows \in [Events -> Profiles \cup {None}]
  /\ user \in Profiles \cup {None}
  /\ page # "login" => user \in Profiles
  /\ spoiled \subseteq {"bank", "name"}

(* The page works on what is stored, and the form on an entry of it. *)
PageOK ==
  /\ page = "accounts" => banks = stored
  /\ index # 0 => page = "accounts" /\ dialog = "bank" /\ index \in DOMAIN banks

Shape == FramesOK /\ TablesOK /\ PageOK

(* The handler c goes on as g. *)
Goes(c, g) == call' = [call EXCEPT ![c] = g]

Ended == [Idle EXCEPT !.pc = "done"]

LEMMA EndedFrame ==
  /\ Ended \in Frames /\ PathOK(Ended) /\ Ended.left = {} /\ Ended.kind = "none"
  /\ Idle \in Frames /\ PathOK(Idle)
BY DEF Ended, Idle, Frames, PathOK, Syncing, BankKinds

(* What an overlap can leave in disorder. *)
LEMMA DisorderIs ==
  ASSUME NEW k, NEW l
  PROVE  /\ Disorder(k, l) \subseteq {"bank", "name"}
         /\ "bank" \in Disorder(k, l) <=>
              \/ k \in BankKinds /\ l \in BankKinds \cup {"join"}
              \/ l \in BankKinds /\ k \in BankKinds \cup {"join"}
         /\ "name" \in Disorder(k, l) <=>
              \/ k = "name" /\ l \in Syncing \cup {"join", "avatar"}
              \/ l = "name" /\ k \in Syncing \cup {"join", "avatar"}
<1>1. Mixes(k, l) \subseteq {"bank", "name"} /\ Mixes(l, k) \subseteq {"bank", "name"}
  BY DEF Mixes
<1>2. "bank" \in Mixes(k, l) <=> k \in BankKinds /\ l \in BankKinds \cup {"join"}
  BY DEF Mixes, BankKinds
<1>3. "bank" \in Mixes(l, k) <=> l \in BankKinds /\ k \in BankKinds \cup {"join"}
  BY DEF Mixes, BankKinds
<1>4. "name" \in Mixes(k, l) <=> k = "name" /\ l \in Syncing \cup {"join", "avatar"}
  BY DEF Mixes, BankKinds, Syncing
<1>5. "name" \in Mixes(l, k) <=> l = "name" /\ k \in Syncing \cup {"join", "avatar"}
  BY DEF Mixes, BankKinds, Syncing
<1> QED
  BY <1>1, <1>2, <1>3, <1>4, <1>5 DEF Disorder

LEMMA DataIs ==
  ASSUME NEW k
  PROVE  /\ Data(k) \subseteq {"bank", "name"}
         /\ "bank" \in Data(k) <=> k \in BankKinds
         /\ "name" \in Data(k) <=> k = "name"
BY DEF Data, BankKinds

(* Two frames that differ at most in who owns them and in being clean. *)
Same(g, h) ==
  /\ g.kind = h.kind /\ g.pc = h.pc /\ g.value = h.value
  /\ g.left = h.left /\ g.seen = h.seen /\ g.got = h.got

(* A handler that starts finds its own data in order only if none runs that *)
(* mixes with it, and those it mixes with are clean no more.               *)
LEMMA StartFrames ==
  ASSUME FramesOK, TablesOK, NEW c \in Calls, NEW h \in Frames, Start(c, h)
  PROVE  /\ call[c].pc = "idle"
         /\ call' \in [Calls -> Frames]
         /\ Same(call'[c], h)
         /\ \A d \in Calls \ {c} :
              Same(call'[d], call[d]) /\ (call'[d].clean => call[d].clean)
         /\ spoiled \subseteq spoiled' /\ spoiled' \subseteq {"bank", "name"}
         /\ \A d \in Calls \ {c} : Running(d) =>
              \A x \in Disorder(h.kind, call[d].kind) :
                /\ x \in spoiled'
                /\ x \in Data(h.kind) => ~call'[c].clean
                /\ x \in Data(call[d].kind) => ~call'[d].clean
         /\ Data(h.kind) \cap spoiled' = {} => call'[c].clean
         /\ \A d \in Calls \ {c} :
              Running(d) /\ Data(call[d].kind) \cap spoiled' = {} =>
                call'[d].clean = call[d].clean
<1> DEFINE R == {x \in Calls : Running(x)}
           mixed == UNION {Disorder(h.kind, call[d].kind) : d \in R}
           g == [h EXCEPT !.own = TRUE, !.clean = Data(h.kind) \cap mixed = {}]
           f(d) == [call[d] EXCEPT !.clean =
                      @ /\ Data(call[d].kind) \cap Disorder(h.kind, call[d].kind) = {}]
<1>1. /\ call[c].pc = "idle"
      /\ call' = [d \in Calls |-> IF d = c THEN g ELSE f(d)]
      /\ spoiled' = spoiled \cup mixed
  BY Zenon DEF Start, Spoil
<1>2. call \in [Calls -> Frames] /\ spoiled \subseteq {"bank", "name"}
  BY DEF FramesOK, TablesOK
<1>3. g \in Frames /\ Same(g, h) /\ g.clean = (Data(h.kind) \cap mixed = {})
  BY DEF Frames, Same
<1>4. \A d \in Calls : /\ f(d) \in Frames /\ Same(f(d), call[d])
                       /\ f(d).clean = (/\ call[d].clean
                                        /\ Data(call[d].kind) \cap
                                             Disorder(h.kind, call[d].kind) = {})
  BY <1>2 DEF Frames, Same
<1>5. \A d \in R : Disorder(h.kind, call[d].kind) \subseteq mixed
  OBVIOUS
<1>6. mixed \subseteq {"bank", "name"}
  BY DisorderIs
<1>7. call'[c] = g /\ \A d \in Calls \ {c} : call'[d] = f(d)
  BY <1>1
<1> HIDE DEF g, f, mixed
<1>8. call' \in [Calls -> Frames]
  BY <1>1, <1>3, <1>4
<1>9. \A d \in Calls \ {c} : Running(d) =>
              \A x \in Disorder(h.kind, call[d].kind) :
                /\ x \in spoiled'
                /\ x \in Data(h.kind) => ~call'[c].clean
                /\ x \in Data(call[d].kind) => ~call'[d].clean
  BY <1>1, <1>3, <1>4, <1>5, <1>7
<1>10. \A d \in Calls \ {c} :
              Running(d) /\ Data(call[d].kind) \cap spoiled' = {} =>
                call'[d].clean = call[d].clean
  <2>1. SUFFICES ASSUME NEW d \in Calls \ {c}, Running(d),
                        Data(call[d].kind) \cap spoiled' = {}
                 PROVE  f(d).clean = call[d].clean
    BY <1>7
  <2>2. Data(call[d].kind) \cap Disorder(h.kind, call[d].kind) = {}
    BY <1>1, <1>5, <2>1
  <2>3. call[d].clean \in BOOLEAN
    BY <1>2 DEF Frames
  <2> QED
    BY <1>4, <2>2, <2>3
<1>11. Data(h.kind) \cap spoiled' = {} => call'[c].clean
  BY <1>1, <1>3, <1>7
<1>12. Same(call'[c], h) /\ \A d \in Calls \ {c} :
              Same(call'[d], call[d]) /\ (call'[d].clean => call[d].clean)
  BY <1>3, <1>4, <1>7
<1>13. spoiled \subseteq spoiled' /\ spoiled' \subseteq {"bank", "name"}
  BY <1>1, <1>2, <1>6
<1> HIDE DEF R
<1> QED
  BY <1>1, <1>8, <1>9, <1>10, <1>11, <1>12, <1>13, Zenon

(* What every step does to the frames: it leaves them alone, moves one     *)
(* handler on, starts one, takes the page away from all, or ends all.      *)
LEMMA PresentFrame ==
  ASSUME NEW c \in Calls, FramesOK
  PROVE  call[c] \in Frames /\ PathOK(call[c])
BY DEF FramesOK

LEMMA FramesMove ==
  ASSUME FramesOK, call' \in [Calls -> Frames],
         \A d \in Calls : PathOK(call'[d]),
         \A e \in Events : rows[e] \in Profiles => rows'[e] \in Profiles,
         \A d \in Calls : \A e \in call'[d].left :
           e \in call[d].left \/ rows[e] \in Profiles
  PROVE  FramesOK'
<1>1. \A d \in Calls : call'[d].left \subseteq Events
  BY DEF Frames
<1> QED
  BY <1>1 DEF FramesOK, PathOK

LEMMA GoesShape ==
  ASSUME FramesOK, NEW c \in Calls, NEW g \in Frames, PathOK(g), Goes(c, g),
         \A e \in Events : rows[e] \in Profiles => rows'[e] \in Profiles,
         \A e \in g.left : e \in call[c].left \/ rows[e] \in Profiles
  PROVE  FramesOK'
<1>1. call' \in [Calls -> Frames] /\ call'[c] = g /\ \A d \in Calls \ {c} : call'[d] = call[d]
  BY DEF Goes, FramesOK
<1>2. \A d \in Calls : PathOK(call'[d])
  BY <1>1 DEF FramesOK
<1> QED
  BY <1>1, <1>2, FramesMove

LEMMA StartShape ==
  ASSUME FramesOK, TablesOK, NEW c \in Calls, NEW h \in Frames, PathOK(h),
         h.pc \notin {"idle", "done", "rows"}, Start(c, h), rows' = rows
  PROVE  FramesOK' /\ spoiled' \subseteq {"bank", "name"}
<1>1. /\ call' \in [Calls -> Frames] /\ Same(call'[c], h)
      /\ \A d \in Calls \ {c} : Same(call'[d], call[d])
      /\ spoiled' \subseteq {"bank", "name"}
  BY StartFrames
<1>2. \A d \in Calls : PathOK(call'[d])
  <2>1. PathOK(call'[c])
    BY <1>1 DEF PathOK, Same
  <2>2. ASSUME NEW d \in Calls \ {c} PROVE PathOK(call'[d])
    <3>1. PathOK(call[d]) /\ Same(call'[d], call[d])
      BY <1>1 DEF FramesOK
    <3> QED
      BY <3>1 DEF PathOK, Same
  <2> QED
    BY <2>1, <2>2
<1>3. h.left = {}
  BY DEF PathOK
<1> QED
  BY <1>1, <1>2, <1>3, FramesMove DEF Same

(* The handlers that a gesture starts. *)
LEMMA HandlerFrame ==
  ASSUME NEW k \in Syncing \cup {"password", "avatar", "join"},
         NEW p \in {"profile", "decode", "password", "insert"},
         NEW v \in Infos \cup Names \cup Files \cup Events \cup {NoBank, None}
  PROVE  LET h == Handler(k, p, v) IN
         /\ h \in Frames
         /\ h.kind = k /\ h.pc = p /\ h.value = v /\ h.left = {}
         /\ h.seen = [e \in Events |-> None] /\ h.got = None
BY DEF Handler, Idle, Frames

(* A handler that saves the list begins by sending the default if that has *)
(* changed, and has nothing to do otherwise.                               *)
LEMMA SendShape ==
  ASSUME FramesOK, TablesOK, NEW c \in Calls, NEW k \in BankKinds, NEW b,
         Default(banks') \in Infos \cup {NoBank},
         SendDefault(c, k, b), rows' = rows
  PROVE  FramesOK' /\ spoiled' \subseteq {"bank", "name"}
<1>1. CASE b
  <2> DEFINE h == Handler(k, "profile", Default(banks'))
  <2>1. /\ h \in Frames /\ h.kind = k /\ h.pc = "profile" /\ h.left = {}
        /\ h.value = Default(banks') /\ h.seen = [e \in Events |-> None]
    BY HandlerFrame DEF Syncing
  <2>2. PathOK(h)
    BY <2>1 DEF PathOK, Syncing, BankKinds
  <2>3. Start(c, h)
    BY <1>1 DEF SendDefault
  <2> HIDE DEF h
  <2> QED
    BY <2>1, <2>2, <2>3, StartShape
<1>2. CASE ~b
  BY <1>2, EndedFrame, GoesShape DEF SendDefault, End, Goes, Ended, TablesOK
<1> QED
  BY <1>1, <1>2

-----------------------------------------------------------------------------
(***************************************************************************)
(* The default of the list                                                 *)
(***************************************************************************)
LEMMA DefaultIs ==
  ASSUME NEW l \in Seq(Entries)
  PROVE  /\ Default(l) \in Infos \cup {NoBank}
         /\ One(l) /\ l # <<>> => Default(l) \in Infos
         /\ \A i \in Marked(l) : Marked(l) = {i} => Default(l) = l[i].info
<1>1. \A i \in DOMAIN l : l[i] \in Entries
  OBVIOUS
<1>2. \A i \in Marked(l) : i \in DOMAIN l /\ l[i].info \in Infos
  BY <1>1 DEF Marked, Entries
<1>3. Marked(l) # {} => (CHOOSE i \in Marked(l) : TRUE) \in Marked(l)
  OBVIOUS
<1> QED
  BY <1>2, <1>3 DEF Default, One

(* The one entry that is marked is the default of the normalized list.     *)
LEMMA NormalizeDefault ==
  ASSUME NEW l \in Seq(Entries), NEW k \in Marked(l), \A i, j \in Marked(l) : i = j
  PROVE  normalizeBanks(l) # <<>> /\ Default(normalizeBanks(l)) = l[k].info
<1> DEFINE n == normalizeBanks(l)
<1>1. Marked(l) = {k} /\ k \in 1..Len(l) /\ Len(l) \in Nat
  BY DEF Marked
<1>2. \A i \in 1..Len(l) : l[i] \in Entries
  OBVIOUS
<1>3. n = [i \in 1..Len(l) |-> [l[i] EXCEPT !.isDefault =
             IF Marked(l) = {} THEN i = 1
             ELSE i \in Marked(l) /\ \A j \in Marked(l) : i <= j]]
  BY DEF normalizeBanks
<1>4. \A i \in 1..Len(l) : n[i].isDefault = (i = k) /\ n[i].info = l[i].info
  BY <1>1, <1>2, <1>3 DEF Entries
<1>5. DOMAIN n = 1..Len(l)
  BY <1>3
<1>6. Marked(n) = {k}
  BY <1>1, <1>4, <1>5 DEF Marked
<1>7. n \in Seq(Entries)
  BY NormalizeOne
<1>8. n # <<>>
  BY <1>1, <1>5
<1> HIDE DEF n
<1>9. Default(n) = n[k].info
  BY <1>6, <1>7, DefaultIs
<1> QED
  BY <1>1, <1>4, <1>8, <1>9 DEF n

(* A handler of the list that has nothing to send has not changed what     *)
(* the server pays.                                                        *)
DefaultKept ==
  banks # <<>> /\ banks' # <<>> /\ Default(banks') = Default(banks)

LEMMA MarkOf ==
  ASSUME IInv, banks # <<>>
  PROVE  \E i \in 1..Len(banks) : /\ Marked(banks) = {i} /\ banks[i].isDefault
                                  /\ Default(banks) = banks[i].info
<1>1. PICK i \in DOMAIN banks : Marked(banks) = {i}
  BY DEF IInv, One
<1>2. banks \in Seq(Entries) /\ banks[i].isDefault /\ i \in 1..Len(banks)
  BY <1>1 DEF IInv, TypeOK, Marked
<1> QED
  BY <1>1, <1>2, DefaultIs

LEMMA DeleteKeepsDefault ==
  ASSUME IInv, NEW c \in Calls, NEW k \in 1..MaxBanks, onDelete(c, k),
         ~banks[k].isDefault
  PROVE  DefaultKept
<1> DEFINE w == Without(banks, k)
<1>1. banks \in Seq(Entries) /\ \A i, j \in Marked(banks) : i = j
  BY AtMostOne
<1>2. k \in 1..Len(banks) /\ Len(banks) \in Nat /\ DOMAIN banks = 1..Len(banks)
  BY <1>1 DEF onDelete, Listed
<1>3. PICK m \in 1..Len(banks) : /\ Marked(banks) = {m} /\ banks[m].isDefault
                                 /\ Default(banks) = banks[m].info
  BY <1>2, MarkOf
<1>4. w \in Seq(Entries) /\ DOMAIN w = 1..(Len(banks) - 1)
  <2>1. \A i \in 1..Len(banks) : banks[i] \in Entries
    BY <1>1, <1>2
  <2>2. w \in [1..(Len(banks) - 1) -> Entries]
    BY <1>2, <2>1 DEF Without
  <2> QED
    BY <1>2, <2>2
<1> DEFINE at(x) == IF x < k THEN x ELSE x + 1
           q == IF m < k THEN m ELSE m - 1
<1>5. \A x \in 1..(Len(banks) - 1) : w[x] = banks[at(x)] /\ at(x) \in 1..Len(banks)
  BY <1>2 DEF Without
<1>6. \A x \in 1..(Len(banks) - 1) : x \in Marked(w) => at(x) = m
  BY <1>2, <1>3, <1>4, <1>5 DEF Marked
<1>7. m # k /\ q \in 1..(Len(banks) - 1) /\ at(q) = m
  <2>1. m # k
    BY <1>3
  <2>2. m \in Int /\ k \in Int /\ 1 <= m /\ m <= Len(banks) /\ 1 <= k /\ k <= Len(banks)
    BY <1>2
  <2> QED
    BY <1>2, <2>1, <2>2
<1>8. q \in Marked(w) /\ w[q].info = Default(banks)
  BY <1>3, <1>4, <1>5, <1>7 DEF Marked
<1>9. \A i, j \in Marked(w) : i = j
  <2>1. \A i \in Marked(w) : i \in 1..(Len(banks) - 1)
    BY <1>4 DEF Marked
  <2>2. \A i \in Marked(w) : i = q
    BY <1>2, <1>6, <1>7, <2>1
  <2> QED
    BY <2>2
<1>10. banks' = normalizeBanks(w)
  BY DEF onDelete, Save
<1> HIDE DEF w, q, at
<1>11. normalizeBanks(w) # <<>> /\ Default(normalizeBanks(w)) = w[q].info
  BY <1>4, <1>8, <1>9, NormalizeDefault
<1> QED
  BY <1>2, <1>8, <1>10, <1>11 DEF DefaultKept

LEMMA SubmitKeepsDefault ==
  ASSUME IInv, NEW c \in Calls, NEW info \in Infos, onSubmit(c, info),
         index # 0 => index \in DOMAIN banks,
         ~isEditingDefault, ~isFirstBank
  PROVE  DefaultKept
<1> DEFINE edited == [banks EXCEPT ![index].info = info]
           added == Append(banks, [info |-> info, isDefault |-> isFirstBank])
<1>1. /\ banks \in Seq(Entries) /\ Len(banks) \in Nat /\ DOMAIN banks = 1..Len(banks)
      /\ banks # <<>> /\ isFirstBank = FALSE
  BY AtMostOne DEF isFirstBank
<1>2. \A i \in 1..Len(banks) : banks[i] \in Entries
  BY <1>1
<1>3. PICK m \in 1..Len(banks) : /\ Marked(banks) = {m} /\ banks[m].isDefault
                                 /\ Default(banks) = banks[m].info
  BY <1>1, MarkOf
<1>4. CASE index # 0
  <2>1. banks' = normalizeBanks(edited)
    BY <1>4 DEF onSubmit, Save
  <2>2. index \in 1..Len(banks) /\ index # m
    BY <1>1, <1>3, <1>4 DEF isEditingDefault
  <2>3. \A i \in 1..Len(banks) :
          /\ edited[i] \in Entries /\ edited[i].isDefault = banks[i].isDefault
          /\ i # index => edited[i].info = banks[i].info
    BY <1>1, <1>2 DEF Entries
  <2>4. DOMAIN edited = 1..Len(banks) /\ edited = [i \in 1..Len(banks) |-> edited[i]]
    BY <1>1
  <2>5. edited \in Seq(Entries)
    <3>1. edited \in [1..Len(banks) -> Entries]
      BY <2>3, <2>4, Zenon
    <3> QED
      BY <1>1, <3>1
  <2>6. Marked(edited) = {m} /\ edited[m].info = Default(banks)
    BY <1>1, <1>3, <2>2, <2>3, <2>4 DEF Marked
  <2> HIDE DEF edited
  <2>7. m \in Marked(edited) /\ \A i, j \in Marked(edited) : i = j
    BY <2>6
  <2>8. normalizeBanks(edited) # <<>> /\ Default(normalizeBanks(edited)) = edited[m].info
    BY <2>5, <2>7, NormalizeDefault
  <2> QED
    BY <1>1, <2>1, <2>6, <2>8 DEF DefaultKept
<1>5. CASE index = 0
  <2>1. banks' = normalizeBanks(added)
    BY <1>5 DEF onSubmit, Save
  <2>2. [info |-> info, isDefault |-> isFirstBank] \in Entries
    BY DEF Entries, isFirstBank
  <2>3. added \in Seq(Entries) /\ DOMAIN added = 1..(Len(banks) + 1)
    BY <1>1, <2>2
  <2>4. \A i \in 1..Len(banks) : added[i] = banks[i]
    BY <1>1
  <2>5. added[Len(banks) + 1].isDefault = FALSE
    <3>1. added[Len(banks) + 1] = [info |-> info, isDefault |-> isFirstBank]
      BY <1>1
    <3> QED
      BY <1>1, <3>1
  <2>6. m \in Marked(added) /\ added[m].info = Default(banks)
    BY <1>1, <1>3, <2>3, <2>4 DEF Marked
  <2>7. ASSUME NEW i \in Marked(added) PROVE i = m
    <3>1. i \in 1..(Len(banks) + 1) /\ added[i].isDefault
      BY <2>3, <2>7 DEF Marked
    <3>2. i # Len(banks) + 1
      BY <2>5, <3>1
    <3>3. i \in 1..Len(banks)
      BY <1>1, <3>1, <3>2
    <3>4. i \in Marked(banks)
      BY <1>1, <2>4, <3>1, <3>3 DEF Marked
    <3> QED
      BY <1>3, <3>4
  <2> HIDE DEF added
  <2>8. \A i, j \in Marked(added) : i = j
    BY <2>7
  <2>9. normalizeBanks(added) # <<>> /\ Default(normalizeBanks(added)) = added[m].info
    BY <2>3, <2>6, <2>8, NormalizeDefault
  <2> QED
    BY <1>1, <2>1, <2>6, <2>9 DEF DefaultKept
<1> QED
  BY <1>4, <1>5

-----------------------------------------------------------------------------
(***************************************************************************)
(* The frames keep their shape                                             *)
(***************************************************************************)
LEMMA InitShape == Init => Shape
<1> SUFFICES ASSUME Init PROVE Shape
  OBVIOUS
<1>1. /\ call = [c \in Calls |-> Idle]
      /\ account \in Profiles /\ rows \in [Events -> {account, None}]
      /\ user = account /\ spoiled = {} /\ page = "elsewhere" /\ index = 0
  BY DEF Init, Profiles
<1>2. \A c \in Calls : call[c].left = {}
  BY <1>1 DEF Idle
<1>3. FramesOK
  BY <1>1, <1>2, EndedFrame DEF FramesOK
<1> QED
  BY <1>1, <1>3 DEF Shape, TablesOK, PageOK

LEMMA PageKeeps ==
  ASSUME IInv, PageOK, [Next]_vars
  PROVE  PageOK'
<1> USE DEF PageOK, list, screen, vars, OnPage, Listed
<1>1. CASE UNCHANGED vars
  BY <1>1
<1>2. CASE Gestures
  BY <1>2
  DEF Gestures, onAdd, onEdit, OpenPersonal, handleAvatarChange, CloseDialog, logout,
      LogOut, Login, Visit, Leave, Reload
<1>3. ASSUME NEW c \in Calls, Handlers(c) PROVE PageOK'
  <2>1. ASSUME NEW k \in 1..MaxBanks, onDelete(c, k) \/ onSetDefault(c, k) PROVE PageOK'
    <3>1. UNCHANGED screen /\ dialog = "none" /\ banks' = stored'
      BY <2>1 DEF onDelete, onSetDefault, Save
    <3> QED
      BY <3>1
  <2>2. ASSUME NEW i \in Infos, onSubmit(c, i) PROVE PageOK'
    <3>1. index' = 0 /\ banks' = stored'
      BY <2>2 DEF onSubmit, Save
    <3> QED
      BY <3>1
  <2>3. ASSUME \/ \E n \in Names : handleSaveName(c, n)
               \/ handleChangePassword(c)
               \/ \E f \in Files : handleCropAvatar(c, f)
               \/ \E e \in Events : handleJoin(c, e)
        PROVE  UNCHANGED <<list, screen>>
    BY <2>3 DEF handleSaveName, handleChangePassword, handleCropAvatar, handleJoin
  <2> QED
    BY <1>3, <2>1, <2>2, <2>3 DEF Handlers
<1>4. ASSUME NEW c \in Calls, Proceed(c) \/ Fail(c) PROVE PageOK'
  <2>1. CASE SetUser(c) \/ Finish(c)
    BY <2>1 DEF SetUser, Finish
  <2>2. CASE ChangePassword(c)
    BY <2>2 DEF ChangePassword, LogOut
  <2>3. CASE \/ Decoded(c) \/ UpdateProfile(c) \/ UpdateAvatar(c) \/ ListEvents(c)
             \/ InsertRow(c) \/ Fail(c)
             \/ \E e \in Events : ReadRow(c, e) \/ WriteRow(c, e)
    <3>1. UNCHANGED <<list, screen>>
      BY <2>3
      DEF Decoded, UpdateProfile, UpdateAvatar, ListEvents, InsertRow, Fail, ReadRow, WriteRow
    <3> QED
      BY <3>1
  <2> QED
    BY <1>4, <2>1, <2>2, <2>3 DEF Proceed
<1> QED
  BY <1>1, <1>2, <1>3, <1>4 DEF Next

LEMMA GestureFrames ==
  ASSUME FramesOK, TablesOK, Gestures
  PROVE  FramesOK' /\ TablesOK'
<1> USE DEF server
<1>1. \A f \in Frames : /\ [f EXCEPT !.own = FALSE] \in Frames
                         /\ Same([f EXCEPT !.own = FALSE], f)
  BY DEF Frames, Same
<1>2. call' \in [Calls -> Frames] /\ \A c \in Calls :
        Same(call'[c], call[c]) \/ Same(call'[c], Ended)
  <2>1. CASE call' = call
    BY <2>1 DEF FramesOK, Same
  <2>2. CASE call' = Unmounted(call)
    BY <1>1, <2>2 DEF FramesOK, Unmounted
  <2>3. CASE Reload
    BY <2>3, EndedFrame DEF FramesOK, Reload, Same, Ended
  <2> QED
    BY <2>1, <2>2, <2>3
    DEF Gestures, onAdd, onEdit, OpenPersonal, handleAvatarChange, CloseDialog, logout,
        LogOut, Login, Visit, Leave
<1>3. UNCHANGED server
  BY DEF Gestures, onAdd, onEdit, OpenPersonal, handleAvatarChange, CloseDialog, logout,
         LogOut, Login, Visit, Leave, Reload
<1>4. \A c \in Calls : PathOK(call'[c]) /\ call'[c].left \subseteq call[c].left
  <2>1. ASSUME NEW c \in Calls PROVE PathOK(call'[c]) /\ call'[c].left \subseteq call[c].left
    <3>1. CASE Same(call'[c], call[c])
      BY <3>1 DEF FramesOK, PathOK, Same
    <3>2. CASE Same(call'[c], Ended)
      BY <3>2, EndedFrame DEF PathOK, Same
    <3> QED
      BY <1>2, <3>1, <3>2
  <2> QED
    BY <2>1
<1>5. FramesOK'
  BY <1>2, <1>3, <1>4, FramesMove
<1>6. /\ user' \in {user, None, account}
      /\ page' # "login" => user' = account \/ (user' = user /\ page # "login")
  BY DEF Gestures, onAdd, onEdit, OpenPersonal, handleAvatarChange, CloseDialog, logout,
         LogOut, Login, Visit, Leave, Reload, OnPage
<1>7. spoiled' \subseteq {"bank", "name"}
  <2>1. CASE Reload
    BY <2>1, DataIs DEF Reload, Spoil, TablesOK
  <2> QED
    BY <2>1
    DEF Gestures, onAdd, onEdit, OpenPersonal, handleAvatarChange, CloseDialog, logout,
        LogOut, Login, Visit, Leave, TablesOK
<1>8. TablesOK'
  BY <1>3, <1>6, <1>7 DEF TablesOK
<1> QED
  BY <1>5, <1>8

LEMMA HandlersFrames ==
  ASSUME IInv', FramesOK, TablesOK, NEW c \in Calls, Handlers(c)
  PROVE  FramesOK' /\ TablesOK'
<1> USE DEF server
<1>1. /\ UNCHANGED <<server, user>> /\ page' = page
      /\ spoiled' \subseteq {"bank", "name"} => TablesOK'
  BY DEF TablesOK, Handlers, onDelete, onSetDefault, onSubmit, handleSaveName,
         handleChangePassword, handleCropAvatar, handleJoin, screen
<1>2. SUFFICES FramesOK' /\ spoiled' \subseteq {"bank", "name"}
  BY <1>1
<1>3. ASSUME NEW k \in BankKinds, NEW b, SendDefault(c, k, b)
      PROVE  FramesOK' /\ spoiled' \subseteq {"bank", "name"}
  <2>1. Default(banks') \in Infos \cup {NoBank}
    BY DefaultIs DEF IInv, TypeOK
  <2> QED
    BY <1>1, <1>3, <2>1, SendShape
<1>4. ASSUME NEW n \in Names, handleSaveName(c, n)
      PROVE  FramesOK' /\ spoiled' \subseteq {"bank", "name"}
  <2> DEFINE h == Handler("name", "profile", n)
  <2>1. /\ h \in Frames /\ h.kind = "name" /\ h.pc = "profile" /\ h.left = {}
        /\ h.value = n /\ h.seen = [e \in Events |-> None]
    BY DEF Handler, Idle, Frames, Syncing
  <2>2. Start(c, h)
    BY <1>4 DEF handleSaveName
  <2> HIDE DEF h
  <2>3. PathOK(h)
    BY <2>1 DEF PathOK, Syncing, BankKinds
  <2> QED
    BY <1>1, <2>1, <2>2, <2>3, StartShape
<1>5. CASE handleChangePassword(c)
  <2> DEFINE h == Handler("password", "password", None)
  <2>1. /\ h \in Frames /\ h.kind = "password" /\ h.pc = "password" /\ h.left = {}
        /\ h.seen = [e \in Events |-> None]
    BY DEF Handler, Idle, Frames
  <2>2. Start(c, h)
    BY <1>5 DEF handleChangePassword
  <2> HIDE DEF h
  <2>3. PathOK(h)
    BY <2>1 DEF PathOK, Syncing, BankKinds
  <2> QED
    BY <1>1, <2>1, <2>2, <2>3, StartShape
<1>6. ASSUME NEW f \in Files, handleCropAvatar(c, f)
      PROVE  FramesOK' /\ spoiled' \subseteq {"bank", "name"}
  <2> DEFINE h == Handler("avatar", "decode", f)
  <2>1. /\ h \in Frames /\ h.kind = "avatar" /\ h.pc = "decode" /\ h.left = {}
        /\ h.seen = [e \in Events |-> None]
    BY DEF Handler, Idle, Frames
  <2>2. Start(c, h)
    BY <1>6 DEF handleCropAvatar
  <2> HIDE DEF h
  <2>3. PathOK(h)
    BY <2>1 DEF PathOK, Syncing, BankKinds
  <2> QED
    BY <1>1, <2>1, <2>2, <2>3, StartShape
<1>7. ASSUME NEW e \in Events, handleJoin(c, e)
      PROVE  FramesOK' /\ spoiled' \subseteq {"bank", "name"}
  <2> DEFINE p == [name |-> user.name, bank |-> account.bank]
             h == [Handler("join", "insert", e) EXCEPT !.got = p]
  <2>1. p \in Profiles
    BY <1>7 DEF handleJoin, TablesOK, Profiles
  <2>2. /\ h \in Frames /\ h.kind = "join" /\ h.pc = "insert" /\ h.left = {}
        /\ h.value = e /\ h.got = p /\ h.seen = [x \in Events |-> None]
    BY <2>1 DEF Handler, Idle, Frames
  <2>3. Start(c, h)
    BY <1>7 DEF handleJoin
  <2> HIDE DEF h, p
  <2>4. PathOK(h)
    BY <2>1, <2>2 DEF PathOK, Syncing, BankKinds
  <2> QED
    BY <1>1, <2>2, <2>3, <2>4, StartShape
<1>8. ASSUME NEW k \in 1..MaxBanks, onDelete(c, k) \/ onSetDefault(c, k)
      PROVE  FramesOK' /\ spoiled' \subseteq {"bank", "name"}
  <2>1. \/ SendDefault(c, "delete", banks[k].isDefault)
        \/ SendDefault(c, "default", TRUE)
    BY <1>8 DEF onDelete, onSetDefault
  <2> QED
    BY <1>3, <2>1 DEF BankKinds
<1>9. ASSUME NEW i \in Infos, onSubmit(c, i)
      PROVE  FramesOK' /\ spoiled' \subseteq {"bank", "name"}
  <2>1. SendDefault(c, "submit", isEditingDefault \/ isFirstBank)
    BY <1>9 DEF onSubmit
  <2> QED
    BY <1>3, <2>1 DEF BankKinds
<1> QED
  BY <1>4, <1>5, <1>6, <1>7, <1>8, <1>9 DEF Handlers

(* The data whose handler ends before its time. *)
LEMMA SpoilShape ==
  ASSUME TablesOK, NEW k, Spoil(Data(k))
  PROVE  spoiled' \subseteq {"bank", "name"}
BY DataIs DEF Spoil, TablesOK

(* The end of a handler, and its next request or its end. *)
LEMMA EndShape ==
  ASSUME FramesOK, NEW c \in Calls, End(c),
         \A e \in Events : rows[e] \in Profiles => rows'[e] \in Profiles
  PROVE  FramesOK'
BY EndedFrame, GoesShape DEF End, Goes, Ended

LEMMA NextShape ==
  ASSUME FramesOK, TablesOK, NEW c \in Calls, NEW g \in Frames, PathOK(g),
         \A e \in g.left : e \in call[c].left \/ rows[e] \in Profiles,
         NextRequest(c, g), rows' = rows
  PROVE  FramesOK' /\ spoiled' \subseteq {"bank", "name"}
<1>1. CASE token
  BY <1>1, GoesShape DEF NextRequest, Goes, TablesOK
<1>2. CASE ~token
  BY <1>2, EndShape, SpoilShape DEF NextRequest
<1> QED
  BY <1>1, <1>2

(* What is left of a sync when it leaves an event. *)
Past(g, h, e, ok) ==
  /\ g \in Frames
  /\ g.kind = h.kind /\ g.pc = h.pc /\ g.value = h.value /\ g.got = h.got
  /\ g.left = h.left \ {e} /\ g.seen = [h.seen EXCEPT ![e] = None]
  /\ g.clean = (h.clean /\ ok)

LEMMA LeavesGoes ==
  ASSUME FramesOK, NEW c \in Calls, NEW e \in Events, NEW ok \in BOOLEAN,
         Leaves(c, e, ok)
  PROVE  \E g \in Frames : Goes(c, g) /\ Past(g, call[c], e, ok)
<1> DEFINE h == call[c]
           g == [h EXCEPT !.left = @ \ {e}, !.seen = [@ EXCEPT ![e] = None],
                          !.clean = @ /\ ok]
<1>1. h \in Frames /\ c \in DOMAIN call
  BY DEF FramesOK
<1>2. Past(g, h, e, ok)
  BY <1>1 DEF Past, Frames
<1>3. Goes(c, g)
  BY <1>1 DEF Goes, Leaves, Frames
<1> QED
  BY <1>2, <1>3 DEF Past

LEMMA LeavesShape ==
  ASSUME FramesOK, NEW c \in Calls, NEW e \in Events, NEW ok \in BOOLEAN,
         call[c].pc = "rows", Leaves(c, e, ok),
         \A x \in Events : rows[x] \in Profiles => rows'[x] \in Profiles
  PROVE  FramesOK'
<1>1. call[c] \in Frames /\ PathOK(call[c])
  BY PresentFrame
<1>2. PICK g \in Frames : Goes(c, g) /\ Past(g, call[c], e, ok)
  BY LeavesGoes
<1>3. PathOK(g)
  BY <1>1, <1>2 DEF PathOK, Past
<1> QED
  BY <1>2, <1>3, GoesShape DEF Past

LEMMA ProceedFrames ==
  ASSUME FramesOK, TablesOK, NEW c \in Calls, Proceed(c) \/ Fail(c)
  PROVE  FramesOK' /\ TablesOK'
<1> USE DEF server
<1> DEFINE h == call[c]
<1>0. h \in Frames /\ PathOK(h) /\ c \in DOMAIN call
  BY PresentFrame DEF FramesOK
<1>1. CASE Decoded(c)
  <2> DEFINE g == [h EXCEPT !.pc = "upload"]
  <2>1. Goes(c, g) /\ h.pc = "decode"
    BY <1>1 DEF Decoded, Goes
  <2>2. g \in Frames /\ PathOK(g) /\ g.left = {}
    BY <1>0, <2>1 DEF Frames, PathOK
  <2>3. UNCHANGED <<server, user, page, spoiled>>
    BY <1>1 DEF Decoded, screen
  <2> QED
    BY <2>1, <2>2, <2>3, GoesShape DEF TablesOK
<1>2. CASE UpdateProfile(c)
  <2>1. account' \in Profiles /\ UNCHANGED <<rows, user, page>>
    BY <1>0, <1>2 DEF UpdateProfile, screen, TablesOK, Profiles, PathOK, Syncing
  <2>2. CASE h.kind = "name"
    <3> DEFINE g == [h EXCEPT !.pc = "answer", !.got = account']
    <3>1. Goes(c, g) /\ h.pc = "profile" /\ spoiled' = spoiled
      BY <1>0, <1>2, <2>2 DEF UpdateProfile, Goes, Frames
    <3>2. g \in Frames /\ PathOK(g) /\ g.left = {}
      BY <1>0, <2>1, <2>2, <3>1 DEF Frames, PathOK, Syncing, BankKinds
    <3> QED
      BY <2>1, <3>1, <3>2, GoesShape DEF TablesOK
  <2>3. CASE h.kind # "name"
    <3> DEFINE g == [h EXCEPT !.pc = "events"]
    <3>1. NextRequest(c, g) /\ h.pc = "profile"
      BY <1>2, <2>3 DEF UpdateProfile
    <3>2. g \in Frames /\ PathOK(g) /\ g.left = {}
      BY <1>0, <3>1 DEF Frames, PathOK, Syncing, BankKinds
    <3> HIDE DEF g
    <3>3. FramesOK' /\ spoiled' \subseteq {"bank", "name"}
      BY <2>1, <3>1, <3>2, NextShape
    <3> QED
      BY <2>1, <3>3 DEF TablesOK
  <2> QED
    BY <2>2, <2>3
<1>3. CASE UpdateAvatar(c)
  <2> DEFINE g == [h EXCEPT !.pc = "answer", !.got = account]
  <2>1. Goes(c, g) /\ h.pc = "upload"
    BY <1>0, <1>3 DEF UpdateAvatar, Goes, Frames
  <2>2. g \in Frames /\ PathOK(g) /\ g.left = {}
    BY <1>0, <2>1 DEF Frames, PathOK, Syncing, BankKinds, TablesOK
  <2>3. UNCHANGED <<server, user, page, spoiled>>
    BY <1>3 DEF UpdateAvatar, screen
  <2> QED
    BY <2>1, <2>2, <2>3, GoesShape DEF TablesOK
<1>4. CASE SetUser(c)
  <2>1. h.pc = "answer" /\ user' \in Profiles /\ UNCHANGED <<account, rows, page>>
    BY <1>0, <1>4 DEF SetUser, PathOK
  <2>2. CASE h.kind = "avatar"
    <3>1. End(c) /\ spoiled' = spoiled
      BY <1>4, <2>2 DEF SetUser
    <3> QED
      BY <2>1, <3>1, EndShape DEF TablesOK
  <2>3. CASE h.kind # "avatar"
    <3> DEFINE g == [h EXCEPT !.pc = "events", !.got = None]
    <3>1. NextRequest(c, g)
      BY <1>4, <2>3 DEF SetUser
    <3>2. g \in Frames /\ PathOK(g) /\ g.left = {}
      BY <1>0, <2>1, <2>3 DEF Frames, PathOK, Syncing, BankKinds
    <3> HIDE DEF g
    <3>3. FramesOK' /\ spoiled' \subseteq {"bank", "name"}
      BY <2>1, <3>1, <3>2, NextShape
    <3> QED
      BY <2>1, <3>3 DEF TablesOK
  <2> QED
    BY <2>2, <2>3
<1>5. CASE ListEvents(c)
  <2> DEFINE g == [h EXCEPT !.pc = "rows", !.left = Member]
  <2>1. NextRequest(c, g) /\ h.pc = "events" /\ UNCHANGED <<server, user, page>>
    BY <1>5 DEF ListEvents, screen
  <2>2. Member \subseteq Events /\ \A e \in Member : rows[e] \in Profiles
    BY DEF Member, TablesOK
  <2>3. g \in Frames /\ PathOK(g) /\ g.left = Member
    BY <1>0, <2>1, <2>2 DEF Frames, PathOK, Syncing, BankKinds
  <2> HIDE DEF g
  <2>4. FramesOK' /\ spoiled' \subseteq {"bank", "name"}
    BY <2>1, <2>2, <2>3, NextShape
  <2> QED
    BY <2>1, <2>4 DEF TablesOK
<1>6. ASSUME NEW e \in Events, ReadRow(c, e)
      PROVE  FramesOK' /\ TablesOK'
  <2>1. h.pc = "rows" /\ e \in h.left /\ UNCHANGED <<server, user, page>>
    BY <1>6 DEF ReadRow, screen
  <2>2. rows[e] \in Profiles
    BY <2>1 DEF FramesOK
  <2>3. CASE \E ok \in BOOLEAN : Leaves(c, e, ok)
    <3>1. spoiled' \subseteq {"bank", "name"}
      BY <1>6, SpoilShape DEF ReadRow, Misses, TablesOK
    <3> QED
      BY <2>1, <2>3, <3>1, LeavesShape DEF TablesOK
  <2>4. CASE call' = [call EXCEPT ![c].seen[e] = rows[e].name] /\ UNCHANGED spoiled
    <3> DEFINE g == [h EXCEPT !.seen = [@ EXCEPT ![e] = rows[e].name]]
    <3>1. Goes(c, g)
      BY <1>0, <2>4 DEF Goes, Frames
    <3>2. g \in Frames /\ PathOK(g) /\ g.left = h.left
      BY <1>0, <2>1, <2>2 DEF Frames, PathOK, Profiles
    <3> QED
      BY <2>1, <2>4, <3>1, <3>2, GoesShape DEF TablesOK
  <2> QED
    BY <1>6, <2>3, <2>4 DEF ReadRow, Misses
<1>7. ASSUME NEW e \in Events, WriteRow(c, e)
      PROVE  FramesOK' /\ TablesOK'
  <2>1. /\ h.pc = "rows" /\ e \in h.left /\ h.seen[e] # None
        /\ UNCHANGED <<account, user, page, spoiled>> /\ Leaves(c, e, TRUE)
    BY <1>7 DEF WriteRow, screen
  <2>2. rows[e] \in Profiles /\ h.seen[e] \in Names
    BY <1>0, <2>1 DEF FramesOK, Frames
  <2>3. rows' \in [Events -> Profiles \cup {None}] /\ rows'[e] \in Profiles
        /\ \A x \in Events \ {e} : rows'[x] = rows[x]
    BY <1>0, <1>7, <2>1, <2>2 DEF WriteRow, TablesOK, Profiles, PathOK, Syncing
  <2>4. FramesOK'
    BY <2>1, <2>3, LeavesShape
  <2> QED
    BY <2>1, <2>3, <2>4 DEF TablesOK
<1>8. CASE Finish(c)
  <2>1. End(c) /\ UNCHANGED <<server, user, page>> /\ spoiled' \subseteq spoiled
    BY <1>8 DEF Finish
  <2> QED
    BY <2>1, EndShape DEF TablesOK
<1>9. CASE ChangePassword(c)
  <2> DEFINE f == [call EXCEPT ![c] = Ended]
  <2>1. /\ call' = Unmounted(f) /\ UNCHANGED <<server, spoiled>>
        /\ user' = None /\ page' = "login"
    BY <1>9 DEF ChangePassword, LogOut, Ended
  <2>2. \A g \in Frames : /\ [g EXCEPT !.own = FALSE] \in Frames
                          /\ Same([g EXCEPT !.own = FALSE], g)
    BY DEF Frames, Same
  <2>3. f \in [Calls -> Frames] /\ f[c] = Ended /\ \A d \in Calls \ {c} : f[d] = call[d]
    BY EndedFrame DEF FramesOK
  <2>4. /\ call' \in [Calls -> Frames] /\ Same(call'[c], Ended)
        /\ \A d \in Calls \ {c} : Same(call'[d], call[d])
    BY <2>1, <2>2, <2>3 DEF Unmounted
  <2>5. \A d \in Calls : PathOK(call'[d])
    BY <2>4, EndedFrame DEF FramesOK, PathOK, Same
  <2>6. FramesOK'
    BY <2>1, <2>4, <2>5, EndedFrame, FramesMove DEF Same
  <2> QED
    BY <2>1, <2>6 DEF TablesOK
<1>10. CASE InsertRow(c)
  <2>1. /\ End(c) /\ UNCHANGED <<account, user, page, spoiled>>
        /\ rows' = [rows EXCEPT ![h.value] = h.got]
        /\ h.got \in Profiles /\ h.value \in Events
    BY <1>0, <1>10 DEF InsertRow, screen, PathOK
  <2> QED
    BY <2>1, EndShape DEF TablesOK
<1>11. CASE Fail(c)
  <2>1. UNCHANGED <<server, user, page>>
    BY <1>11 DEF Fail, screen
  <2>2. CASE End(c) /\ Spoil(Data(h.kind))
    BY <2>1, <2>2, EndShape, SpoilShape DEF TablesOK
  <2>3. ASSUME NEW e \in h.left, Misses(c, e), h.pc = "rows"
        PROVE  FramesOK' /\ TablesOK'
    <3>1. e \in Events /\ Leaves(c, e, FALSE) /\ Spoil(Data(h.kind))
      BY <1>0, <2>3 DEF Misses, Frames
    <3> QED
      BY <2>1, <2>3, <3>1, LeavesShape, SpoilShape DEF TablesOK
  <2> QED
    BY <1>11, <2>2, <2>3 DEF Fail
<1> QED
  BY <1>1, <1>2, <1>3, <1>4, <1>5, <1>6, <1>7, <1>8, <1>9, <1>10, <1>11 DEF Proceed

LEMMA ShapePreserves ==
  ASSUME IInv, Shape, [Next]_vars
  PROVE  Shape'
<1>1. IInv' /\ PageOK'
  BY StepPreserves, PageKeeps DEF Shape
<1>2. FramesOK' /\ TablesOK'
  <2>1. CASE UNCHANGED vars
    BY <2>1 DEF vars, server, screen, Shape, FramesOK, TablesOK, PathOK
  <2> QED
    BY <1>1, <2>1, GestureFrames, HandlersFrames, ProceedFrames DEF Next, Shape
<1> QED
  BY <1>1, <1>2 DEF Shape

-----------------------------------------------------------------------------
(***************************************************************************)
(* The default account at the server                                       *)
(***************************************************************************)
(* Handlers that write bank accounts, and those that copy one. *)
Pays(c) == call[c].kind \in BankKinds
Copies(c) == call[c].kind \in BankKinds \cup {"join"}

(* How far a handler that runs alone has brought the default of the list.  *)
Paying(h) ==
  /\ h.value = Default(stored)
  /\ h.pc # "profile" /\ h.value # NoBank =>
       /\ account.bank = h.value
       /\ h.pc = "rows" => \A e \in Member \ h.left : rows[e].bank = h.value

PaidEverywhere ==
  /\ account.bank = Default(stored)
  /\ \A e \in Member : rows[e].bank = Default(stored)
  /\ \A c \in Calls : call[c].kind = "join" => call[c].got.bank = Default(stored)

(* A clean handler has had nobody beside it that writes or copies bank     *)
(* accounts.  Unless the data are spoiled, whoever writes is clean, and    *)
(* while nobody does the default is everywhere.                            *)
BankInv ==
  /\ \A c \in Calls : Pays(c) /\ call[c].clean =>
       Paying(call[c]) /\ \A d \in Calls \ {c} : ~Copies(d)
  /\ "bank" \notin spoiled => \A c \in Calls : Pays(c) => call[c].clean
  /\ "bank" \notin spoiled /\ stored # <<>> /\ (\A c \in Calls : ~Pays(c)) =>
       PaidEverywhere

(* What a step may do to the handlers that copy bank accounts, unless one  *)
(* begins or finishes.                                                     *)
BankFrames ==
  /\ \A d \in Calls : Copies(d)' =>
       /\ call'[d].kind = call[d].kind /\ call'[d].value = call[d].value
       /\ call'[d].got = call[d].got
       /\ call'[d].clean => call[d].clean
       /\ "bank" \notin spoiled' /\ Pays(d) => call'[d].clean = call[d].clean
  /\ "bank" \notin spoiled' =>
       "bank" \notin spoiled /\ \A d \in Calls : Pays(d) => Pays(d)'

BankTablesKept ==
  /\ account'.bank = account.bank
  /\ \A e \in Member' : e \in Member /\ rows'[e].bank = rows[e].bank

DefaultSame ==
  Default(stored') = Default(stored) /\ (stored' = <<>> <=> stored = <<>>)

(* Nobody writes a bank account. *)
LEMMA BankKeeps ==
  ASSUME BankInv, BankFrames, BankTablesKept, DefaultSame,
         \A d \in Calls : Pays(d)' /\ call'[d].clean =>
           \/ call'[d].pc = call[d].pc /\ call'[d].left = call[d].left
           \/ Paying(call[d])'
  PROVE  BankInv'
<1>1. ASSUME NEW c \in Calls, Pays(c)', call'[c].clean
      PROVE  Paying(call[c])' /\ \A d \in Calls \ {c} : ~Copies(d)'
  <2>1. Copies(c)'
    BY <1>1 DEF Copies, Pays
  <2>2. Pays(c) /\ call[c].clean
    BY <1>1, <2>1 DEF BankFrames, Pays
  <2>3. Paying(call[c])'
    <3>1. CASE call'[c].pc = call[c].pc /\ call'[c].left = call[c].left
      BY <2>1, <2>2, <3>1 DEF BankInv, BankFrames, BankTablesKept, DefaultSame, Paying
    <3> QED
      BY <1>1, <3>1
  <2>4. \A d \in Calls \ {c} : ~Copies(d)'
    BY <2>2 DEF BankInv, BankFrames, Copies
  <2> QED
    BY <2>3, <2>4
<1>2. ASSUME "bank" \notin spoiled', NEW c \in Calls, Pays(c)'
      PROVE  call'[c].clean
  BY <1>2 DEF BankInv, BankFrames, Pays, Copies
<1>3. ASSUME "bank" \notin spoiled', stored' # <<>>, \A c \in Calls : ~Pays(c)'
      PROVE  PaidEverywhere'
  BY <1>3 DEF BankInv, BankFrames, BankTablesKept, DefaultSame, PaidEverywhere, Pays, Copies
<1> QED
  BY <1>1, <1>2, <1>3 DEF BankInv

(* A handler writes one that goes on, or fails and spoils the data. *)
LEMMA BankWrites ==
  ASSUME BankInv, BankFrames, NEW c \in Calls, Pays(c),
         Pays(c)' \/ "bank" \in spoiled',
         Pays(c)' /\ call'[c].clean => Paying(call[c])'
  PROVE  BankInv'
<1>1. ASSUME NEW d \in Calls, Pays(d)', call'[d].clean
      PROVE  Paying(call[d])' /\ \A x \in Calls \ {d} : ~Copies(x)'
  <2>1. Pays(d) /\ call[d].clean
    BY <1>1 DEF BankFrames, Pays, Copies
  <2>2. \A x \in Calls \ {d} : ~Copies(x)
    BY <2>1 DEF BankInv
  <2>3. d = c
    BY <2>2 DEF Pays, Copies
  <2> QED
    BY <1>1, <2>2, <2>3 DEF BankFrames, Copies
<1>2. ASSUME "bank" \notin spoiled', NEW d \in Calls, Pays(d)'
      PROVE  call'[d].clean
  BY <1>2 DEF BankInv, BankFrames, Pays, Copies
<1>3. "bank" \notin spoiled' => \E d \in Calls : Pays(d)'
  OBVIOUS
<1> QED
  BY <1>1, <1>2, <1>3 DEF BankInv

(* A clean handler begins, and nobody it could mix with runs. *)
LEMMA BankStarts ==
  ASSUME FramesOK, TablesOK, BankInv, NEW c \in Calls, NEW h \in Frames, Start(c, h),
         h.kind \in BankKinds, h.pc = "profile", h.value = Default(stored')
  PROVE  BankInv'
<1>1. \A d \in Calls \ {c} : Copies(d) =>
        /\ "bank" \in spoiled' /\ ~call'[c].clean
        /\ Pays(d) => ~call'[d].clean
  <2>1. SUFFICES ASSUME NEW d \in Calls \ {c}, Copies(d)
                 PROVE  /\ "bank" \in spoiled' /\ ~call'[c].clean
                        /\ Pays(d) => ~call'[d].clean
    OBVIOUS
  <2>2. Running(d)
    BY <2>1, PresentFrame DEF Copies, Running, PathOK, BankKinds
  <2>3. "bank" \in Disorder(h.kind, call[d].kind) /\ "bank" \in Data(h.kind)
    BY <2>1, DisorderIs, DataIs DEF Copies
  <2>4. Pays(d) => "bank" \in Data(call[d].kind)
    BY DataIs DEF Pays
  <2> QED
    BY <2>2, <2>3, <2>4, StartFrames
<1>2. /\ Same(call'[c], h)
      /\ \A d \in Calls \ {c} : Same(call'[d], call[d])
  BY StartFrames
<1>3. /\ Pays(c)' /\ Paying(call[c])'
      /\ \A d \in Calls \ {c} : (Pays(d)' <=> Pays(d)) /\ (Copies(d)' <=> Copies(d))
  BY <1>2 DEF Same, Pays, Copies, Paying
<1>4. "bank" \notin spoiled' => call'[c].clean
  <2>1. "bank" \notin spoiled' => Data(h.kind) \cap spoiled' = {}
    BY DataIs DEF Data
  <2> QED
    BY <2>1, StartFrames
<1>5. \A d \in Calls : Pays(d) => Copies(d)
  BY DEF Pays, Copies
<1> QED
  BY <1>1, <1>3, <1>4, <1>5 DEF BankInv

LEMMA JoinStarts ==
  ASSUME FramesOK, TablesOK, BankInv, NEW c \in Calls, NEW h \in Frames, Start(c, h),
         h.kind = "join", h.got.bank = account.bank, UNCHANGED <<stored, server>>
  PROVE  BankInv'
<1>1. \A d \in Calls \ {c} : Pays(d) => "bank" \in spoiled' /\ ~call'[d].clean
  <2>1. SUFFICES ASSUME NEW d \in Calls \ {c}, Pays(d)
                 PROVE  "bank" \in spoiled' /\ ~call'[d].clean
    OBVIOUS
  <2>2. Running(d)
    BY <2>1, PresentFrame DEF Pays, Running, PathOK, BankKinds
  <2>3. "bank" \in Disorder(h.kind, call[d].kind) /\ "bank" \in Data(call[d].kind)
    BY <2>1, DisorderIs, DataIs DEF Pays
  <2> QED
    BY <2>2, <2>3, StartFrames
<1>2. /\ Same(call'[c], h) /\ spoiled \subseteq spoiled' /\ call[c].pc = "idle"
      /\ \A d \in Calls \ {c} : Same(call'[d], call[d])
  BY StartFrames
<1>3. ~Pays(c)' /\ ~Pays(c) /\ \A d \in Calls \ {c} : Pays(d)' <=> Pays(d)
  BY <1>2, PresentFrame DEF Same, Pays, PathOK, BankKinds
<1>4. ASSUME "bank" \notin spoiled', stored' # <<>>
      PROVE  PaidEverywhere'
  <2>1. PaidEverywhere
    BY <1>1, <1>2, <1>3, <1>4 DEF BankInv
  <2> QED
    BY <1>2, <2>1 DEF PaidEverywhere, Same, server, Member
<1> QED
  BY <1>1, <1>3, <1>4 DEF BankInv

LEMMA OtherStarts ==
  ASSUME FramesOK, TablesOK, BankInv, NEW c \in Calls, NEW h \in Frames, Start(c, h),
         h.kind \notin BankKinds \cup {"join"}, UNCHANGED <<stored, server>>
  PROVE  BankInv'
<1>1. /\ Same(call'[c], h) /\ spoiled \subseteq spoiled' /\ call[c].pc = "idle"
      /\ \A d \in Calls \ {c} :
           Same(call'[d], call[d]) /\ (call'[d].clean => call[d].clean)
  BY StartFrames
<1>2. ASSUME NEW d \in Calls \ {c}, Pays(d), "bank" \notin spoiled'
      PROVE  call'[d].clean = call[d].clean
  <2>1. Running(d)
    BY <1>2, PresentFrame DEF Pays, Running, PathOK, BankKinds
  <2>2. Data(call[d].kind) \cap spoiled' = {}
    BY <1>2 DEF Data, Pays
  <2> QED
    BY <2>1, <2>2, StartFrames
<1>3. ~Copies(c)' /\ ~Pays(c)
  BY <1>1, PresentFrame DEF Same, Copies, Pays, PathOK, BankKinds
<1>4. BankFrames
  BY <1>1, <1>2, <1>3 DEF BankFrames, Same, Copies, Pays
<1>5. BankTablesKept /\ DefaultSame
  BY DEF BankTablesKept, DefaultSame, server, Member
<1>6. \A d \in Calls : Pays(d)' =>
        call'[d].pc = call[d].pc /\ call'[d].left = call[d].left
  BY <1>1, <1>3 DEF Same, Pays, Copies
<1> QED
  BY <1>4, <1>5, <1>6, BankKeeps

(* A step of one handler that begins nothing. *)
LEMMA BankGoes ==
  ASSUME FramesOK, NEW c \in Calls, NEW g \in Frames, Goes(c, g),
         \/ g.kind \notin BankKinds \cup {"join"}
         \/ /\ g.kind = call[c].kind /\ g.value = call[c].value /\ g.got = call[c].got
            /\ g.clean => call[c].clean
            /\ "bank" \notin spoiled' => g.clean = call[c].clean,
         "bank" \in spoiled => "bank" \in spoiled',
         Pays(c) /\ g.kind \notin BankKinds => "bank" \in spoiled'
  PROVE  BankFrames /\ call'[c] = g /\ \A d \in Calls \ {c} : call'[d] = call[d]
<1>1. call'[c] = g /\ \A d \in Calls \ {c} : call'[d] = call[d]
  BY DEF Goes, FramesOK
<1> QED
  BY <1>1 DEF BankFrames, Copies, Pays

(* Handlers that copy no bank account. *)
LEMMA BankAside ==
  ASSUME FramesOK, BankInv, NEW c \in Calls, NEW g \in Frames, Goes(c, g),
         g.kind \notin BankKinds \cup {"join"},
         "bank" \in spoiled => "bank" \in spoiled',
         Pays(c) => "bank" \in spoiled',
         BankTablesKept, DefaultSame
  PROVE  BankInv'
<1>1. BankFrames /\ call'[c] = g /\ \A d \in Calls \ {c} : call'[d] = call[d]
  BY BankGoes
<1>2. \A d \in Calls : Pays(d)' =>
        call'[d].pc = call[d].pc /\ call'[d].left = call[d].left
  BY <1>1 DEF Pays
<1> QED
  BY <1>1, <1>2, BankKeeps

LEMMA BankEnds ==
  ASSUME FramesOK, BankInv, NEW c \in Calls, End(c),
         "bank" \in spoiled => "bank" \in spoiled',
         Pays(c) => "bank" \in spoiled',
         BankTablesKept, DefaultSame
  PROVE  BankInv'
<1>1. Goes(c, Ended) /\ Ended.kind \notin BankKinds \cup {"join"} /\ Ended \in Frames
  BY EndedFrame DEF End, Goes, Ended, BankKinds
<1> QED
  BY <1>1, BankAside

LEMMA BankGestures ==
  ASSUME FramesOK, BankInv, Gestures
  PROVE  BankInv'
<1> USE DEF server, list
<1>1. BankTablesKept /\ DefaultSame
  <2>1. UNCHANGED <<stored, server>>
    BY DEF Gestures, onAdd, onEdit, OpenPersonal, handleAvatarChange, CloseDialog, logout,
           LogOut, Login, Visit, Leave, Reload
  <2> QED
    BY <2>1 DEF BankTablesKept, DefaultSame, Member
<1>2. CASE Reload
  <2>1. \A d \in Calls : ~Copies(d)'
    <3>1. SUFFICES ASSUME NEW d \in Calls PROVE call'[d].kind = "none"
      BY DEF Copies, BankKinds
    <3>2. ~Running(d) => call[d].kind = "none"
      BY PresentFrame DEF PathOK, Running
    <3> QED
      BY <1>2, <3>2 DEF Reload, Idle
  <2>2. ASSUME "bank" \notin spoiled'
        PROVE  "bank" \notin spoiled /\ \A d \in Calls : ~Pays(d)
    <3>1. "bank" \notin spoiled
      BY <1>2, <2>2 DEF Reload, Spoil
    <3>2. ASSUME NEW d \in Calls, Pays(d) PROVE FALSE
      <4>1. Running(d)
        BY <3>2, PresentFrame DEF Pays, Running, PathOK, BankKinds
      <4>2. "bank" \in Data(call[d].kind)
        BY <3>2, DataIs DEF Pays
      <4> QED
        BY <1>2, <2>2, <4>1, <4>2 DEF Reload, Spoil
    <3> QED
      BY <3>1, <3>2
  <2>3. BankFrames /\ \A d \in Calls : ~Pays(d)'
    BY <2>1, <2>2 DEF BankFrames, Copies, Pays
  <2> QED
    BY <1>1, <2>3, BankKeeps
<1>3. CASE ~Reload
  <2>1. spoiled' = spoiled /\ call' \in {call, Unmounted(call)}
    BY <1>3
    DEF Gestures, onAdd, onEdit, OpenPersonal, handleAvatarChange, CloseDialog, logout,
        LogOut, Login, Visit, Leave
  <2>2. \A d \in Calls : Same(call'[d], call[d]) /\ call'[d].clean = call[d].clean
    <3>1. call \in [Calls -> Frames]
      BY DEF FramesOK
    <3> QED
      BY <2>1, <3>1 DEF Unmounted, Same, Frames
  <2>3. BankFrames
    BY <2>1, <2>2 DEF BankFrames, Copies, Pays, Same
  <2> QED
    BY <1>1, <2>2, <2>3, BankKeeps DEF Same
<1> QED
  BY <1>2, <1>3

LEMMA BankHandlers ==
  ASSUME IInv, IInv', Shape, BankInv, NEW c \in Calls, Handlers(c)
  PROVE  BankInv'
<1> USE DEF server, list, Shape
<1>1. UNCHANGED server
  BY DEF Handlers, onDelete, onSetDefault, onSubmit, handleSaveName,
         handleChangePassword, handleCropAvatar, handleJoin
<1>2. BankTablesKept
  BY <1>1 DEF BankTablesKept, Member
<1>3. ASSUME NEW k \in BankKinds, NEW b, SendDefault(c, k, b), banks' = stored',
             banks = stored, ~b => DefaultKept
      PROVE  BankInv'
  <2>1. CASE b
    <3> DEFINE h == Handler(k, "profile", Default(banks'))
    <3>1. Start(c, h)
      BY <1>3, <2>1 DEF SendDefault
    <3>2. Default(banks') \in Infos \cup {NoBank}
      BY DefaultIs DEF IInv, TypeOK
    <3>3. h \in Frames /\ h.kind = k /\ h.pc = "profile" /\ h.value = Default(stored')
      BY <1>3, <3>2, HandlerFrame DEF Syncing
    <3> HIDE DEF h
    <3> QED
      BY <3>1, <3>3, BankStarts
  <2>2. CASE ~b
    <3>1. End(c) /\ spoiled' = spoiled /\ call[c].pc = "idle"
      BY <1>3, <2>2 DEF SendDefault
    <3>2. ~Pays(c)
      BY <3>1, PresentFrame DEF Pays, PathOK, BankKinds
    <3>3. DefaultSame
      BY <1>3, <2>2 DEF DefaultKept, DefaultSame
    <3> QED
      BY <1>2, <3>1, <3>2, <3>3, BankEnds
  <2> QED
    BY <2>1, <2>2
<1>4. ASSUME NEW k \in 1..MaxBanks, onDelete(c, k) PROVE BankInv'
  <2>1. /\ SendDefault(c, "delete", banks[k].isDefault)
        /\ banks' = stored' /\ banks = stored
    BY <1>4 DEF onDelete, Save, Listed, OnPage, PageOK
  <2>2. ~banks[k].isDefault => DefaultKept
    BY <1>4, DeleteKeepsDefault
  <2> QED
    BY <1>3, <2>1, <2>2 DEF BankKinds
<1>5. ASSUME NEW k \in 1..MaxBanks, onSetDefault(c, k) PROVE BankInv'
  <2>1. /\ SendDefault(c, "default", TRUE)
        /\ banks' = stored' /\ banks = stored
    BY <1>5 DEF onSetDefault, Save, Listed, OnPage, PageOK
  <2> QED
    BY <1>3, <2>1 DEF BankKinds
<1>6. ASSUME NEW i \in Infos, onSubmit(c, i) PROVE BankInv'
  <2>1. /\ SendDefault(c, "submit", isEditingDefault \/ isFirstBank)
        /\ banks' = stored' /\ banks = stored
    BY <1>6 DEF onSubmit, Save, CanSubmit, OnPage, PageOK
  <2>2. ~(isEditingDefault \/ isFirstBank) => DefaultKept
    BY <1>6, SubmitKeepsDefault DEF PageOK
  <2> QED
    BY <1>3, <2>1, <2>2 DEF BankKinds
<1>7. ASSUME NEW n \in Names, handleSaveName(c, n) PROVE BankInv'
  <2> DEFINE h == Handler("name", "profile", n)
  <2>1. h \in Frames /\ h.kind \notin BankKinds \cup {"join"}
    BY DEF Handler, Idle, Frames, Syncing, BankKinds
  <2>2. Start(c, h) /\ UNCHANGED <<stored, server>>
    BY <1>7 DEF handleSaveName
  <2> HIDE DEF h
  <2> QED
    BY <2>1, <2>2, OtherStarts
<1>8. CASE handleChangePassword(c)
  <2> DEFINE h == Handler("password", "password", None)
  <2>1. h \in Frames /\ h.kind \notin BankKinds \cup {"join"}
    BY DEF Handler, Idle, Frames, BankKinds
  <2>2. Start(c, h) /\ UNCHANGED <<stored, server>>
    BY <1>8 DEF handleChangePassword
  <2> HIDE DEF h
  <2> QED
    BY <2>1, <2>2, OtherStarts
<1>9. ASSUME NEW f \in Files, handleCropAvatar(c, f) PROVE BankInv'
  <2> DEFINE h == Handler("avatar", "decode", f)
  <2>1. h \in Frames /\ h.kind \notin BankKinds \cup {"join"}
    BY DEF Handler, Idle, Frames, BankKinds
  <2>2. Start(c, h) /\ UNCHANGED <<stored, server>>
    BY <1>9 DEF handleCropAvatar
  <2> HIDE DEF h
  <2> QED
    BY <2>1, <2>2, OtherStarts
<1>10. ASSUME NEW e \in Events, handleJoin(c, e) PROVE BankInv'
  <2> DEFINE p == [name |-> user.name, bank |-> account.bank]
             h == [Handler("join", "insert", e) EXCEPT !.got = p]
  <2>1. p \in Profiles /\ p.bank = account.bank
    BY <1>10 DEF handleJoin, TablesOK, Profiles
  <2>2. h \in Frames /\ h.kind = "join" /\ h.got = p
    BY <2>1 DEF Handler, Idle, Frames
  <2>3. Start(c, h) /\ UNCHANGED <<stored, server>>
    BY <1>10 DEF handleJoin
  <2> HIDE DEF h, p
  <2> QED
    BY <2>1, <2>2, <2>3, JoinStarts
<1> QED
  BY <1>4, <1>5, <1>6, <1>7, <1>8, <1>9, <1>10 DEF Handlers

(* A bank handler whose next request is refused, as its user has gone. *)
LEMMA BankRefused ==
  ASSUME FramesOK, BankInv, NEW c \in Calls, Pays(c),
         End(c), Spoil(Data(call[c].kind))
  PROVE  BankInv'
<1>1. Goes(c, Ended) /\ Ended \in Frames /\ Ended.kind = "none"
  BY EndedFrame DEF End, Goes, Ended
<1>2. "bank" \in spoiled'
  BY DataIs DEF Pays, Spoil
<1>3. BankFrames /\ call'[c].kind = "none"
  BY <1>1, <1>2, BankGoes DEF BankKinds
<1> QED
  BY <1>2, <1>3, BankWrites DEF Pays, BankKinds

(* The end of a sync: the data of a clean one are in order again. *)
LEMMA BankFinishes ==
  ASSUME IInv, FramesOK, BankInv, NEW c \in Calls, Finish(c)
  PROVE  BankInv'
<1> USE DEF server, list
<1> DEFINE h == call[c]
<1>0. /\ End(c) /\ UNCHANGED <<stored, server>> /\ h.pc = "rows" /\ h.left = {}
      /\ spoiled' = IF h.clean /\ h.value # NoBank THEN spoiled \ Data(h.kind) ELSE spoiled
  BY DEF Finish
<1>1. BankTablesKept /\ DefaultSame
  BY <1>0 DEF BankTablesKept, DefaultSame, Member
<1>2. CASE ~Pays(c)
  <2>1. "bank" \in spoiled => "bank" \in spoiled'
    BY <1>0, <1>2, DataIs DEF Pays
  <2> QED
    BY <1>0, <1>1, <1>2, <2>1, BankEnds
<1>3. CASE Pays(c)
  <2>1. Goes(c, Ended) /\ Ended.kind = "none"
    BY <1>0, EndedFrame DEF End, Goes, Ended
  <2>2. call'[c].kind = "none" /\ \A d \in Calls \ {c} : call'[d] = call[d]
    BY <2>1 DEF Goes, FramesOK
  <2>3. /\ ~Copies(c)' /\ ~Pays(c)'
        /\ \A d \in Calls \ {c} : (Pays(d)' <=> Pays(d)) /\ (Copies(d)' <=> Copies(d))
    BY <2>2 DEF Pays, Copies, BankKinds
  <2>4. Copies(c) /\ \A d \in Calls : Pays(d) => Copies(d)
    BY <1>3 DEF Pays, Copies
  <2>5. \A d \in Calls \ {c} : ~(Pays(d) /\ call[d].clean)
    BY <2>4 DEF BankInv
  <2>6. CASE h.clean
    <3>1. Paying(h) /\ \A d \in Calls \ {c} : ~Copies(d)
      BY <1>3, <2>6 DEF BankInv
    <3>2. \A d \in Calls : ~Copies(d)' /\ ~Pays(d)'
      BY <2>3, <2>4, <3>1
    <3>3. stored # <<>> => Default(stored) \in Infos
      BY DefaultIs DEF IInv, TypeOK
    <3>4. ASSUME stored' # <<>> PROVE PaidEverywhere'
      <4>1. h.value # NoBank /\ h.value = Default(stored)
        BY <1>0, <3>1, <3>3, <3>4, AccAssumption DEF Paying
      <4>2. /\ account.bank = Default(stored)
            /\ \A e \in Member : rows[e].bank = Default(stored)
        BY <1>0, <3>1, <4>1 DEF Paying
      <4>3. \A d \in Calls : call'[d].kind # "join"
        BY <3>2 DEF Copies
      <4> QED
        BY <1>0, <4>2, <4>3 DEF PaidEverywhere, Member
    <3> QED
      BY <3>2, <3>4 DEF BankInv
  <2>7. CASE ~h.clean
    <3>1. "bank" \in spoiled'
      BY <1>0, <1>3, <2>7 DEF BankInv
    <3>2. \A d \in Calls \ {c} : call'[d].clean = call[d].clean
      BY <2>2
    <3> QED
      BY <2>3, <2>5, <3>1, <3>2 DEF BankInv
  <2> QED
    BY <2>6, <2>7
<1> QED
  BY <1>2, <1>3

(* A row comes in with the bank account that was read before. *)
LEMMA BankInserts ==
  ASSUME Shape, BankInv, NEW c \in Calls, InsertRow(c)
  PROVE  BankInv'
<1> USE DEF server, list, Shape
<1> DEFINE h == call[c]
<1>1. /\ h.kind = "join" /\ h.value \in Events /\ h.got \in Profiles
      /\ rows' = [rows EXCEPT ![h.value] = h.got] /\ End(c)
      /\ UNCHANGED <<stored, account, spoiled>>
  BY PresentFrame DEF InsertRow, PathOK
<1>2. Goes(c, Ended) /\ Ended.kind = "none"
  BY <1>1, EndedFrame DEF End, Goes, Ended
<1>3. call'[c].kind = "none" /\ \A d \in Calls \ {c} : call'[d] = call[d]
  BY <1>2 DEF Goes, FramesOK
<1>4. /\ ~Pays(c)' /\ ~Pays(c) /\ Copies(c)
      /\ \A d \in Calls \ {c} : Pays(d)' <=> Pays(d)
  BY <1>1, <1>3 DEF Pays, Copies, BankKinds
<1>5. \A d \in Calls : ~(Pays(d) /\ call[d].clean)
  BY <1>4 DEF BankInv
<1>6. ASSUME "bank" \notin spoiled', stored' # <<>>
      PROVE  PaidEverywhere'
  <2>1. PaidEverywhere
    BY <1>1, <1>5, <1>6 DEF BankInv
  <2>2. \A e \in Member' : rows'[e].bank = Default(stored)
    BY <1>1, <2>1 DEF PaidEverywhere, Member, TablesOK
  <2> QED
    BY <1>1, <1>3, <2>1, <2>2 DEF PaidEverywhere
<1> QED
  BY <1>1, <1>3, <1>4, <1>5, <1>6 DEF BankInv

LEMMA BankProceeds ==
  ASSUME IInv, Shape, BankInv, NEW c \in Calls, Proceed(c) \/ Fail(c)
  PROVE  BankInv'
<1> USE DEF server, list, Shape
<1> DEFINE h == call[c]
<1>0. h \in Frames /\ PathOK(h) /\ c \in DOMAIN call
  BY PresentFrame DEF FramesOK
<1>1. CASE Decoded(c)
  <2> DEFINE g == [h EXCEPT !.pc = "upload"]
  <2>1. Goes(c, g) /\ h.kind = "avatar" /\ UNCHANGED <<stored, server, spoiled>>
    BY <1>0, <1>1 DEF Decoded, Goes, PathOK
  <2>2. g \in Frames /\ g.kind = "avatar"
    BY <1>0, <2>1 DEF Frames
  <2>3. BankTablesKept /\ DefaultSame /\ ~Pays(c)
    BY <2>1 DEF BankTablesKept, DefaultSame, Member, Pays, BankKinds
  <2> QED
    BY <2>1, <2>2, <2>3, BankAside DEF BankKinds
<1>2. CASE UpdateProfile(c) /\ h.kind = "name"
  <2> DEFINE g == [h EXCEPT !.pc = "answer", !.got = account']
  <2>1. Goes(c, g) /\ UNCHANGED <<stored, rows, spoiled>> /\ account'.bank = account.bank
    BY <1>0, <1>2 DEF UpdateProfile, Goes, Frames, TablesOK, Profiles
  <2>2. account' \in Profiles
    BY <1>0, <1>2 DEF UpdateProfile, TablesOK, Profiles, PathOK
  <2>3. g \in Frames /\ g.kind = "name"
    BY <1>0, <1>2, <2>2 DEF Frames, Syncing
  <2>4. BankTablesKept /\ DefaultSame /\ ~Pays(c)
    BY <1>2, <2>1 DEF BankTablesKept, DefaultSame, Member, Pays, BankKinds
  <2> QED
    BY <2>1, <2>3, <2>4, BankAside DEF BankKinds
<1>3. CASE UpdateProfile(c) /\ h.kind # "name"
  <2> DEFINE g == [h EXCEPT !.pc = "events"]
  <2>1. /\ NextRequest(c, g) /\ h.pc = "profile" /\ UNCHANGED <<stored, rows>>
        /\ h.value # NoBank => account'.bank = h.value
    BY <1>3 DEF UpdateProfile, TablesOK, Profiles
  <2>2. Pays(c) /\ g \in Frames /\ g.kind = h.kind
    BY <1>0, <1>3, <2>1 DEF PathOK, Syncing, Pays, Frames
  <2>3. CASE token
    <3>1. Goes(c, g) /\ spoiled' = spoiled
      BY <2>1, <2>3 DEF NextRequest, Goes
    <3>2. g.value = h.value /\ g.got = h.got /\ g.clean = h.clean /\ g.pc = "events"
      BY <1>0 DEF Frames
    <3> HIDE DEF g
    <3>3. BankFrames /\ call'[c] = g
      BY <2>2, <3>1, <3>2, BankGoes DEF Pays
    <3>4. g.clean => Paying(call[c])'
      BY <2>1, <2>2, <3>2, <3>3 DEF BankInv, Paying
    <3>5. Pays(c)'
      BY <2>2, <3>3 DEF Pays
    <3> QED
      BY <2>2, <3>3, <3>4, <3>5, BankWrites
  <2>4. CASE ~token
    BY <2>1, <2>2, <2>4, BankRefused DEF NextRequest
  <2> QED
    BY <2>3, <2>4
<1>4. CASE UpdateAvatar(c)
  <2> DEFINE g == [h EXCEPT !.pc = "answer", !.got = account]
  <2>1. Goes(c, g) /\ h.kind = "avatar" /\ UNCHANGED <<stored, server, spoiled>>
    BY <1>0, <1>4 DEF UpdateAvatar, Goes, Frames, PathOK
  <2>2. g \in Frames /\ g.kind = "avatar"
    BY <1>0, <2>1 DEF Frames, TablesOK
  <2>3. BankTablesKept /\ DefaultSame /\ ~Pays(c)
    BY <2>1 DEF BankTablesKept, DefaultSame, Member, Pays, BankKinds
  <2> QED
    BY <2>1, <2>2, <2>3, BankAside DEF BankKinds
<1>5. CASE SetUser(c)
  <2>1. h.kind \in {"name", "avatar"} /\ UNCHANGED <<stored, server>>
    BY <1>0, <1>5 DEF SetUser, PathOK
  <2>2. BankTablesKept /\ DefaultSame /\ ~Pays(c)
    BY <2>1 DEF BankTablesKept, DefaultSame, Member, Pays, BankKinds
  <2>3. CASE End(c) /\ (spoiled' = spoiled \/ Spoil(Data(h.kind)))
    BY <2>2, <2>3, BankEnds DEF Spoil
  <2>4. CASE ~End(c)
    <3> DEFINE g == [h EXCEPT !.pc = "events", !.got = None]
    <3>1. Goes(c, g) /\ h.kind = "name" /\ spoiled' = spoiled
      BY <1>5, <2>1, <2>4 DEF SetUser, NextRequest, Goes
    <3>2. g \in Frames /\ g.kind = "name"
      BY <1>0, <3>1 DEF Frames
    <3> QED
      BY <2>2, <3>1, <3>2, BankAside DEF BankKinds
  <2> QED
    BY <1>5, <2>3, <2>4 DEF SetUser, NextRequest
<1>6. CASE ListEvents(c)
  <2> DEFINE g == [h EXCEPT !.pc = "rows", !.left = Member]
  <2>1. NextRequest(c, g) /\ h.pc = "events" /\ UNCHANGED <<stored, server>>
    BY <1>6 DEF ListEvents
  <2>2. g \in Frames /\ g.kind = h.kind /\ g.value = h.value /\ g.got = h.got
        /\ g.clean = h.clean /\ g.pc = "rows" /\ g.left = Member
    BY <1>0 DEF Frames, Member
  <2> HIDE DEF g
  <2>3. BankTablesKept /\ DefaultSame
    BY <2>1 DEF BankTablesKept, DefaultSame, Member
  <2>4. CASE token
    <3>1. Goes(c, g) /\ spoiled' = spoiled
      BY <2>1, <2>4 DEF NextRequest, Goes
    <3>2. BankFrames /\ call'[c] = g /\ \A d \in Calls \ {c} : call'[d] = call[d]
      BY <2>2, <3>1, BankGoes DEF Pays
    <3>3. Pays(c)' /\ call'[c].clean => Paying(call[c])'
      BY <2>1, <2>2, <3>2 DEF BankInv, Pays, Paying, Member
    <3> QED
      BY <2>3, <3>2, <3>3, BankKeeps
  <2>5. CASE ~token
    <3>1. End(c) /\ Spoil(Data(h.kind))
      BY <2>1, <2>2, <2>5 DEF NextRequest
    <3>2. Pays(c) => "bank" \in spoiled'
      BY <3>1, DataIs DEF Pays, Spoil
    <3> QED
      BY <2>3, <3>1, <3>2, BankEnds DEF Spoil
  <2> QED
    BY <2>4, <2>5
<1>7. ASSUME NEW e \in Events, Misses(c, e), UNCHANGED <<stored, server>>, h.pc = "rows"
      PROVE  BankInv'
  <2>1. PICK g \in Frames : Goes(c, g) /\ Past(g, h, e, FALSE)
    BY <1>7, LeavesGoes DEF Misses
  <2>2. ~g.clean /\ g.kind = h.kind /\ g.value = h.value /\ g.got = h.got
    BY <2>1 DEF Past
  <2>3. (Pays(c) => "bank" \in spoiled') /\ ("bank" \in spoiled => "bank" \in spoiled')
    BY <1>7, DataIs DEF Pays, Misses, Spoil
  <2>4. BankTablesKept /\ DefaultSame /\ h.kind # "join"
    BY <1>0, <1>7 DEF BankTablesKept, DefaultSame, Member, PathOK, Syncing, BankKinds
  <2>5. BankFrames /\ call'[c] = g /\ \A d \in Calls \ {c} : call'[d] = call[d]
    BY <2>1, <2>2, <2>3, <2>4, BankGoes DEF Pays
  <2> QED
    BY <2>2, <2>4, <2>5, BankKeeps
<1>8. ASSUME NEW e \in Events, ReadRow(c, e)
      PROVE  BankInv'
  <2>1. h.pc = "rows" /\ e \in h.left /\ UNCHANGED <<stored, server>>
    BY <1>8 DEF ReadRow
  <2>2. BankTablesKept /\ DefaultSame
    BY <2>1 DEF BankTablesKept, DefaultSame, Member
  <2>3. CASE h.kind = "name" /\ Leaves(c, e, TRUE) /\ UNCHANGED spoiled
    <3>1. PICK g \in Frames : Goes(c, g) /\ Past(g, h, e, TRUE)
      BY <2>3, LeavesGoes
    <3>2. g.kind \notin BankKinds \cup {"join"} /\ ~Pays(c)
      BY <2>3, <3>1 DEF Past, Pays, BankKinds
    <3> QED
      BY <2>2, <2>3, <3>1, <3>2, BankAside
  <2>4. CASE call' = [call EXCEPT ![c].seen[e] = rows[e].name] /\ UNCHANGED spoiled
    <3> DEFINE g == [h EXCEPT !.seen = [@ EXCEPT ![e] = rows[e].name]]
    <3>1. Goes(c, g)
      BY <1>0, <2>4 DEF Goes, Frames
    <3>2. rows[e] \in Profiles
      BY <2>1 DEF FramesOK
    <3>3. /\ g \in Frames
          /\ g.kind = h.kind /\ g.value = h.value /\ g.got = h.got /\ g.clean = h.clean
          /\ g.pc = h.pc /\ g.left = h.left
      BY <1>0, <2>1, <3>2 DEF Frames, Profiles
    <3> HIDE DEF g
    <3>4. BankFrames /\ call'[c] = g /\ \A d \in Calls \ {c} : call'[d] = call[d]
      BY <2>4, <3>1, <3>3, BankGoes DEF Pays
    <3> QED
      BY <2>2, <3>3, <3>4, BankKeeps
  <2>5. CASE Misses(c, e)
    BY <1>7, <2>1, <2>5
  <2> QED
    BY <1>8, <2>3, <2>4, <2>5 DEF ReadRow
<1>9. ASSUME NEW e \in Events, WriteRow(c, e)
      PROVE  BankInv'
  <2>1. /\ h.pc = "rows" /\ e \in h.left /\ h.seen[e] # None
        /\ UNCHANGED <<stored, account, spoiled>> /\ Leaves(c, e, TRUE)
    BY <1>9 DEF WriteRow
  <2>2. rows[e] \in Profiles /\ h.seen[e] \in Names /\ e \in Member
    BY <1>0, <2>1, AccAssumption DEF FramesOK, Frames, Member, Profiles
  <2>3. PICK g \in Frames : Goes(c, g) /\ Past(g, h, e, TRUE)
    BY <2>1, LeavesGoes
  <2>4. /\ g.kind = h.kind /\ g.value = h.value /\ g.got = h.got /\ g.pc = "rows"
        /\ g.left = h.left \ {e} /\ g.clean = h.clean
    <3>1. h.clean \in BOOLEAN
      BY <1>0 DEF Frames
    <3> QED
      BY <2>1, <2>3, <3>1 DEF Past
  <2>5. h.kind \in Syncing
    BY <1>0, <2>1 DEF PathOK
  <2>6. CASE h.kind = "name"
    <3>1. /\ rows' = [rows EXCEPT ![e] = [@ EXCEPT !.name = h.value]]
          /\ rows'[e].bank = rows[e].bank
      BY <1>9, <2>2, <2>6 DEF WriteRow, TablesOK, Profiles
    <3>2. BankTablesKept /\ DefaultSame /\ ~Pays(c)
      BY <2>1, <2>2, <2>6, <3>1
      DEF BankTablesKept, DefaultSame, Member, Pays, BankKinds, TablesOK
    <3> QED
      BY <2>1, <2>3, <2>4, <2>6, <3>2, BankAside DEF BankKinds
  <2>7. CASE h.kind \in BankKinds
    <3>1. BankFrames /\ call'[c] = g
      BY <2>1, <2>3, <2>4, <2>7, BankGoes
    <3>2. /\ \A x \in Events \ {e} : rows'[x] = rows[x]
          /\ h.value # NoBank => rows'[e].bank = h.value
      BY <1>9, <2>2, <2>7 DEF WriteRow, TablesOK, BankKinds
    <3>3. \A x \in Member' : x = e \/ x \in Member
      BY <3>2 DEF Member
    <3>4. ASSUME g.clean PROVE Paying(call[c])'
      <4>1. Paying(h)
        BY <2>4, <2>7, <3>4 DEF BankInv, Pays
      <4>2. ASSUME h.value # NoBank, NEW x \in Member' \ g.left
            PROVE  rows'[x].bank = h.value
        <5>1. CASE x = e
          BY <3>2, <4>2, <5>1
        <5>2. CASE x # e
          <6>1. x \in Member \ h.left /\ rows'[x] = rows[x]
            BY <2>4, <3>2, <3>3, <4>2, <5>2 DEF Member
          <6> QED
            BY <2>1, <4>1, <4>2, <6>1 DEF Paying
        <5> QED
          BY <5>1, <5>2
      <4> QED
        BY <2>1, <2>4, <3>1, <4>1, <4>2 DEF Paying
    <3> QED
      BY <2>4, <2>7, <3>1, <3>4, BankWrites DEF Pays
  <2> QED
    BY <2>5, <2>6, <2>7 DEF Syncing
<1>10. CASE Finish(c)
  BY <1>10, BankFinishes
<1>11. CASE ChangePassword(c)
  <2> DEFINE f == [call EXCEPT ![c] = Ended]
  <2>1. /\ call' = Unmounted(f) /\ UNCHANGED <<stored, server, spoiled>>
        /\ h.kind = "password"
    BY <1>0, <1>11 DEF ChangePassword, LogOut, Ended, PathOK
  <2>2. \A g \in Frames : /\ Same([g EXCEPT !.own = FALSE], g)
                          /\ [g EXCEPT !.own = FALSE].clean = g.clean
    BY DEF Frames, Same
  <2>3. f \in [Calls -> Frames] /\ f[c] = Ended /\ \A d \in Calls \ {c} : f[d] = call[d]
    BY EndedFrame DEF FramesOK
  <2>4. /\ Same(call'[c], Ended)
        /\ \A d \in Calls \ {c} :
             Same(call'[d], call[d]) /\ call'[d].clean = call[d].clean
    BY <2>1, <2>2, <2>3 DEF Unmounted
  <2>5. BankTablesKept /\ DefaultSame
    BY <2>1 DEF BankTablesKept, DefaultSame, Member
  <2>6. ~Copies(c)' /\ ~Pays(c) /\ ~Pays(c)'
    BY <2>1, <2>4, EndedFrame DEF Same, Copies, Pays, BankKinds
  <2>7. BankFrames
    BY <2>1, <2>4, <2>6 DEF BankFrames, Copies, Pays, Same
  <2> QED
    BY <2>4, <2>5, <2>6, <2>7, BankKeeps DEF Same
<1>12. CASE InsertRow(c)
  BY <1>12, BankInserts
<1>13. CASE Fail(c)
  <2>1. UNCHANGED <<stored, server>>
    BY <1>13 DEF Fail
  <2>2. CASE End(c) /\ Spoil(Data(h.kind))
    <3>1. BankTablesKept /\ DefaultSame /\ (Pays(c) => "bank" \in spoiled')
      BY <2>1, <2>2, DataIs DEF BankTablesKept, DefaultSame, Member, Pays, Spoil
    <3> QED
      BY <2>2, <3>1, BankEnds DEF Spoil
  <2>3. ASSUME NEW e \in h.left, Misses(c, e), h.pc = "rows"
        PROVE  BankInv'
    <3>1. e \in Events
      BY <1>0 DEF Frames
    <3> QED
      BY <1>7, <2>1, <2>3, <3>1
  <2> QED
    BY <1>13, <2>2, <2>3 DEF Fail
<1> QED
  BY <1>1, <1>2, <1>3, <1>4, <1>5, <1>6, <1>8, <1>9, <1>10, <1>11, <1>12, <1>13 DEF Proceed

LEMMA InitBank == Init => BankInv
<1> SUFFICES ASSUME Init PROVE BankInv
  OBVIOUS
<1>1. \A c \in Calls : call[c].kind = "none"
  BY DEF Init, Idle
<1>2. stored # <<>> => PaidEverywhere
  BY <1>1 DEF Init, Kept, PaidEverywhere, Member
<1> QED
  BY <1>1, <1>2 DEF BankInv, Pays, BankKinds

LEMMA BankPreserves ==
  ASSUME IInv, Shape, BankInv, [Next]_vars
  PROVE  BankInv'
<1>1. CASE UNCHANGED vars
  BY <1>1
  DEF vars, server, list, BankInv, Pays, Copies, Paying, PaidEverywhere, Member
<1> QED
  BY <1>1, StepPreserves, BankGestures, BankHandlers, BankProceeds DEF Next, Shape

-----------------------------------------------------------------------------
(***************************************************************************)
(* The name, on the screen and at the server                               *)
(***************************************************************************)
(* Handlers that change the name, and those that carry one along. *)
Renames(c) == call[c].kind = "name"
Carries(c) == call[c].kind \in Syncing \cup {"join", "avatar"}

(* How far a handler that runs alone has brought the new name. *)
Renaming(h) ==
  h.pc # "profile" =>
    /\ account.name = h.value
    /\ h.pc = "answer" => h.got.name = h.value
    /\ h.pc # "answer" /\ page # "login" => user.name = h.value
    /\ h.pc = "rows" => \A e \in Member \ h.left : rows[e].name = h.value

NamesShown ==
  /\ page # "login" => user.name = account.name
  /\ \A e \in Member : rows[e].name = account.name

CopyInOrder(h) ==
  /\ h.kind = "join" \/ (h.kind = "avatar" /\ h.pc = "answer") => h.got.name = account.name
  /\ h.kind \in BankKinds => \A e \in Events : h.seen[e] # None => h.seen[e] = account.name

NamedEverywhere == NamesShown /\ \A c \in Calls : CopyInOrder(call[c])

(* So it is with names: but here a copy may also be a name that a bank     *)
(* handler has read in a row, the user an avatar handler was answered, or  *)
(* the name in the auth store.                                             *)
NameInv ==
  /\ \A c \in Calls : Renames(c) /\ call[c].clean =>
       Renaming(call[c]) /\ \A d \in Calls \ {c} : ~Carries(d)
  /\ "name" \notin spoiled => \A c \in Calls : Renames(c) => call[c].clean
  /\ "name" \notin spoiled /\ (\A c \in Calls : ~Renames(c)) => NamedEverywhere

NameFrames ==
  /\ \A d \in Calls : Carries(d)' =>
       /\ call'[d].kind = call[d].kind
       /\ call'[d].clean => call[d].clean
       /\ "name" \notin spoiled' /\ Renames(d) => call'[d].clean = call[d].clean
  /\ "name" \notin spoiled' =>
       "name" \notin spoiled /\ \A d \in Calls : Renames(d) => Renames(d)'

(* A step in which no handler begins or finishes. *)
LEMMA NameKeeps ==
  ASSUME NameInv, NameFrames,
         NamedEverywhere /\ (\A d \in Calls : ~Renames(d)) => NamedEverywhere',
         \A d \in Calls :
           Renames(d) /\ Renames(d)' /\ call'[d].clean /\ Renaming(call[d])
             /\ (\A x \in Calls \ {d} : ~Carries(x)) => Renaming(call[d])'
  PROVE  NameInv'
<1>1. ASSUME NEW c \in Calls, Renames(c)', call'[c].clean
      PROVE  Renaming(call[c])' /\ \A d \in Calls \ {c} : ~Carries(d)'
  <2>1. Carries(c)'
    BY <1>1 DEF Carries, Renames, Syncing
  <2>2. Renames(c) /\ call[c].clean
    BY <1>1, <2>1 DEF NameFrames, Renames
  <2>3. Renaming(call[c]) /\ \A d \in Calls \ {c} : ~Carries(d)
    BY <2>2 DEF NameInv
  <2>4. \A d \in Calls \ {c} : ~Carries(d)'
    BY <2>3 DEF NameFrames, Carries
  <2> QED
    BY <1>1, <2>2, <2>3, <2>4
<1>2. ASSUME "name" \notin spoiled', NEW c \in Calls, Renames(c)'
      PROVE  call'[c].clean
  BY <1>2 DEF NameInv, NameFrames, Renames, Carries, Syncing
<1>3. ASSUME "name" \notin spoiled', \A c \in Calls : ~Renames(c)'
      PROVE  NamedEverywhere'
  BY <1>3 DEF NameInv, NameFrames
<1> QED
  BY <1>1, <1>2, <1>3 DEF NameInv

LEMMA NameStarts ==
  ASSUME FramesOK, TablesOK, NameInv, NEW c \in Calls, NEW h \in Frames, Start(c, h),
         h.kind = "name", h.pc = "profile"
  PROVE  NameInv'
<1>1. \A d \in Calls \ {c} : Carries(d) =>
        /\ "name" \in spoiled' /\ ~call'[c].clean
        /\ Renames(d) => ~call'[d].clean
  <2>1. SUFFICES ASSUME NEW d \in Calls \ {c}, Carries(d)
                 PROVE  /\ "name" \in spoiled' /\ ~call'[c].clean
                        /\ Renames(d) => ~call'[d].clean
    OBVIOUS
  <2>2. Running(d)
    BY <2>1, PresentFrame DEF Carries, Running, PathOK, BankKinds, Syncing
  <2>3. "name" \in Disorder(h.kind, call[d].kind) /\ "name" \in Data(h.kind)
    BY <2>1, DisorderIs, DataIs DEF Carries
  <2>4. Renames(d) => "name" \in Data(call[d].kind)
    BY DataIs DEF Renames
  <2> QED
    BY <2>2, <2>3, <2>4, StartFrames
<1>2. /\ Same(call'[c], h)
      /\ \A d \in Calls \ {c} : Same(call'[d], call[d])
  BY StartFrames
<1>3. /\ Renames(c)' /\ Renaming(call[c])'
      /\ \A d \in Calls \ {c} : (Renames(d)' <=> Renames(d)) /\ (Carries(d)' <=> Carries(d))
  BY <1>2 DEF Same, Renames, Carries, Renaming
<1>4. "name" \notin spoiled' => call'[c].clean
  <2>1. "name" \notin spoiled' => Data(h.kind) \cap spoiled' = {}
    BY DEF Data, BankKinds
  <2> QED
    BY <2>1, StartFrames
<1>5. \A d \in Calls : Renames(d) => Carries(d)
  BY DEF Renames, Carries, Syncing
<1> QED
  BY <1>1, <1>3, <1>4, <1>5 DEF NameInv

LEMMA CarrierStarts ==
  ASSUME FramesOK, TablesOK, NameInv, NEW c \in Calls, NEW h \in Frames, Start(c, h),
         h.kind \in BankKinds \cup {"join", "avatar"}, h.pc # "answer",
         h.seen = [e \in Events |-> None],
         h.kind = "join" => page # "login" /\ h.got.name = user.name,
         UNCHANGED <<server, user, page>>
  PROVE  NameInv'
<1>1. \A d \in Calls \ {c} : Renames(d) => "name" \in spoiled' /\ ~call'[d].clean
  <2>1. SUFFICES ASSUME NEW d \in Calls \ {c}, Renames(d)
                 PROVE  "name" \in spoiled' /\ ~call'[d].clean
    OBVIOUS
  <2>2. Running(d)
    BY <2>1, PresentFrame DEF Renames, Running, PathOK
  <2>3. "name" \in Disorder(h.kind, call[d].kind) /\ "name" \in Data(call[d].kind)
    BY <2>1, DisorderIs, DataIs DEF Renames, Syncing
  <2> QED
    BY <2>2, <2>3, StartFrames
<1>2. /\ Same(call'[c], h) /\ spoiled \subseteq spoiled' /\ call[c].pc = "idle"
      /\ \A d \in Calls \ {c} : Same(call'[d], call[d])
  BY StartFrames
<1>3. ~Renames(c)' /\ ~Renames(c) /\ \A d \in Calls \ {c} : Renames(d)' <=> Renames(d)
  BY <1>2, PresentFrame DEF Same, Renames, PathOK, BankKinds
<1>4. ASSUME "name" \notin spoiled'
      PROVE  NamedEverywhere'
  <2>1. NamedEverywhere
    BY <1>1, <1>2, <1>3, <1>4 DEF NameInv
  <2> QED
    BY <1>2, <2>1 DEF NamedEverywhere, NamesShown, CopyInOrder, Same, server, Member, BankKinds
<1> QED
  BY <1>1, <1>3, <1>4 DEF NameInv

LEMMA NameAsideStarts ==
  ASSUME FramesOK, TablesOK, NameInv, NEW c \in Calls, NEW h \in Frames, Start(c, h),
         ~(h.kind \in Syncing \cup {"join", "avatar"}),
         UNCHANGED <<server, user, page>>
  PROVE  NameInv'
<1>1. /\ Same(call'[c], h) /\ spoiled \subseteq spoiled' /\ call[c].pc = "idle"
      /\ \A d \in Calls \ {c} :
           Same(call'[d], call[d]) /\ (call'[d].clean => call[d].clean)
  BY StartFrames
<1>2. ASSUME NEW d \in Calls \ {c}, Renames(d), "name" \notin spoiled'
      PROVE  call'[d].clean = call[d].clean
  <2>1. Running(d)
    BY <1>2, PresentFrame DEF Renames, Running, PathOK
  <2>2. Data(call[d].kind) \cap spoiled' = {}
    BY <1>2, DataIs DEF Data, Renames, BankKinds
  <2> QED
    BY <2>1, <2>2, StartFrames
<1>3. ~Carries(c)' /\ ~Renames(c)
  BY <1>1, PresentFrame DEF Same, Carries, Renames, PathOK
<1>4. NameFrames
  BY <1>1, <1>2, <1>3 DEF NameFrames, Same, Carries, Renames
<1>5. NamedEverywhere => NamedEverywhere'
  BY <1>1, <1>3
  DEF NamedEverywhere, NamesShown, CopyInOrder, Same, server, Member, Carries, Syncing
<1>6. \A d \in Calls : Renames(d)' /\ Renaming(call[d]) => Renaming(call[d])'
  <2>1. ASSUME NEW d \in Calls, Renames(d)', Renaming(call[d]) PROVE Renaming(call[d])'
    <3>1. d # c
      BY <1>3, <2>1 DEF Renames, Carries, Syncing
    <3> QED
      BY <1>1, <2>1, <3>1 DEF Renaming, Same, server, Member
  <2> QED
    BY <2>1
<1> QED
  BY <1>4, <1>5, <1>6, NameKeeps

(* A step of one handler that begins nothing. *)
LEMMA NameGoes ==
  ASSUME FramesOK, NEW c \in Calls, NEW g \in Frames, Goes(c, g),
         \/ ~(g.kind \in Syncing \cup {"join", "avatar"})
         \/ /\ g.kind = call[c].kind
            /\ g.clean => call[c].clean
            /\ "name" \notin spoiled' /\ Renames(c) => g.clean = call[c].clean,
         "name" \in spoiled => "name" \in spoiled',
         Renames(c) /\ g.kind # "name" => "name" \in spoiled'
  PROVE  NameFrames /\ call'[c] = g /\ \A d \in Calls \ {c} : call'[d] = call[d]
<1>1. call'[c] = g /\ \A d \in Calls \ {c} : call'[d] = call[d]
  BY DEF Goes, FramesOK
<1> QED
  BY <1>1 DEF NameFrames, Carries, Renames

(* A handler that has no part in the name ends. *)
LEMMA NameAside ==
  ASSUME FramesOK, NameInv, NEW c \in Calls, ~Carries(c), End(c),
         "name" \in spoiled => "name" \in spoiled',
         UNCHANGED <<server, user, page>>
  PROVE  NameInv'
<1>1. Goes(c, Ended) /\ Ended \in Frames /\ Ended.kind = "none"
  BY EndedFrame DEF End, Goes, Ended
<1>2. ~Renames(c)
  BY DEF Renames, Carries, Syncing
<1>3. /\ NameFrames /\ call'[c].kind = "none"
      /\ \A d \in Calls \ {c} : call'[d] = call[d]
  BY <1>1, <1>2, NameGoes DEF Syncing, BankKinds
<1>4. NamedEverywhere => NamedEverywhere'
  BY <1>3 DEF NamedEverywhere, NamesShown, CopyInOrder, server, Member, BankKinds
<1>5. \A d \in Calls : Renames(d)' /\ Renaming(call[d]) => Renaming(call[d])'
  BY <1>3 DEF Renames, Renaming, server, Member
<1> QED
  BY <1>3, <1>4, <1>5, NameKeeps

(* A carrier's own step: nobody renames cleanly beside it. *)
LEMMA NameCarried ==
  ASSUME FramesOK, NameInv, NEW c \in Calls, Carries(c), ~Renames(c),
         NEW g \in Frames, Goes(c, g),
         g.kind = "none" \/ (g.kind = call[c].kind /\ (g.clean => call[c].clean)),
         "name" \in spoiled => "name" \in spoiled',
         account'.name = account.name,
         NamedEverywhere => NamesShown' /\ CopyInOrder(g)'
  PROVE  NameInv'
<1>1. NameFrames /\ call'[c] = g /\ \A d \in Calls \ {c} : call'[d] = call[d]
  BY NameGoes DEF Syncing, BankKinds
<1>2. NamedEverywhere => NamedEverywhere'
  BY <1>1 DEF NamedEverywhere, CopyInOrder
<1>3. \A d \in Calls : Renames(d) => ~(\A x \in Calls \ {d} : ~Carries(x))
  OBVIOUS
<1> QED
  BY <1>1, <1>2, <1>3, NameKeeps

(* A renaming handler's own step. *)
LEMMA NameWritten ==
  ASSUME FramesOK, NameInv, NEW c \in Calls, Renames(c),
         NEW g \in Frames, Goes(c, g),
         \/ g.kind = "none" /\ "name" \in spoiled'
         \/ /\ g.kind = "name"
            /\ g.clean => call[c].clean
            /\ "name" \notin spoiled' => g.clean = call[c].clean,
         "name" \in spoiled => "name" \in spoiled',
         g.clean /\ Renaming(call[c]) => Renaming(g)'
  PROVE  NameInv'
<1>1. NameFrames /\ call'[c] = g /\ \A d \in Calls \ {c} : call'[d] = call[d]
  BY NameGoes DEF Renames, Syncing, BankKinds
<1>2. Carries(c) /\ ~(\A d \in Calls : ~Renames(d))
  BY DEF Renames, Carries, Syncing
<1>3. ASSUME NEW d \in Calls, call'[d].clean, Renaming(call[d]),
             \A x \in Calls \ {d} : ~Carries(x)
      PROVE  Renaming(call[d])'
  <2>1. d = c
    BY <1>2, <1>3
  <2>2. Renaming(g)'
    BY <1>1, <1>3, <2>1
  <2> QED
    BY <1>1, <2>1, <2>2 DEF Renaming
<1> QED
  BY <1>1, <1>2, <1>3, NameKeeps

(* The end of a handler that has a part in the name. *)
LEMMA NameEnds ==
  ASSUME FramesOK, NameInv, NEW c \in Calls, Carries(c), End(c),
         "name" \in spoiled => "name" \in spoiled',
         Renames(c) => "name" \in spoiled',
         account'.name = account.name,
         NamedEverywhere => NamesShown'
  PROVE  NameInv'
<1>1. Goes(c, Ended) /\ Ended \in Frames /\ Ended.kind = "none" /\ ~Ended.clean
  BY EndedFrame DEF End, Goes, Ended, Idle
<1>2. CopyInOrder(Ended)'
  BY <1>1 DEF CopyInOrder, BankKinds
<1> QED
  BY <1>1, <1>2, NameWritten, NameCarried

(* Gestures: the server is left alone, and a page that is shown has its    *)
(* user from there or keeps him.                                           *)
LEMMA NameGestures ==
  ASSUME FramesOK, NameInv, Gestures
  PROVE  NameInv'
<1> USE DEF server
<1>1. /\ UNCHANGED server
      /\ page' # "login" => user' = account \/ (user' = user /\ page # "login")
  BY DEF Gestures, onAdd, onEdit, OpenPersonal, handleAvatarChange, CloseDialog, logout,
         LogOut, Login, Visit, Leave, Reload, OnPage
<1>2. NamesShown => NamesShown'
  BY <1>1 DEF NamesShown, Member
<1>3. CASE Reload
  <2>1. \A d \in Calls : call'[d].kind = "none"
    <3>1. \A d \in Calls : ~Running(d) => call[d].kind = "none"
      BY PresentFrame DEF PathOK, Running
    <3> QED
      BY <1>3, <3>1 DEF Reload, Idle
  <2>2. ASSUME "name" \notin spoiled'
        PROVE  "name" \notin spoiled /\ \A d \in Calls : ~Renames(d)
    <3>1. "name" \notin spoiled
      BY <1>3, <2>2 DEF Reload, Spoil
    <3>2. ASSUME NEW d \in Calls, Renames(d) PROVE FALSE
      <4>1. Running(d)
        BY <3>2, PresentFrame DEF Renames, Running, PathOK
      <4>2. "name" \in Data(call[d].kind)
        BY <3>2, DataIs DEF Renames
      <4> QED
        BY <1>3, <2>2, <4>1, <4>2 DEF Reload, Spoil
    <3> QED
      BY <3>1, <3>2
  <2>3. NameFrames /\ \A d \in Calls : ~Renames(d)'
    BY <2>1, <2>2 DEF NameFrames, Carries, Renames, Syncing, BankKinds
  <2>4. NamedEverywhere => NamedEverywhere'
    BY <1>2, <2>1 DEF NamedEverywhere, CopyInOrder, BankKinds
  <2> QED
    BY <2>3, <2>4, NameKeeps
<1>4. CASE ~Reload
  <2>1. spoiled' = spoiled /\ call' \in {call, Unmounted(call)}
    BY <1>4
    DEF Gestures, onAdd, onEdit, OpenPersonal, handleAvatarChange, CloseDialog, logout,
        LogOut, Login, Visit, Leave
  <2>2. \A d \in Calls : Same(call'[d], call[d]) /\ call'[d].clean = call[d].clean
    <3>1. call \in [Calls -> Frames]
      BY DEF FramesOK
    <3> QED
      BY <2>1, <3>1 DEF Unmounted, Same, Frames
  <2>3. NameFrames
    BY <2>1, <2>2 DEF NameFrames, Carries, Renames, Same
  <2>4. NamedEverywhere => NamedEverywhere'
    BY <1>1, <1>2, <2>2 DEF NamedEverywhere, CopyInOrder, Same
  <2>5. \A d \in Calls : Renaming(call[d]) => Renaming(call[d])'
    BY <1>1, <2>2 DEF Renaming, Same, Member
  <2> QED
    BY <2>3, <2>4, <2>5, NameKeeps
<1> QED
  BY <1>3, <1>4

LEMMA NameHandlers ==
  ASSUME IInv, IInv', Shape, NameInv, NEW c \in Calls, Handlers(c)
  PROVE  NameInv'
<1> USE DEF Shape
<1>1. UNCHANGED <<server, user, page>>
  BY DEF server, screen, Handlers, onDelete, onSetDefault, onSubmit, handleSaveName,
         handleChangePassword, handleCropAvatar, handleJoin
<1>2. ASSUME NEW k \in BankKinds, NEW b, SendDefault(c, k, b)
      PROVE  NameInv'
  <2>1. CASE b
    <3> DEFINE h == Handler(k, "profile", Default(banks'))
    <3>1. Start(c, h)
      BY <1>2, <2>1 DEF SendDefault
    <3>2. Default(banks') \in Infos \cup {NoBank}
      BY DefaultIs DEF IInv, TypeOK
    <3>3. h \in Frames /\ h.kind = k /\ h.pc = "profile" /\ h.seen = [e \in Events |-> None]
      BY <3>2, HandlerFrame DEF Syncing
    <3> HIDE DEF h
    <3> QED
      BY <1>1, <3>1, <3>3, CarrierStarts DEF BankKinds
  <2>2. CASE ~b
    <3>1. End(c) /\ spoiled' = spoiled /\ call[c].pc = "idle"
      BY <1>2, <2>2 DEF SendDefault
    <3>2. ~Carries(c)
      BY <3>1, PresentFrame DEF Carries, PathOK, Syncing, BankKinds
    <3> QED
      BY <1>1, <3>1, <3>2, NameAside
  <2> QED
    BY <2>1, <2>2
<1>3. ASSUME NEW k \in 1..MaxBanks, onDelete(c, k) \/ onSetDefault(c, k)
      PROVE  NameInv'
  <2>1. \/ SendDefault(c, "delete", banks[k].isDefault)
        \/ SendDefault(c, "default", TRUE)
    BY <1>3 DEF onDelete, onSetDefault
  <2> QED
    BY <1>2, <2>1 DEF BankKinds
<1>4. ASSUME NEW i \in Infos, onSubmit(c, i) PROVE NameInv'
  <2>1. SendDefault(c, "submit", isEditingDefault \/ isFirstBank)
    BY <1>4 DEF onSubmit
  <2> QED
    BY <1>2, <2>1 DEF BankKinds
<1>5. ASSUME NEW n \in Names, handleSaveName(c, n) PROVE NameInv'
  <2> DEFINE h == Handler("name", "profile", n)
  <2>1. h \in Frames /\ h.kind = "name" /\ h.pc = "profile"
    BY DEF Handler, Idle, Frames, Syncing
  <2>2. Start(c, h)
    BY <1>5 DEF handleSaveName
  <2> HIDE DEF h
  <2> QED
    BY <2>1, <2>2, NameStarts
<1>6. CASE handleChangePassword(c)
  <2> DEFINE h == Handler("password", "password", None)
  <2>1. h \in Frames /\ ~(h.kind \in Syncing \cup {"join", "avatar"})
    BY DEF Handler, Idle, Frames, Syncing, BankKinds
  <2>2. Start(c, h)
    BY <1>6 DEF handleChangePassword
  <2> HIDE DEF h
  <2> QED
    BY <1>1, <2>1, <2>2, NameAsideStarts
<1>7. ASSUME NEW f \in Files, handleCropAvatar(c, f) PROVE NameInv'
  <2> DEFINE h == Handler("avatar", "decode", f)
  <2>1. /\ h \in Frames /\ h.kind = "avatar" /\ h.pc = "decode"
        /\ h.seen = [e \in Events |-> None]
    BY DEF Handler, Idle, Frames
  <2>2. Start(c, h)
    BY <1>7 DEF handleCropAvatar
  <2> HIDE DEF h
  <2> QED
    BY <1>1, <2>1, <2>2, CarrierStarts
<1>8. ASSUME NEW e \in Events, handleJoin(c, e) PROVE NameInv'
  <2> DEFINE p == [name |-> user.name, bank |-> account.bank]
             h == [Handler("join", "insert", e) EXCEPT !.got = p]
  <2>1. p \in Profiles /\ p.name = user.name /\ page # "login"
    BY <1>8 DEF handleJoin, TablesOK, Profiles
  <2>2. /\ h \in Frames /\ h.kind = "join" /\ h.pc = "insert" /\ h.got = p
        /\ h.seen = [x \in Events |-> None]
    BY <2>1 DEF Handler, Idle, Frames
  <2>3. Start(c, h)
    BY <1>8 DEF handleJoin
  <2> HIDE DEF h, p
  <2> QED
    BY <1>1, <2>1, <2>2, <2>3, CarrierStarts
<1> QED
  BY <1>3, <1>4, <1>5, <1>6, <1>7, <1>8 DEF Handlers

(* The end of a sync: the name that a clean one has sent is everywhere.    *)
LEMMA NameFinishes ==
  ASSUME FramesOK, NameInv, NEW c \in Calls, Finish(c)
  PROVE  NameInv'
<1> USE DEF server
<1> DEFINE h == call[c]
<1>0. /\ End(c) /\ UNCHANGED <<server, user, page>> /\ h.pc = "rows" /\ h.left = {}
      /\ spoiled' = IF h.clean /\ h.value # NoBank THEN spoiled \ Data(h.kind) ELSE spoiled
  BY DEF Finish
<1>1. NamesShown => NamesShown'
  BY <1>0 DEF NamesShown, Member
<1>2. CASE ~Renames(c)
  <2>1. "name" \in spoiled => "name" \in spoiled'
    BY <1>0, <1>2, DataIs DEF Renames
  <2>2. CASE Carries(c)
    BY <1>0, <1>1, <1>2, <2>1, <2>2, NameEnds DEF NamedEverywhere
  <2>3. CASE ~Carries(c)
    BY <1>0, <2>1, <2>3, NameAside
  <2> QED
    BY <2>2, <2>3
<1>3. CASE Renames(c)
  <2>1. Goes(c, Ended) /\ Ended.kind = "none"
    BY <1>0, EndedFrame DEF End, Goes, Ended
  <2>2. call'[c].kind = "none" /\ \A d \in Calls \ {c} : call'[d] = call[d]
    BY <2>1 DEF Goes, FramesOK
  <2>3. /\ ~Carries(c)' /\ ~Renames(c)'
        /\ \A d \in Calls \ {c} : (Renames(d)' <=> Renames(d)) /\ (Carries(d)' <=> Carries(d))
    BY <2>2 DEF Renames, Carries, Syncing, BankKinds
  <2>4. Carries(c) /\ \A d \in Calls : Renames(d) => Carries(d)
    BY <1>3 DEF Renames, Carries, Syncing
  <2>5. \A d \in Calls \ {c} : ~(Renames(d) /\ call[d].clean)
    BY <2>4 DEF NameInv
  <2>6. CASE h.clean
    <3>1. Renaming(h) /\ \A d \in Calls \ {c} : ~Carries(d)
      BY <1>3, <2>6 DEF NameInv
    <3>2. \A d \in Calls : ~Carries(d)' /\ ~Renames(d)'
      BY <2>3, <2>4, <3>1
    <3>3. NamesShown
      BY <1>0, <3>1 DEF Renaming, NamesShown
    <3>4. \A d \in Calls : CopyInOrder(call[d])'
      BY <3>2 DEF Carries, CopyInOrder, Syncing
    <3>5. NamedEverywhere'
      BY <1>1, <3>3, <3>4 DEF NamedEverywhere
    <3> QED
      BY <3>2, <3>5 DEF NameInv
  <2>7. CASE ~h.clean
    <3>1. "name" \in spoiled'
      BY <1>0, <1>3, <2>7 DEF NameInv
    <3>2. \A d \in Calls \ {c} : call'[d].clean = call[d].clean
      BY <2>2
    <3> QED
      BY <2>3, <2>5, <3>1, <3>2 DEF NameInv
  <2> QED
    BY <2>6, <2>7
<1> QED
  BY <1>2, <1>3

(* A sync misses an event. *)
LEMMA NameMisses ==
  ASSUME FramesOK, NameInv, NEW c \in Calls, NEW e \in Events, Misses(c, e),
         UNCHANGED <<server, user, page>>, call[c].pc = "rows"
  PROVE  NameInv'
<1> DEFINE h == call[c]
<1>0. h \in Frames /\ PathOK(h)
  BY PresentFrame
<1>1. PICK g \in Frames : Goes(c, g) /\ Past(g, h, e, FALSE)
  BY LeavesGoes DEF Misses
<1>2. /\ ~g.clean /\ g.kind = h.kind /\ g.pc = h.pc
      /\ \A x \in Events : g.seen[x] # None => g.seen[x] = h.seen[x]
  BY <1>0, <1>1 DEF Past, Frames
<1>3. (Renames(c) => "name" \in spoiled') /\ ("name" \in spoiled => "name" \in spoiled')
  BY DataIs DEF Renames, Misses, Spoil
<1>4. h.kind \in Syncing
  BY <1>0 DEF PathOK
<1>5. CASE h.kind = "name"
  BY <1>1, <1>2, <1>3, <1>5, NameWritten DEF Renames
<1>6. CASE h.kind \in BankKinds
  <2>1. Carries(c) /\ ~Renames(c)
    BY <1>6 DEF Carries, Renames, Syncing, BankKinds
  <2>2. NamedEverywhere => NamesShown' /\ CopyInOrder(g)'
    <3>1. SUFFICES ASSUME NamedEverywhere PROVE NamesShown' /\ CopyInOrder(g)'
      OBVIOUS
    <3>2. CopyInOrder(h)
      BY <3>1 DEF NamedEverywhere
    <3> QED
      BY <1>2, <1>6, <3>1, <3>2 DEF NamedEverywhere, NamesShown, CopyInOrder, server, Member, BankKinds
  <2> QED
    BY <1>1, <1>2, <1>3, <2>1, <2>2, NameCarried DEF server
<1> QED
  BY <1>4, <1>5, <1>6 DEF Syncing

LEMMA NameRefused ==
  ASSUME FramesOK, NameInv, NEW c \in Calls, Carries(c),
         End(c), Spoil(Data(call[c].kind)), account'.name = account.name,
         NamedEverywhere => NamesShown'
  PROVE  NameInv'
<1>1. (Renames(c) => "name" \in spoiled') /\ ("name" \in spoiled => "name" \in spoiled')
  BY DataIs DEF Renames, Spoil
<1> QED
  BY <1>1, NameEnds

(* The requests of a renaming handler before it goes through the events. *)
LEMMA NameSends ==
  ASSUME Shape, NameInv, NEW c \in Calls, call[c].kind = "name",
         UpdateProfile(c) \/ SetUser(c) \/ ListEvents(c)
  PROVE  NameInv'
<1> USE DEF server, Shape
<1> DEFINE h == call[c]
<1>0. h \in Frames /\ PathOK(h) /\ c \in DOMAIN call /\ Renames(c) /\ Carries(c)
  BY PresentFrame DEF FramesOK, Renames, Carries, Syncing
<1>1. CASE UpdateProfile(c)
  <2>1. /\ UNCHANGED <<rows, user, page, spoiled>>
        /\ account' \in Profiles /\ account'.name = h.value
    BY <1>0, <1>1 DEF UpdateProfile, TablesOK, Profiles, PathOK, screen
  <2>2. PICK g \in Frames :
          /\ Goes(c, g) /\ g.kind = "name" /\ g.clean = h.clean /\ g.pc = "answer"
          /\ g.got = account' /\ g.value = h.value
    <3> DEFINE g == [h EXCEPT !.pc = "answer", !.got = account']
    <3>1. Goes(c, g)
      BY <1>0, <1>1 DEF UpdateProfile, Goes, Frames
    <3>2. /\ g \in Frames /\ g.kind = "name" /\ g.clean = h.clean /\ g.pc = "answer"
          /\ g.got = account' /\ g.value = h.value
      BY <1>0, <2>1 DEF Frames
    <3> QED
      BY <3>1, <3>2
  <2>3. Renaming(g)'
    BY <2>1, <2>2 DEF Renaming
  <2> QED
    BY <1>0, <2>1, <2>2, <2>3, NameWritten
<1>2. CASE SetUser(c)
  <2>1. h.pc = "answer" /\ user' = h.got /\ UNCHANGED <<server, page>>
    BY <1>2 DEF SetUser
  <2>2. PICK g \in Frames :
          /\ NextRequest(c, g) /\ g.kind = "name" /\ g.clean = h.clean /\ g.pc = "events"
          /\ g.value = h.value
    <3> DEFINE g == [h EXCEPT !.pc = "events", !.got = None]
    <3>1. NextRequest(c, g)
      BY <1>2 DEF SetUser
    <3>2. /\ g \in Frames /\ g.kind = "name" /\ g.clean = h.clean /\ g.pc = "events"
          /\ g.value = h.value
      BY <1>0 DEF Frames
    <3> QED
      BY <3>1, <3>2
  <2>3. CASE token
    <3>1. Goes(c, g) /\ spoiled' = spoiled
      BY <2>2, <2>3 DEF NextRequest, Goes
    <3>2. Renaming(h) => Renaming(g)'
      BY <2>1, <2>2 DEF Renaming
    <3> QED
      BY <1>0, <2>2, <3>1, <3>2, NameWritten
  <2>4. CASE ~token
    <3>1. End(c) /\ Spoil(Data(h.kind))
      BY <2>1, <2>2, <2>4 DEF NextRequest
    <3>2. NamesShown => NamesShown'
      BY <2>1, <2>4 DEF NamesShown, Member, token
    <3> QED
      BY <1>0, <2>1, <3>1, <3>2, NameRefused DEF NamedEverywhere
  <2> QED
    BY <2>3, <2>4
<1>3. CASE ListEvents(c)
  <2>1. h.pc = "events" /\ UNCHANGED <<server, user, page>>
    BY <1>3 DEF ListEvents, screen
  <2>2. PICK g \in Frames :
          /\ NextRequest(c, g) /\ g.kind = "name" /\ g.clean = h.clean /\ g.pc = "rows"
          /\ g.value = h.value /\ g.left = Member
    <3> DEFINE g == [h EXCEPT !.pc = "rows", !.left = Member]
    <3>1. NextRequest(c, g)
      BY <1>3 DEF ListEvents
    <3>2. /\ g \in Frames /\ g.kind = "name" /\ g.clean = h.clean /\ g.pc = "rows"
          /\ g.value = h.value /\ g.left = Member
      BY <1>0 DEF Frames, Member
    <3> QED
      BY <3>1, <3>2
  <2>3. CASE token
    <3>1. Goes(c, g) /\ spoiled' = spoiled
      BY <2>2, <2>3 DEF NextRequest, Goes
    <3>2. Renaming(h) => Renaming(g)'
      BY <2>1, <2>2 DEF Renaming, Member
    <3> QED
      BY <1>0, <2>2, <3>1, <3>2, NameWritten
  <2>4. CASE ~token
    <3>1. End(c) /\ Spoil(Data(h.kind))
      BY <2>1, <2>2, <2>4 DEF NextRequest
    <3>2. NamesShown => NamesShown'
      BY <2>1 DEF NamesShown, Member
    <3> QED
      BY <1>0, <2>1, <3>1, <3>2, NameRefused DEF NamedEverywhere
  <2> QED
    BY <2>3, <2>4
<1> QED
  BY <1>1, <1>2, <1>3

(* The requests of a bank handler before it goes through the events. *)
LEMMA NameBankSends ==
  ASSUME Shape, NameInv, NEW c \in Calls, call[c].kind \in BankKinds,
         UpdateProfile(c) \/ ListEvents(c)
  PROVE  NameInv'
<1> USE DEF server, Shape
<1> DEFINE h == call[c]
<1>0. h \in Frames /\ PathOK(h) /\ c \in DOMAIN call /\ ~Renames(c) /\ Carries(c)
  BY PresentFrame DEF FramesOK, Renames, Carries, Syncing, BankKinds
<1>1. account'.name = account.name /\ UNCHANGED <<rows, user, page>> /\ h.pc # "rows"
  BY DEF UpdateProfile, ListEvents, screen, TablesOK, Profiles, BankKinds
<1>2. NamesShown => NamesShown'
  BY <1>1 DEF NamesShown, Member
<1>3. PICK g \in Frames :
        NextRequest(c, g) /\ g.kind = h.kind /\ g.clean = h.clean /\ g.seen = h.seen
  <2> DEFINE e == [h EXCEPT !.pc = "events"]
             r == [h EXCEPT !.pc = "rows", !.left = Member]
  <2>1. NextRequest(c, e) \/ NextRequest(c, r)
    BY DEF UpdateProfile, ListEvents, BankKinds
  <2>2. /\ e \in Frames /\ e.kind = h.kind /\ e.clean = h.clean /\ e.seen = h.seen
        /\ r \in Frames /\ r.kind = h.kind /\ r.clean = h.clean /\ r.seen = h.seen
    BY <1>0 DEF Frames, Member
  <2> QED
    BY <2>1, <2>2
<1>4. CASE token
  <2>1. Goes(c, g) /\ spoiled' = spoiled
    BY <1>3, <1>4 DEF NextRequest, Goes
  <2>2. CopyInOrder(g)'
    BY <1>0, <1>1, <1>3 DEF CopyInOrder, PathOK, BankKinds
  <2> QED
    BY <1>0, <1>1, <1>2, <1>3, <2>1, <2>2, NameCarried DEF NamedEverywhere
<1>5. CASE ~token
  <2>1. End(c) /\ Spoil(Data(h.kind))
    BY <1>3, <1>5 DEF NextRequest
  <2> QED
    BY <1>0, <1>1, <1>2, <2>1, NameRefused DEF NamedEverywhere
<1> QED
  BY <1>4, <1>5

(* The steps of a change of picture: the user that was answered goes into  *)
(* the store, and no other name has been saved in between.                 *)
LEMMA NameAvatar ==
  ASSUME Shape, NameInv, NEW c \in Calls, call[c].kind = "avatar",
         Decoded(c) \/ UpdateAvatar(c) \/ SetUser(c)
  PROVE  NameInv'
<1> USE DEF server, Shape
<1> DEFINE h == call[c]
<1>0. h \in Frames /\ PathOK(h) /\ c \in DOMAIN call /\ ~Renames(c) /\ Carries(c)
  BY PresentFrame DEF FramesOK, Renames, Carries
<1>1. CASE Decoded(c)
  <2>1. PICK g \in Frames :
          Goes(c, g) /\ g.kind = "avatar" /\ g.clean = h.clean /\ g.pc = "upload"
    <3> DEFINE g == [h EXCEPT !.pc = "upload"]
    <3>1. Goes(c, g) /\ g \in Frames
      BY <1>0, <1>1 DEF Decoded, Goes, Frames
    <3>2. g.kind = "avatar" /\ g.clean = h.clean /\ g.pc = "upload"
      BY <1>0 DEF Frames
    <3> QED
      BY <3>1, <3>2
  <2>2. UNCHANGED <<server, user, page, spoiled>>
    BY <1>1 DEF Decoded, screen
  <2>3. NamedEverywhere => NamesShown' /\ CopyInOrder(g)'
    BY <2>1, <2>2 DEF NamedEverywhere, NamesShown, Member, CopyInOrder, BankKinds
  <2> QED
    BY <1>0, <2>1, <2>2, <2>3, NameCarried
<1>2. CASE UpdateAvatar(c)
  <2>1. PICK g \in Frames :
          Goes(c, g) /\ g.kind = "avatar" /\ g.clean = h.clean /\ g.got = account
    <3> DEFINE g == [h EXCEPT !.pc = "answer", !.got = account]
    <3>1. Goes(c, g) /\ g \in Frames
      BY <1>0, <1>2 DEF UpdateAvatar, Goes, Frames, TablesOK
    <3>2. g.kind = "avatar" /\ g.clean = h.clean /\ g.got = account
      BY <1>0 DEF Frames
    <3> QED
      BY <3>1, <3>2
  <2>2. UNCHANGED <<server, user, page, spoiled>>
    BY <1>2 DEF UpdateAvatar, screen
  <2>3. NamedEverywhere => NamesShown' /\ CopyInOrder(g)'
    BY <2>1, <2>2 DEF NamedEverywhere, NamesShown, Member, CopyInOrder, BankKinds
  <2> QED
    BY <1>0, <2>1, <2>2, <2>3, NameCarried
<1>3. CASE SetUser(c)
  <2>1. /\ End(c) /\ h.pc = "answer" /\ user' = h.got
        /\ UNCHANGED <<server, page, spoiled>>
    BY <1>3 DEF SetUser
  <2>2. NamedEverywhere => NamesShown'
    <3>1. SUFFICES ASSUME NamedEverywhere PROVE NamesShown'
      OBVIOUS
    <3>2. CopyInOrder(h) /\ NamesShown
      BY <3>1 DEF NamedEverywhere
    <3> QED
      BY <2>1, <3>2 DEF NamesShown, CopyInOrder, Member
  <2> QED
    BY <1>0, <2>1, <2>2, NameEnds
<1> QED
  BY <1>1, <1>2, <1>3

(* A sync reads a row: the name it has there is the one that is shown. *)
LEMMA NameReads ==
  ASSUME Shape, NameInv, NEW c \in Calls, NEW e \in Events, ReadRow(c, e)
  PROVE  NameInv'
<1> USE DEF server, Shape
<1> DEFINE h == call[c]
<1>0. /\ h \in Frames /\ PathOK(h) /\ c \in DOMAIN call
      /\ h.pc = "rows" /\ e \in h.left /\ UNCHANGED <<server, user, page>>
  BY PresentFrame DEF FramesOK, ReadRow, screen
<1>1. h.kind \in Syncing /\ Carries(c) /\ rows[e] \in Profiles /\ e \in Member
  BY <1>0, AccAssumption DEF PathOK, FramesOK, Carries, Profiles, Member
<1>2. CASE Misses(c, e)
  BY <1>0, <1>2, NameMisses
<1>3. CASE h.kind = "name" /\ rows[e].name = h.value /\ Leaves(c, e, TRUE) /\ UNCHANGED spoiled
  <2>1. PICK g \in Frames : Goes(c, g) /\ Past(g, h, e, TRUE)
    BY <1>3, LeavesGoes
  <2>2. /\ g.kind = h.kind /\ g.value = h.value /\ g.pc = "rows" /\ g.left = h.left \ {e}
        /\ g.clean = h.clean
    <3>1. h.clean \in BOOLEAN
      BY <1>0 DEF Frames
    <3> QED
      BY <1>0, <2>1, <3>1 DEF Past
  <2>3. Renaming(h) => Renaming(g)'
    BY <1>0, <1>3, <2>2 DEF Renaming, Member
  <2> QED
    BY <1>3, <2>1, <2>2, <2>3, NameWritten DEF Renames
<1>4. CASE call' = [call EXCEPT ![c].seen[e] = rows[e].name] /\ UNCHANGED spoiled
  <2>1. PICK g \in Frames :
          /\ Goes(c, g) /\ g.kind = h.kind /\ g.value = h.value /\ g.pc = h.pc
          /\ g.left = h.left /\ g.clean = h.clean /\ g.got = h.got
          /\ g.seen = [h.seen EXCEPT ![e] = rows[e].name]
    <3> DEFINE g == [h EXCEPT !.seen = [@ EXCEPT ![e] = rows[e].name]]
    <3>1. Goes(c, g)
      BY <1>0, <1>4 DEF Goes, Frames
    <3>2. /\ g \in Frames /\ g.kind = h.kind /\ g.value = h.value /\ g.pc = h.pc
          /\ g.left = h.left /\ g.clean = h.clean /\ g.got = h.got
          /\ g.seen = [h.seen EXCEPT ![e] = rows[e].name]
      BY <1>0, <1>1 DEF Frames, Profiles
    <3> QED
      BY <3>1, <3>2
  <2>2. CASE h.kind = "name"
    <3>1. Renaming(h) => Renaming(g)'
      BY <1>0, <2>1 DEF Renaming, Member
    <3> QED
      BY <1>4, <2>1, <2>2, <3>1, NameWritten DEF Renames
  <2>3. CASE h.kind \in BankKinds
    <3>1. NamedEverywhere => NamesShown' /\ CopyInOrder(g)'
      <4>1. SUFFICES ASSUME NamedEverywhere PROVE NamesShown' /\ CopyInOrder(g)'
        OBVIOUS
      <4>2. CopyInOrder(h) /\ NamesShown
        BY <4>1 DEF NamedEverywhere
      <4>3. NamesShown' /\ rows[e].name = account.name
        BY <1>0, <1>1, <4>2 DEF NamesShown, Member
      <4>4. h.seen \in [Events -> Names \cup {None}]
        BY <1>0 DEF Frames
      <4> QED
        BY <1>0, <2>1, <2>3, <4>2, <4>3, <4>4 DEF CopyInOrder, BankKinds
    <3>2. ~Renames(c)
      BY <2>3 DEF Renames, BankKinds
    <3> QED
      BY <1>0, <1>1, <1>4, <2>1, <3>1, <3>2, NameCarried
  <2> QED
    BY <1>1, <2>2, <2>3 DEF Syncing
<1> QED
  BY <1>2, <1>3, <1>4 DEF ReadRow

(* A sync writes the row: its own name, or the one that it has read. *)
LEMMA NameWrites ==
  ASSUME Shape, NameInv, NEW c \in Calls, NEW e \in Events, WriteRow(c, e)
  PROVE  NameInv'
<1> USE DEF server, Shape
<1> DEFINE h == call[c]
<1>0. /\ h \in Frames /\ PathOK(h) /\ c \in DOMAIN call
      /\ h.pc = "rows" /\ e \in h.left /\ h.seen[e] # None /\ Leaves(c, e, TRUE)
      /\ UNCHANGED <<account, user, page, spoiled>>
  BY PresentFrame DEF FramesOK, WriteRow, screen
<1>1. h.kind \in Syncing /\ Carries(c) /\ rows[e] \in Profiles /\ e \in Member
  BY <1>0, AccAssumption DEF PathOK, FramesOK, Carries, Profiles, Member
<1>2. /\ \A x \in Events \ {e} : rows'[x] = rows[x]
      /\ rows'[e].name = IF h.kind = "name" THEN h.value ELSE h.seen[e]
  BY <1>1 DEF WriteRow, TablesOK, Profiles
<1>3. \A x \in Member' : x = e \/ (x \in Member /\ rows'[x] = rows[x])
  BY <1>2 DEF Member
<1>4. PICK g \in Frames : Goes(c, g) /\ Past(g, h, e, TRUE)
  BY <1>0, LeavesGoes
<1>5. /\ g.kind = h.kind /\ g.value = h.value /\ g.pc = "rows" /\ g.left = h.left \ {e}
      /\ g.clean = h.clean
      /\ \A x \in Events : g.seen[x] # None => g.seen[x] = h.seen[x]
  <2>1. h.clean \in BOOLEAN /\ h.seen \in [Events -> Names \cup {None}]
    BY <1>0 DEF Frames
  <2> QED
    BY <1>0, <1>4, <2>1 DEF Past
<1>6. CASE h.kind = "name"
  <2>1. Renaming(h) => Renaming(g)'
    BY <1>0, <1>2, <1>3, <1>5, <1>6 DEF Renaming
  <2> QED
    BY <1>0, <1>4, <1>5, <1>6, <2>1, NameWritten DEF Renames
<1>7. CASE h.kind \in BankKinds
  <2>1. NamedEverywhere => NamesShown' /\ CopyInOrder(g)'
    <3>1. SUFFICES ASSUME NamedEverywhere PROVE NamesShown' /\ CopyInOrder(g)'
      OBVIOUS
    <3>2. CopyInOrder(h) /\ NamesShown
      BY <3>1 DEF NamedEverywhere
    <3>3. h.seen[e] = account.name
      BY <1>0, <1>7, <3>2 DEF CopyInOrder
    <3>4. NamesShown'
      BY <1>0, <1>2, <1>3, <1>7, <3>2, <3>3 DEF NamesShown, BankKinds
    <3> QED
      BY <1>0, <1>5, <1>7, <3>2, <3>4 DEF CopyInOrder, BankKinds
  <2>2. ~Renames(c)
    BY <1>7 DEF Renames, BankKinds
  <2> QED
    BY <1>0, <1>1, <1>4, <1>5, <2>1, <2>2, NameCarried
<1> QED
  BY <1>1, <1>6, <1>7 DEF Syncing

LEMMA NameProceeds ==
  ASSUME Shape, NameInv, NEW c \in Calls, Proceed(c) \/ Fail(c)
  PROVE  NameInv'
<1> USE DEF server, Shape
<1> DEFINE h == call[c]
<1>0. h \in Frames /\ PathOK(h)
  BY PresentFrame
<1>1. CASE Decoded(c) \/ UpdateAvatar(c)
  <2>1. h.kind = "avatar"
    BY <1>0, <1>1 DEF Decoded, UpdateAvatar, PathOK
  <2> QED
    BY <1>1, <2>1, NameAvatar
<1>2. CASE UpdateProfile(c) \/ ListEvents(c)
  <2>1. h.kind = "name" \/ h.kind \in BankKinds
    BY <1>0, <1>2 DEF UpdateProfile, ListEvents, PathOK, Syncing
  <2> QED
    BY <1>2, <2>1, NameSends, NameBankSends
<1>3. CASE SetUser(c)
  <2>1. h.kind \in {"name", "avatar"}
    BY <1>0, <1>3 DEF SetUser, PathOK
  <2> QED
    BY <1>3, <2>1, NameSends, NameAvatar
<1>4. ASSUME NEW e \in Events, ReadRow(c, e) \/ WriteRow(c, e)
      PROVE  NameInv'
  BY <1>4, NameReads, NameWrites
<1>5. CASE Finish(c)
  BY <1>5, NameFinishes
<1>6. CASE ChangePassword(c)
  <2> DEFINE f == [call EXCEPT ![c] = Ended]
  <2>1. /\ call' = Unmounted(f) /\ UNCHANGED <<server, spoiled>> /\ page' = "login"
        /\ h.kind = "password"
    BY <1>0, <1>6 DEF ChangePassword, LogOut, Ended, PathOK
  <2>2. \A g \in Frames : /\ Same([g EXCEPT !.own = FALSE], g)
                          /\ [g EXCEPT !.own = FALSE].clean = g.clean
    BY DEF Frames, Same
  <2>3. /\ f \in [Calls -> Frames] /\ f[c] = Ended
        /\ \A d \in Calls \ {c} : f[d] = call[d]
    BY EndedFrame DEF FramesOK
  <2>4. /\ Same(call'[c], Ended)
        /\ \A d \in Calls \ {c} :
             Same(call'[d], call[d]) /\ call'[d].clean = call[d].clean
    BY <2>1, <2>2, <2>3 DEF Unmounted
  <2>5. call'[c].kind = "none" /\ ~Renames(c)
    BY <2>1, <2>4, EndedFrame DEF Same, Renames
  <2>6. NameFrames
    BY <2>1, <2>4, <2>5 DEF NameFrames, Carries, Renames, Same, Syncing, BankKinds
  <2>7. NamedEverywhere => NamedEverywhere'
    <3>1. NamesShown => NamesShown'
      BY <2>1 DEF NamesShown, Member
    <3>2. CopyInOrder(call[c])'
      BY <2>5 DEF CopyInOrder, BankKinds
    <3>3. \A d \in Calls \ {c} : CopyInOrder(call[d]) => CopyInOrder(call[d])'
      BY <2>1, <2>4 DEF CopyInOrder, Same
    <3> QED
      BY <3>1, <3>2, <3>3 DEF NamedEverywhere
  <2>8. ASSUME NEW d \in Calls, Renames(d)', Renaming(call[d])
        PROVE  Renaming(call[d])'
    <3> HIDE DEF f
    <3>1. d # c
      BY <2>5, <2>8 DEF Renames
    <3>2. Same(call'[d], call[d])
      BY <2>4, <3>1
    <3>3. account' = account /\ rows' = rows /\ Member' = Member
      BY <2>1 DEF Member
    <3> HIDE DEF h
    <3> QED
      BY <2>1, <2>8, <3>2, <3>3 DEF Renaming, Same
  <2> QED
    BY <2>6, <2>7, <2>8, NameKeeps
<1>7. CASE InsertRow(c)
  <2>1. /\ h.kind = "join" /\ h.value \in Events /\ h.got \in Profiles
        /\ rows' = [rows EXCEPT ![h.value] = h.got] /\ End(c)
        /\ UNCHANGED <<account, user, page, spoiled>>
    BY <1>0, <1>7 DEF InsertRow, PathOK, screen
  <2>2. Carries(c) /\ ~Renames(c)
    BY <2>1 DEF Carries, Renames
  <2>3. NamedEverywhere => NamesShown'
    <3>1. SUFFICES ASSUME NamedEverywhere PROVE NamesShown'
      OBVIOUS
    <3>2. CopyInOrder(h) /\ NamesShown
      BY <3>1 DEF NamedEverywhere
    <3> QED
      BY <2>1, <3>2 DEF NamesShown, CopyInOrder, Member, TablesOK
  <2> QED
    BY <2>1, <2>2, <2>3, NameEnds
<1>8. CASE Fail(c)
  <2>1. UNCHANGED <<server, user, page>>
    BY <1>8 DEF Fail, screen
  <2>2. NamesShown => NamesShown'
    BY <2>1 DEF NamesShown, Member
  <2>3. CASE End(c) /\ Spoil(Data(h.kind))
    <3>1. CASE Carries(c)
      BY <2>1, <2>2, <2>3, <3>1, NameRefused DEF NamedEverywhere
    <3>2. CASE ~Carries(c)
      BY <2>1, <2>3, <3>2, NameAside DEF Spoil
    <3> QED
      BY <3>1, <3>2
  <2>4. ASSUME NEW e \in h.left, Misses(c, e), h.pc = "rows"
        PROVE  NameInv'
    <3>1. e \in Events
      BY <1>0 DEF Frames
    <3> QED
      BY <2>1, <2>4, <3>1, NameMisses
  <2> QED
    BY <1>8, <2>3, <2>4 DEF Fail
<1> QED
  BY <1>1, <1>2, <1>3, <1>4, <1>5, <1>6, <1>7, <1>8 DEF Proceed

LEMMA InitName == Init => NameInv
<1> SUFFICES ASSUME Init PROVE NameInv
  OBVIOUS
<1>1. \A c \in Calls : call[c].kind = "none"
  BY DEF Init, Idle
<1>2. NamedEverywhere
  BY <1>1 DEF Init, NamedEverywhere, NamesShown, CopyInOrder, Member, BankKinds
<1> QED
  BY <1>1, <1>2 DEF NameInv, Renames

LEMMA NamePreserves ==
  ASSUME IInv, Shape, NameInv, [Next]_vars
  PROVE  NameInv'
<1>1. CASE UNCHANGED vars
  BY <1>1
  DEF vars, server, screen, NameInv, Renames, Carries, Renaming, NamedEverywhere, NamesShown,
      CopyInOrder, Member
<1> QED
  BY <1>1, StepPreserves, NameGestures, NameHandlers, NameProceeds DEF Next, Shape

-----------------------------------------------------------------------------
(* The four parts together are kept by every step. *)
THEOREM Invariant == Spec => [](IInv /\ Shape /\ BankInv /\ NameInv)
<1>1. Init => IInv /\ Shape /\ BankInv /\ NameInv
  BY InitInvariant, InitShape, InitBank, InitName
<1>2. IInv /\ Shape /\ BankInv /\ NameInv /\ [Next]_vars
        => (IInv /\ Shape /\ BankInv /\ NameInv)'
  BY StepPreserves, ShapePreserves, BankPreserves, NamePreserves
<1> QED
  BY <1>1, <1>2, PTL DEF Spec

(* Once every handler has ended nobody is of any kind any more. *)
LEMMA QuietKinds ==
  ASSUME Shape, Quiet, NEW c \in Calls
  PROVE  call[c].kind = "none"
BY PresentFrame DEF Shape, Quiet, Running, PathOK

(* DefaultEverywhere: once the handlers have ended the server pays the     *)
(* default account of the stored list, for the user and in each of his     *)
(* events, whatever was added, edited, deleted or joined before and        *)
(* wherever the user went meanwhile; a request that failed or handlers     *)
(* that ran at once suspend this until one has run alone to its end.       *)
THEOREM DefaultPaid == Spec => []DefaultEverywhere
<1>1. Shape /\ BankInv => DefaultEverywhere
  <2> SUFFICES ASSUME Shape, BankInv, Quiet, "bank" \notin spoiled, stored # <<>>
               PROVE  /\ account.bank = Default(stored)
                      /\ \A e \in Member : rows[e].bank = Default(stored)
    BY DEF DefaultEverywhere
  <2>1. \A c \in Calls : ~Pays(c)
    BY QuietKinds DEF Pays, BankKinds
  <2> QED
    BY <2>1 DEF BankInv, PaidEverywhere
<1> QED
  BY <1>1, Invariant, PTL

(* NameEverywhere: once the handlers have ended the name of the user is    *)
(* the same in users, in his row of every event and in the auth store of   *)
(* the tab, although a sync of the bank account writes names that it read  *)
(* before and a change of the picture puts a whole user into the store.    *)
THEOREM NameShown == Spec => []NameEverywhere
<1>1. Shape /\ NameInv => NameEverywhere
  <2> SUFFICES ASSUME Shape, NameInv, Quiet, "name" \notin spoiled
               PROVE  /\ \A e \in Member : rows[e].name = account.name
                      /\ page # "login" => user.name = account.name
    BY DEF NameEverywhere
  <2>1. \A c \in Calls : ~Renames(c)
    BY QuietKinds DEF Renames
  <2> QED
    BY <2>1 DEF NameInv, NamedEverywhere, NamesShown
<1> QED
  BY <1>1, Invariant, PTL

(* Both copies of the list are lists of accounts, and the index a number. *)
THEOREM TypeCorrect == Spec => []TypeOK
<1>1. IInv => TypeOK
  BY DEF IInv
<1> QED
  BY <1>1, Invariant, PTL

================================================================================
