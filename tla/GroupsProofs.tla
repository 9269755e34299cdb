---------------------------- MODULE GroupsProofs ----------------------------
(***************************************************************************)
(* Theorems about Groups, for any users, chats and numbers of requests and *)
(* loads: its types, and that the list of Me's conversations follows Me's  *)
(* membership.                                                             *)
(*                                                                         *)
(* The argument: whenever the list is wrong, something will make Me load   *)
(* it again.  While newest holds, the load sent last is under way, and it  *)
(* is unanswered, or was answered with what is, or something newer is on   *)
(* its way (ListInv).  A committed change is on its way to Me if Me has a  *)
(* row, or if it is a removal that counted Me among those to be told       *)
(* (Tells); a removal did, unless it missed Me (RequestOK).  What else     *)
(* takes a row from Me, or a row from the list, makes the list astray.     *)
(***************************************************************************)
EXTENDS Groups, TLAPS

\* A leaf is for the SMT solver, which is given time, unless it names another prover.
USE SMTT(60)

\* The requests that take rows away, and the steps of a request.
Removals == {"remove", "leave"}
Steps == {"asked", "checked", "told", "deleted", "committed", "answered", "failed"}

\* A removal tells Me, unless it read whom to tell while Me had no row; an answer
\* to set_prefs has the conversation.
RequestOK(r) ==
  r # None =>
    /\ r.op \in Removals /\ r.step \in {"told", "deleted"} /\ ~r.missed => Me \in r.told
    /\ r.op = "prefs" /\ r.step = "answered" => r.out # None

\* A committed change, and whether its publication will reach Me.
Tells(r) ==
  /\ r # None /\ r.step = "committed"
  /\ IF r.op \in Removals THEN Me \in r.told ELSE r.chat \in Chats /\ Me \in Members(r.chat)

\* Something will make Me load the list again.
Coming == news > 0 \/ \E q \in Requests : Tells(requests[q])

Agrees(l) == \A c \in Chats : (l[c] # None) <=> (role[c][Me] # "none")

\* The list will be right: the last load will bring what is, or it is right
\* already, or something is on its way that will make Me load it again.
ListInv ==
  /\ newest => /\ loads # <<>>
               /\ \/ loads[Len(loads)] = None
                  \/ Agrees(loads[Len(loads)])
                  \/ Coming
  /\ newest \/ astray \/ Agrees(list) \/ Coming

\* The inductive invariant.
IInv == TypeOK /\ (\A q \in Requests : RequestOK(requests[q])) /\ ListInv

-----------------------------------------------------------------------------
(* Requests *)

\* What an update of a request's fields leaves.
LEMMA WithStep ==
  ASSUME NEW r \in Request, NEW s \in Steps
  PROVE  /\ [r EXCEPT !.step = s] \in Request
         /\ [r EXCEPT !.step = s].step = s
         /\ [r EXCEPT !.step = s].op = r.op /\ [r EXCEPT !.step = s].chat = r.chat
         /\ [r EXCEPT !.step = s].told = r.told /\ [r EXCEPT !.step = s].out = r.out
         /\ [r EXCEPT !.step = s].missed = r.missed /\ [r EXCEPT !.step = s].from = r.from
         /\ [r EXCEPT !.step = s].who = r.who
BY DEF Request, Steps

LEMMA WithOut ==
  ASSUME NEW r \in Request, NEW s \in Steps, NEW o \in Shown
  PROVE  /\ [r EXCEPT !.step = s, !.out = o] \in Request
         /\ [r EXCEPT !.step = s, !.out = o].step = s
         /\ [r EXCEPT !.step = s, !.out = o].op = r.op
         /\ [r EXCEPT !.step = s, !.out = o].out # None
BY ZenonT(120), NoneIsNothing DEF Request, Steps, Opt

LEMMA WithLast ==
  ASSUME NEW r \in Request, NEW b \in BOOLEAN
  PROVE  LET n == [r EXCEPT !.step = "deleted", !.last = b]
         IN /\ n \in Request /\ n.step = "deleted" /\ n.told = r.told
            /\ n.missed = r.missed /\ n.op = r.op
BY Zenon DEF Request

LEMMA WithChat ==
  ASSUME NEW r \in Request, NEW c \in Chats
  PROVE  LET n == [r EXCEPT !.step = "committed", !.chat = c]
         IN n \in Request /\ n.step = "committed" /\ n.chat = c /\ n.op = r.op
BY Zenon DEF Request, Opt

LEMMA WithFrom ==
  ASSUME NEW r \in Request
  PROVE  LET n == [r EXCEPT !.from = "left"]
         IN /\ n \in Request /\ n.step = r.step /\ n.told = r.told /\ n.chat = r.chat
            /\ n.missed = r.missed /\ n.op = r.op /\ n.out = r.out
BY DEF Request

LEMMA AskingIs ==
  ASSUME NEW op \in Ops, NEW by \in Users, NEW chat \in Opt(Chats), NEW who \in SUBSET Users,
         NEW from \in {"page", "left", "list", "sheet", "elsewhere"}
  PROVE  LET r == Asking(op, by, chat, who, from) IN r \in Request /\ r.step = "asked"
BY DEF Asking, Request, Opt

\* A request passes on, and the others stay.
LEMMA Passing ==
  ASSUME requests \in [Requests -> Opt(Request)], \A p \in Requests : RequestOK(requests[p]),
         NEW q \in Requests, NEW r \in Request, RequestOK(r), Passes(q, r)
  PROVE  /\ requests' \in [Requests -> Opt(Request)]
         /\ \A p \in Requests : RequestOK(requests'[p])
         /\ \A p \in Requests \ {q} : requests'[p] = requests[p]
         /\ requests'[q] \in {None, r}
         /\ r.step \notin {"answered", "failed"} => requests'[q] = r
<1>1. RequestOK(None)
  BY DEF RequestOK
<1> QED
  BY <1>1 DEF Passes, Opt

\* The requests of a page that is left.
LEMMA LeavingIs ==
  ASSUME NEW rs \in [Requests -> Opt(Request)], \A p \in Requests : RequestOK(rs[p])
  PROVE  /\ Leaving(rs) \in [Requests -> Opt(Request)]
         /\ \A p \in Requests :
              /\ RequestOK(Leaving(rs)[p])
              /\ rs[p] # None => /\ Leaving(rs)[p] # None
                                 /\ Leaving(rs)[p].op = rs[p].op
                                 /\ Leaving(rs)[p].step = rs[p].step
                                 /\ Leaving(rs)[p].told = rs[p].told
                                 /\ Leaving(rs)[p].chat = rs[p].chat
<1> SUFFICES ASSUME NEW p \in Requests
             PROVE  /\ Leaving(rs)[p] \in Opt(Request) /\ RequestOK(Leaving(rs)[p])
                    /\ rs[p] # None => /\ Leaving(rs)[p] # None
                                       /\ Leaving(rs)[p].op = rs[p].op
                                       /\ Leaving(rs)[p].step = rs[p].step
                                       /\ Leaving(rs)[p].told = rs[p].told
                                       /\ Leaving(rs)[p].chat = rs[p].chat
  BY DEF Leaving
<1>1. CASE rs[p] # None /\ rs[p].from = "page"
  <2>1. rs[p] \in Request /\ Leaving(rs)[p] = [rs[p] EXCEPT !.from = "left"]
    BY <1>1 DEF Leaving, Opt
  <2> QED
    BY <2>1, WithFrom, NoneIsNothing DEF Opt, RequestOK
<1>2. CASE ~(rs[p] # None /\ rs[p].from = "page")
  BY <1>2 DEF Leaving
<1> QED
  BY <1>1, <1>2

-----------------------------------------------------------------------------
(* What keeps the list right. *)

\* A committed change stays one until it is published.
Keeps ==
  \A p \in Requests :
    requests[p] # None /\ requests[p].step = "committed" =>
      /\ requests'[p] # None /\ requests'[p].step = "committed"
      /\ requests'[p].op = requests[p].op /\ requests'[p].told = requests[p].told
      /\ requests'[p].chat = requests[p].chat

LEMMA StillComing ==
  ASSUME Keeps, news' = news,
         \A c \in Chats : role[c][Me] # "none" => role'[c][Me] # "none"
  PROVE  Coming => Coming'
<1>1. ASSUME NEW p \in Requests, Tells(requests[p]) PROVE Tells(requests[p])'
  BY <1>1, MeIsUser DEF Keeps, Tells, Members
<1> QED
  BY <1>1 DEF Coming

\* Steps that change neither the list nor what it should be.
LEMMA SameList ==
  ASSUME ListInv, UNCHANGED <<loads, list, newest, astray>>, Coming => Coming',
         \A c \in Chats : role'[c][Me] # "none" <=> role[c][Me] # "none"
  PROVE  ListInv'
BY DEF ListInv, Agrees

\* Steps after which something is on its way.
LEMMA Arranged ==
  ASSUME ListInv, UNCHANGED <<loads, newest>>, Coming'
  PROVE  ListInv'
BY DEF ListInv

\* Steps that load the list again.
LEMMA Reloads ==
  ASSUME TypeOK, Reload
  PROVE  ListInv' /\ loads' \in Seq(Opt([Chats -> Opt(SUBSET Users)])) /\ Len(loads') <= MaxLoads
<1>1. loads \in Seq(Opt([Chats -> Opt(SUBSET Users)])) /\ Len(loads) < MaxLoads
  BY DEF TypeOK, Reload
<1>2. /\ loads' \in Seq(Opt([Chats -> Opt(SUBSET Users)])) /\ Len(loads') = Len(loads) + 1
      /\ loads' # <<>> /\ loads'[Len(loads')] = None
  BY <1>1 DEF Reload, Opt
<1> QED
  BY <1>1, <1>2, BoundsAreNumbers DEF ListInv, Reload

-----------------------------------------------------------------------------
(* Steps of requests that change no row. *)

RequestsAre ==
  /\ requests' \in [Requests -> Opt(Request)]
  /\ \A p \in Requests : RequestOK(requests'[p])
InfoIs == info' \in [at : Opt(Chats), shown : Opt(Shown)]

LEMMA Quietly ==
  ASSUME IInv, UNCHANGED <<server, news, loads, list, newest, astray>>,
         asked' \in 0..MaxAsked, InfoIs, RequestsAre, Keeps
  PROVE  IInv'
<1>1. TypeOK'
  BY Zenon DEF IInv, TypeOK, server, InfoIs, RequestsAre, Exists, Members
<1>2. ListInv'
  BY StillComing, SameList DEF IInv, server
<1> QED
  BY <1>1, <1>2 DEF IInv, RequestsAre

LEMMA Reloading ==
  ASSUME IInv, Reload, UNCHANGED <<server, list, astray>>, news' \in Nat,
         asked' \in 0..MaxAsked, InfoIs, RequestsAre
  PROVE  IInv'
<1>1. TypeOK'
  BY Zenon, Reloads DEF IInv, TypeOK, server, InfoIs, RequestsAre, Reload, Exists, Members
<1> QED
  BY <1>1, Reloads DEF IInv, RequestsAre

\* A request that is not a committed change passes on, and nothing else happens.
LEMMA OnlyPasses ==
  ASSUME IInv, NEW q \in Requests, requests[q] = None \/ requests[q].step # "committed",
         NEW r \in Request, RequestOK(r), Passes(q, r), UNCHANGED <<server, asked, client>>
  PROVE  IInv'
<1>1. RequestsAre /\ Keeps
  BY Passing DEF IInv, TypeOK, RequestsAre, Keeps
<1>2. InfoIs /\ asked' \in 0..MaxAsked
  BY DEF IInv, TypeOK, InfoIs, client
<1> QED
  BY <1>1, <1>2, Quietly DEF client

\* ... of which only its step changes.
LEMMA OnlySteps ==
  ASSUME IInv, NEW q \in Requests, requests[q] # None, requests[q].step # "committed",
         NEW s \in Steps \ {"told", "deleted"}, requests[q].op # "prefs" \/ s # "answered",
         Step(q, s), UNCHANGED <<server, asked, client>>
  PROVE  IInv'
<1>1. requests[q] \in Request
  BY DEF IInv, TypeOK, Opt
<1> DEFINE r == [requests[q] EXCEPT !.step = s]
<1>2. r \in Request /\ r.step = s /\ r.op = requests[q].op
  BY <1>1, WithStep
<1>3. Passes(q, r)
  BY DEF Step
<1> HIDE DEF r
<1>4. RequestOK(r)
  BY <1>2 DEF RequestOK
<1> QED
  BY <1>2, <1>3, <1>4, OnlyPasses

\* A refused request.
LEMMA FailsStep ==
  ASSUME IInv, NEW q \in Requests, requests[q] # None, requests[q].step # "committed", Fails(q)
  PROVE  IInv'
BY OnlySteps DEF Fails, Steps

\* What an answer shows of a conversation.
LEMMA OutIs ==
  ASSUME IInv, NEW c, NEW b \in BOOLEAN
  PROVE  Out(c, b) \in Shown
BY DEF Out, Shown, Members

\* One lemma for each transaction.
LEMMA CheckStep == ASSUME IInv, NEW q \in Requests, Check(q) PROVE IInv'
<1> DEFINE r == requests[q]
           b == role[r.chat][r.by] = "admin"
           n == [r EXCEPT !.step = "checked", !.admin = b]
<1>1. r \in Request /\ r # None /\ r.step = "asked" /\ b \in BOOLEAN
  BY DEF Check, Now, IInv, TypeOK, Opt
<1>2. UNCHANGED <<server, asked, client>> /\ (Passes(q, n) \/ Step(q, "failed"))
  BY DEF Check
<1> HIDE DEF b
<1>3. CASE Passes(q, n)
  <2>1. n \in Request /\ n.step = "checked"
    BY Zenon, <1>1 DEF Request
  <2> HIDE DEF n
  <2>2. RequestOK(n)
    BY <2>1 DEF RequestOK
  <2> QED
    BY <1>1, <1>2, <1>3, <2>1, <2>2, OnlyPasses
<1>4. CASE Step(q, "failed")
  BY <1>1, <1>2, <1>4, OnlySteps DEF Steps
<1> QED
  BY <1>2, <1>3, <1>4

\* A request that is answered with a conversation.
LEMMA AnswersWith ==
  ASSUME IInv, NEW q \in Requests, requests[q] # None, requests[q].step # "committed",
         NEW c, NEW b \in BOOLEAN,
         Passes(q, [requests[q] EXCEPT !.step = "answered", !.out = Out(c, b)]),
         UNCHANGED <<server, asked, client>>
  PROVE  IInv'
<1> DEFINE n == [requests[q] EXCEPT !.step = "answered", !.out = Out(c, b)]
<1>1. requests[q] \in Request /\ Out(c, b) \in Shown
  BY OutIs DEF IInv, TypeOK, Opt
<1>2. n \in Request /\ n.step = "answered" /\ n.out # None
  BY ZenonT(120), <1>1, WithOut DEF Steps
<1> HIDE DEF n
<1>3. RequestOK(n)
  BY <1>2 DEF RequestOK
<1>4. Passes(q, n)
  BY DEF n
<1> QED
  BY <1>2, <1>3, <1>4, OnlyPasses

LEMMA ServeInfoStep == ASSUME IInv, NEW q \in Requests, ServeInfo(q) PROVE IInv'
<1>1. requests[q] # None /\ requests[q].step = "asked" /\ UNCHANGED <<server, asked, client>>
  BY DEF ServeInfo, Now
<1> DEFINE r == requests[q]
<1>2. \/ Passes(q, [r EXCEPT !.step = "answered",
                               !.out = Out(r.chat, role[r.chat][r.by] = "admin")])
      \/ Step(q, "failed")
  BY DEF ServeInfo
<1>3. (role[r.chat][r.by] = "admin") \in BOOLEAN
  OBVIOUS
<1> QED
  BY Zenon, <1>1, <1>2, <1>3, AnswersWith, OnlySteps DEF Steps

LEMMA CheckCreateStep == ASSUME IInv, NEW q \in Requests, CheckCreate(q) PROVE IInv'
<1>1. /\ requests[q] # None /\ requests[q].step = "asked" /\ requests[q].op # "prefs"
      /\ UNCHANGED <<server, asked, client>>
  BY DEF CheckCreate, Now
<1>2. Step(q, "failed") \/ Step(q, "answered") \/ Step(q, "checked")
  BY DEF CheckCreate
<1> QED
  BY <1>1, <1>2, OnlySteps DEF Steps

LEMMA CommitSettingStep == ASSUME IInv, NEW q \in Requests, CommitSetting(q) PROVE IInv'
<1>1. /\ requests[q] # None /\ requests[q].step = "checked"
      /\ UNCHANGED <<server, asked, client>>
  BY DEF CommitSetting, Now
<1>2. Step(q, "failed") \/ Step(q, "committed")
  BY DEF CommitSetting
<1> QED
  BY <1>1, <1>2, OnlySteps DEF Steps

LEMMA CommitOwnRowStep == ASSUME IInv, NEW q \in Requests, CommitOwnRow(q) PROVE IInv'
<1>1. /\ requests[q] # None /\ requests[q].step = "checked"
      /\ requests[q] \in Request /\ UNCHANGED <<server, asked, client>>
  BY DEF CommitOwnRow, Now, IInv, TypeOK, Opt
<1> DEFINE r == requests[q]
<1>2. \/ Passes(q, [r EXCEPT !.step = "answered", !.out = Out(r.chat, r.admin)])
      \/ Step(q, "failed")
  BY DEF CommitOwnRow
<1>3. r.admin \in BOOLEAN
  BY <1>1 DEF Request
<1> QED
  BY Zenon, <1>1, <1>2, <1>3, AnswersWith, OnlySteps DEF Steps

LEMMA RecipientsStep == ASSUME IInv, NEW q \in Requests, Recipients(q) PROVE IInv'
<1> DEFINE r == requests[q]
           to == Members(r.chat)
           m == Me \notin to
           n == [r EXCEPT !.step = "told", !.told = to, !.missed = m]
<1>1. /\ r \in Request /\ r # None /\ r.step = "checked" /\ r.op # "prefs"
      /\ UNCHANGED <<server, asked, client>>
  BY DEF Recipients, Now, IInv, TypeOK, Opt
<1>2. Passes(q, n) \/ Step(q, "answered")
  BY DEF Recipients
<1>3. to \in SUBSET Users /\ m \in BOOLEAN /\ (~m => Me \in to)
  BY DEF Members
<1> HIDE DEF to, m
<1>4. CASE Passes(q, n)
  <2>1. n \in Request /\ n.step = "told" /\ n.told = to /\ n.missed = m /\ n.op = r.op
    BY Zenon, <1>1, <1>3 DEF Request
  <2> HIDE DEF n
  <2>2. RequestOK(n)
    BY <1>1, <1>3, <2>1 DEF RequestOK
  <2> QED
    BY <1>1, <1>4, <2>1, <2>2, OnlyPasses
<1>5. CASE Step(q, "answered")
  BY <1>1, <1>5, OnlySteps DEF Steps
<1> QED
  BY <1>2, <1>4, <1>5

LEMMA DeleteStep == ASSUME IInv, NEW q \in Requests, Delete(q) PROVE IInv'
<1> DEFINE r == requests[q]
           n == [r EXCEPT !.step = "deleted", !.last = Members(r.chat) \subseteq r.who]
<1>1. /\ r \in Request /\ r # None /\ r.step = "told" /\ r.op \in Removals
      /\ UNCHANGED <<server, asked, client>> /\ RequestOK(r) /\ Passes(q, n)
  BY DEF Delete, Now, IInv, TypeOK, Opt, Removals
<1>2. (Members(r.chat) \subseteq r.who) \in BOOLEAN
  OBVIOUS
<1>3. n \in Request /\ n.step = "deleted" /\ n.told = r.told /\ n.missed = r.missed /\ n.op = r.op
  BY ZenonT(120), <1>1, <1>2, WithLast
<1> HIDE DEF n
<1>4. RequestOK(n)
  BY <1>1, <1>3 DEF RequestOK, Removals
<1> QED
  BY <1>1, <1>3, <1>4, OnlyPasses

LEMMA LoseStep == ASSUME IInv, NEW q \in Requests, Lose(q) PROVE IInv'
BY FailsStep DEF Lose, Now

-----------------------------------------------------------------------------
(* Steps that change rows, and what they tell. *)

\* What the server's part of the types says of rows.
RowsAre ==
  /\ users' \subseteq Users
  /\ kind' \in [Chats -> {"none", "direct", "group", "gone"}]
  /\ role' \in [Chats -> [Users -> Roles]]
  /\ swept' \subseteq Chats
  /\ \A c \in Chats : \A u \in Users :
       role'[c][u] # "none" => u \in users' /\ kind'[c] \in {"direct", "group"}

\* A step keeps the invariant when it keeps the types and ListInv.
LEMMA ServerStep ==
  ASSUME IInv, RowsAre, RequestsAre, news' \in Nat, newest' \in BOOLEAN, astray' \in BOOLEAN,
         UNCHANGED <<asked, loads, list, info>>, ListInv'
  PROVE  IInv'
<1>1. TypeOK'
  BY Zenon DEF IInv, TypeOK, RowsAre, RequestsAre, Exists, Members
<1> QED
  BY <1>1 DEF IInv, RequestsAre

\* What the types say of the rows before the step.
LEMMA Rows ==
  ASSUME IInv
  PROVE  /\ users \subseteq Users /\ kind \in [Chats -> {"none", "direct", "group", "gone"}]
         /\ role \in [Chats -> [Users -> Roles]] /\ swept \subseteq Chats
         /\ \A c \in Chats : \A u \in Users :
              role[c][u] # "none" => u \in users /\ kind[c] \in {"direct", "group"}
BY DEF IInv, TypeOK, Exists, Members

\* A request that passes on keeps the committed ones; one that commits tells Me.
LEMMA PassesKeeps ==
  ASSUME IInv, NEW q \in Requests, requests[q] # None, requests[q].step # "committed",
         NEW r \in Request, RequestOK(r), Passes(q, r)
  PROVE  /\ RequestsAre /\ Keeps
         /\ r.step = "committed" => requests'[q] = r /\ requests'[q] # None
BY Passing, NoneIsNothing DEF IInv, TypeOK, RequestsAre, Keeps

LEMMA CommitCreateStep == ASSUME IInv, NEW q \in Requests, CommitCreate(q) PROVE IInv'
<1> DEFINE r == requests[q]
<1>1. /\ r # None /\ r.step = "checked" /\ r.op \in {"direct", "group"} /\ r \in Request
  BY Zenon DEF CommitCreate, Now, IInv, TypeOK, Opt
<1>2. CASE Fails(q)
  BY <1>1, <1>2, FailsStep
<1>3. ASSUME NEW c \in Chats, kind[c] = "none", r.who \cup {r.by} \subseteq users,
             kind' = [kind EXCEPT ![c] = r.op],
             role' = [role EXCEPT ![c] = [u \in Users |-> IF u = r.by THEN "admin"
                                            ELSE IF u \in r.who THEN "member" ELSE "none"]],
             Passes(q, [r EXCEPT !.step = "committed", !.chat = c]),
             UNCHANGED <<users, swept, asked, client>>
      PROVE  IInv'
  <2> DEFINE n == [r EXCEPT !.step = "committed", !.chat = c]
  <2>1. n \in Request /\ n.step = "committed" /\ n.chat = c /\ n.op = r.op
    BY Zenon, <1>1, WithChat
  <2>2. Passes(q, n)
    BY <1>3
  <2> HIDE DEF n
  <2>3. RequestOK(n)
    BY <2>1 DEF RequestOK
  <2>4. RequestsAre /\ Keeps /\ requests'[q] = n /\ requests'[q] # None
    BY <1>1, <2>1, <2>2, <2>3, PassesKeeps
  <2>5. RowsAre
    BY <1>1, <1>3, Rows DEF RowsAre, Roles
  <2>6. \A u \in Users : role[c][u] = "none"
    BY <1>3, Rows
  <2>7. ListInv'
    <3>1. CASE role'[c][Me] # "none"
      <4>1. Tells(requests[q])'
        BY <1>1, <2>1, <2>4, <3>1, MeIsUser DEF Tells, Members, Removals
      <4> QED
        BY <1>3, <4>1, Arranged DEF IInv, client, Coming
    <3>2. CASE role'[c][Me] = "none"
      <4>1. \A d \in Chats : role'[d][Me] # "none" <=> role[d][Me] # "none"
        BY <1>3, <2>6, <3>2, Rows, MeIsUser
      <4> QED
        BY <1>3, <2>4, <4>1, StillComing, SameList DEF IInv, client
    <3> QED
      BY <3>1, <3>2
  <2> QED
    BY Zenon, <1>3, <2>4, <2>5, <2>7, ServerStep DEF IInv, TypeOK, client
<1> QED
  BY ZenonT(120), <1>2, <1>3 DEF CommitCreate

LEMMA AddStep == ASSUME IInv, NEW q \in Requests, Add(q) PROVE IInv'
<1> DEFINE r == requests[q]
           c == r.chat
           new == r.who \ Members(c)
<1>1. /\ r # None /\ r.step = "checked" /\ r.op = "add" /\ r \in Request
  BY DEF Add, Now, IInv, TypeOK, Opt
<1>2. CASE Fails(q)
  BY <1>1, <1>2, FailsStep
<1>3. ASSUME Exists(c), new \subseteq users,
             role' = [role EXCEPT ![c] = [u \in Users |-> IF u \in new THEN "member" ELSE @[u]]],
             Step(q, IF new = {} THEN "answered" ELSE "committed"),
             UNCHANGED <<users, kind, swept, asked, client>>
      PROVE  IInv'
  <2> DEFINE s == IF new = {} THEN "answered" ELSE "committed"
             n == [r EXCEPT !.step = s]
  <2>1. s \in Steps /\ s \notin {"told", "deleted"} /\ (new # {} => s = "committed")
    BY DEF Steps
  <2> HIDE DEF s
  <2>2. n \in Request /\ n.step = s /\ n.op = r.op /\ n.chat = c
    BY <1>1, <2>1, WithStep
  <2>3. Passes(q, n)
    BY <1>3 DEF Step, s
  <2> HIDE DEF n
  <2>4. RequestOK(n)
    BY <1>1, <2>1, <2>2 DEF RequestOK
  <2>5. RequestsAre /\ Keeps /\ (new # {} => requests'[q] = n /\ requests'[q] # None)
    BY <1>1, <2>1, <2>2, <2>3, <2>4, PassesKeeps
  <2>6. /\ \A d \in Chats \ {c} : role'[d] = role[d]
        /\ c \in Chats => role'[c] = [u \in Users |-> IF u \in new THEN "member" ELSE role[c][u]]
    BY <1>3, Rows
  <2>7. RowsAre
    <3>1. role' \in [Chats -> [Users -> Roles]]
      BY ZenonT(120), <1>3, Rows DEF Roles
    <3>2. ASSUME NEW d \in Chats, NEW u \in Users, role'[d][u] # "none"
          PROVE  u \in users /\ kind[d] \in {"direct", "group"}
      <4>1. CASE d = c /\ u \in new
        BY <1>3, <4>1 DEF Exists
      <4>2. CASE ~(d = c /\ u \in new)
        BY <2>6, <3>2, <4>2, Rows
      <4> QED
        BY <4>1, <4>2
    <3> QED
      BY <1>3, <3>1, <3>2, Rows DEF RowsAre
  <2>8. ListInv'
    <3>1. CASE c \in Chats /\ Me \in new
      <4>1. Tells(requests[q])'
        BY <1>1, <2>1, <2>2, <2>5, <2>6, <3>1, MeIsUser DEF Tells, Members, Removals
      <4> QED
        BY <1>3, <4>1, Arranged DEF IInv, client, Coming
    <3>2. CASE ~(c \in Chats /\ Me \in new)
      <4>1. \A d \in Chats : role'[d][Me] # "none" <=> role[d][Me] # "none"
        BY <2>6, <3>2, MeIsUser
      <4> QED
        BY <1>3, <2>5, <4>1, StillComing, SameList DEF IInv, client
    <3> QED
      BY <3>1, <3>2
  <2> QED
    BY Zenon, <1>3, <2>5, <2>7, <2>8, ServerStep DEF IInv, TypeOK, client
<1> QED
  BY <1>2, <1>3 DEF Add

\* What Drop and a removal do to rows.
LEMMA Dropped ==
  ASSUME IInv, NEW cs, Drop(cs)
  PROVE  /\ kind' \in [Chats -> {"none", "direct", "group", "gone"}]
         /\ role' \in [Chats -> [Users -> Roles]]
         /\ \A c \in Chats : IF c \in cs THEN \A u \in Users : role'[c][u] = "none"
                                         ELSE role'[c] = role[c] /\ kind'[c] = kind[c]
BY Rows DEF Drop, Roles

\* What the rows are after who has left c.
LEMMA RowsLeave ==
  ASSUME IInv, NEW c, NEW who,
         role' = [role EXCEPT ![c] = [u \in Users |-> IF u \in who THEN "none" ELSE @[u]]]
  PROVE  /\ role' \in [Chats -> [Users -> Roles]]
         /\ \A d \in Chats : d # c => role'[d] = role[d]
         /\ c \in Chats =>
              \A u \in Users : role'[c][u] = IF u \in who THEN "none" ELSE role[c][u]
<1>1. role \in [Chats -> [Users -> Roles]] /\ "none" \in Roles
  BY Rows DEF Roles
<1>2. CASE c \in Chats
  <2> DEFINE left == [u \in Users |-> IF u \in who THEN "none" ELSE role[c][u]]
  <2>1. role' = [role EXCEPT ![c] = left]
    BY <1>2
  <2>2. left \in [Users -> Roles]
    BY <1>1, <1>2
  <2>3. \A u \in Users : left[u] = IF u \in who THEN "none" ELSE role[c][u]
    OBVIOUS
  <2> HIDE DEF left
  <2> QED
    BY <1>1, <1>2, <2>1, <2>2, <2>3
<1>3. CASE c \notin Chats
  <2> DEFINE left == [u \in Users |-> IF u \in who THEN "none" ELSE role[c][u]]
  <2>1. role' = [role EXCEPT ![c] = left]
    OBVIOUS
  <2> HIDE DEF left
  <2> QED
    BY ZenonT(120), <1>1, <1>3, <2>1
<1> QED
  BY <1>2, <1>3

\* newest and astray, and the types they keep.
LEMMA AstrayIs ==
  ASSUME IInv, NEW unsaid \in BOOLEAN, Astray(unsaid)
  PROVE  newest' \in BOOLEAN /\ astray' \in BOOLEAN
BY DEF IInv, TypeOK, Astray

\* When Me's row goes and nobody says so, the list is astray.
LEMMA GoneAstray ==
  ASSUME NEW unsaid, unsaid, Astray(unsaid)
  PROVE  ListInv'
BY Zenon DEF Astray, ListInv

\* When it was said, or Me keeps the row, nothing goes astray.
LEMMA NotAstray ==
  ASSUME IInv, NEW unsaid, ~unsaid, Astray(unsaid)
  PROVE  UNCHANGED <<newest, astray>>
BY DEF IInv, TypeOK, Astray

LEMMA CommitRemovalStep == ASSUME IInv, NEW q \in Requests, CommitRemoval(q) PROVE IInv'
<1> DEFINE r == requests[q]
           c == r.chat
           n == [r EXCEPT !.step = "committed"]
           unsaid == Me \in Members(c) /\ r.missed /\ (r.last \/ Me \in r.who)
<1>1. /\ r # None /\ r.step = "deleted" /\ r.op \in Removals /\ r \in Request /\ RequestOK(r)
      /\ UNCHANGED <<users, swept, asked, news, loads, list, info>>
      /\ Astray(unsaid) /\ unsaid \in BOOLEAN /\ Passes(q, n)
  BY DEF CommitRemoval, Now, IInv, TypeOK, Opt, Removals, Step
<1>2. n \in Request /\ n.step = "committed" /\ n.op = r.op /\ n.told = r.told
  BY ZenonT(120), <1>1, WithStep DEF Steps
<1> HIDE DEF n
<1>3. RequestOK(n)
  BY <1>1, <1>2 DEF RequestOK, Removals
<1>4. RequestsAre /\ Keeps /\ requests'[q] = n /\ requests'[q] # None
  BY <1>1, <1>2, <1>3, PassesKeeps
<1>5. /\ kind' \in [Chats -> {"none", "direct", "group", "gone"}]
      /\ role' \in [Chats -> [Users -> Roles]]
      /\ \A d \in Chats :
           \/ role'[d] = role[d] /\ kind'[d] = kind[d]
           \/ d = c /\ r.last /\ \A u \in Users : role'[d][u] = "none"
           \/ /\ d = c /\ kind'[d] = kind[d]
              /\ \A u \in Users : role'[d][u] = IF u \in r.who THEN "none" ELSE role[d][u]
  <2>1. CASE r.last /\ Drop({c})
    BY <2>1, Dropped
  <2>2. CASE /\ role' = [role EXCEPT ![c] = [u \in Users |-> IF u \in r.who THEN "none" ELSE @[u]]]
             /\ UNCHANGED kind
    <3>1. /\ role' \in [Chats -> [Users -> Roles]]
          /\ \A d \in Chats : d # c => role'[d] = role[d]
          /\ c \in Chats =>
               \A u \in Users : role'[c][u] = IF u \in r.who THEN "none" ELSE role[c][u]
      <4> HIDE DEF c, r
      <4> QED
        BY Zenon, <2>2, RowsLeave
    <3>2. kind \in [Chats -> {"none", "direct", "group", "gone"}]
      BY Rows
    <3> HIDE DEF c, r
    <3> QED
      BY <2>2, <3>1, <3>2
  <2> QED
    BY <2>1, <2>2 DEF CommitRemoval
<1>6. RowsAre
  BY <1>1, <1>5, Rows DEF RowsAre
<1>7. newest' \in BOOLEAN /\ astray' \in BOOLEAN
  BY Zenon, <1>1, AstrayIs
<1>8. ListInv'
  <2>1. CASE unsaid
    BY Zenon, <1>1, <2>1, GoneAstray
  <2>2. CASE ~unsaid /\ \A d \in Chats : role'[d][Me] # "none" <=> role[d][Me] # "none"
    BY Zenon, <1>1, <1>4, <2>2, NotAstray, StillComing, SameList DEF IInv
  <2>3. CASE ~unsaid /\ ~\A d \in Chats : role'[d][Me] # "none" <=> role[d][Me] # "none"
    <3>1. Me \in Members(c) /\ (r.last \/ Me \in r.who)
      BY <1>5, <2>3, MeIsUser DEF Members
    <3>2. Me \in r.told
      BY <1>1, <2>3, <3>1 DEF RequestOK
    <3>3. Tells(requests[q])'
      BY <1>1, <1>2, <1>4, <3>2 DEF Tells
    <3> QED
      BY Zenon, <1>1, <2>3, <3>3, NotAstray, Arranged DEF IInv, Coming
  <2> QED
    BY <2>1, <2>2, <2>3
<1> QED
  BY Zenon, <1>1, <1>4, <1>6, <1>7, <1>8, ServerStep DEF IInv, TypeOK

LEMMA PublishStep == ASSUME IInv, NEW q \in Requests, Publish(q) PROVE IInv'
<1> DEFINE r == requests[q]
           to == IF r.op \in {"remove", "leave"} THEN r.told ELSE Members(r.chat)
           o == Out(r.chat, r.admin)
           n == [r EXCEPT !.step = "answered", !.out = o]
<1>1. /\ r # None /\ r \in Request /\ r.admin \in BOOLEAN
      /\ news' = IF Me \in to THEN news + 1 ELSE news
      /\ Passes(q, n) /\ UNCHANGED <<server, asked, loads, list, info, newest, astray>>
  BY DEF Publish, Now, IInv, TypeOK, Opt, Request
<1>2. n \in Request /\ n.step = "answered" /\ n.out # None
  <2>1. o \in Shown
    BY <1>1 DEF Out, Shown, Members
  <2> HIDE DEF o
  <2> QED
    BY ZenonT(120), <1>1, <2>1, WithOut DEF Steps
<1> HIDE DEF n
<1>3. RequestOK(n)
  BY <1>2 DEF RequestOK
<1>4. RequestsAre /\ \A p \in Requests \ {q} : requests'[p] = requests[p]
  BY <1>1, <1>2, <1>3, Passing DEF IInv, TypeOK, RequestsAre
<1>5. news \in Nat /\ newest \in BOOLEAN /\ astray \in BOOLEAN
  BY DEF IInv, TypeOK
<1>6. RowsAre
  BY <1>1, Rows DEF RowsAre, server
<1>7. Coming => Coming'
  <2>1. CASE Me \in to
    BY <1>1, <1>5, <2>1 DEF Coming
  <2>2. CASE Me \notin to
    <3>1. ~Tells(r)
      BY <2>2 DEF Tells, Removals
    <3>2. \A p \in Requests : Tells(requests[p]) => Tells(requests[p])'
      BY <1>1, <1>4, <3>1 DEF Tells, Members, server
    <3> QED
      BY <1>1, <2>2, <3>2 DEF Coming
  <2> QED
    BY <2>1, <2>2
<1>8. ListInv'
  BY <1>1, <1>7, SameList DEF IInv, server
<1> QED
  BY <1>1, <1>4, <1>5, <1>6, <1>8, ServerStep

LEMMA DeleteAccountStep == ASSUME IInv, NEW u \in Users, DeleteAccount(u) PROVE IInv'
<1>1. /\ u # Me /\ users' = users \ {u}
      /\ role' = [c \in Chats |-> [role[c] EXCEPT ![u] = "none"]]
      /\ UNCHANGED <<kind, swept, requests, asked, client>>
  BY DEF DeleteAccount
<1>2. \A c \in Chats : \A v \in Users : role'[c][v] = IF v = u THEN "none" ELSE role[c][v]
  BY <1>1, Rows
<1>3. role' \in [Chats -> [Users -> Roles]]
  BY <1>1, Rows DEF Roles
<1>4. RowsAre
  BY <1>1, <1>2, <1>3, Rows DEF RowsAre
<1>5. RequestsAre /\ Keeps
  BY <1>1 DEF IInv, TypeOK, RequestsAre, Keeps
<1>6. ListInv'
  BY <1>1, <1>2, <1>5, MeIsUser, StillComing, SameList DEF IInv, client
<1> QED
  BY Zenon, <1>1, <1>4, <1>5, <1>6, ServerStep DEF IInv, TypeOK, client

LEMMA SweepStep == ASSUME IInv, SweepFinds \/ SweepDeletes PROVE IInv'
<1>1. CASE SweepFinds
  <2>1. UNCHANGED <<users, kind, role, requests, asked, client>> /\ swept' \subseteq Chats
    BY <1>1 DEF SweepFinds
  <2>2. RowsAre /\ RequestsAre /\ Keeps
    BY Zenon, <2>1, Rows DEF RowsAre, IInv, TypeOK, RequestsAre, Keeps
  <2>3. ListInv'
    BY <2>1, <2>2, StillComing, SameList DEF IInv, client
  <2> QED
    BY Zenon, <2>1, <2>2, <2>3, ServerStep DEF IInv, TypeOK, client
<1>2. CASE SweepDeletes
  <2> DEFINE unsaid == \E c \in swept : role[c][Me] # "none"
  <2>1. /\ Drop(swept) /\ Astray(unsaid) /\ unsaid \in BOOLEAN /\ swept' = {}
        /\ UNCHANGED <<users, requests, asked, news, loads, list, info>>
    BY Zenon, <1>2 DEF SweepDeletes
  <2>2. RowsAre
    BY <2>1, Dropped, Rows DEF RowsAre
  <2>3. RequestsAre /\ Keeps
    BY <2>1 DEF IInv, TypeOK, RequestsAre, Keeps
  <2>4. ListInv'
    <3>1. CASE unsaid
      BY Zenon, <2>1, <3>1, GoneAstray
    <3>2. CASE ~unsaid
      <4>1. \A d \in Chats : role'[d][Me] # "none" <=> role[d][Me] # "none"
        BY <2>1, <3>2, Dropped, Rows, MeIsUser
      <4> QED
        BY Zenon, <2>1, <2>3, <3>2, <4>1, NotAstray, StillComing, SameList DEF IInv
    <3> QED
      BY <3>1, <3>2
  <2> QED
    BY Zenon, <2>1, <2>2, <2>3, <2>4, AstrayIs, ServerStep DEF IInv, TypeOK
<1> QED
  BY <1>1, <1>2

-----------------------------------------------------------------------------
(* Me's list *)

\* What comes after the first sequence is of the second.
LEMMA Concatenated ==
  ASSUME NEW T, NEW s \in Seq(T), NEW t \in Seq(T), NEW k \in 1 .. (Len(s) + Len(t)), ~(k <= Len(s))
  PROVE  (s \o t)[k] = t[k - Len(s)]
OBVIOUS

\* What is left of the loads without the i-th.
LEMMA Removed ==
  ASSUME NEW T, NEW s \in Seq(T), NEW i \in DOMAIN s
  PROVE  /\ RemoveAt(s, i) \in Seq(T) /\ Len(RemoveAt(s, i)) = Len(s) - 1
         /\ i < Len(s) => RemoveAt(s, i)[Len(s) - 1] = s[Len(s)]
<1> DEFINE a == SubSeq(s, 1, i - 1)
           b == SubSeq(s, i + 1, Len(s))
<1>1. i \in 1 .. Len(s) /\ Len(s) \in Nat
  OBVIOUS
<1>2. a \in Seq(T) /\ Len(a) = i - 1
  BY <1>1
<1>3. b \in Seq(T) /\ Len(b) = Len(s) - i /\ \A k \in 1 .. (Len(s) - i) : b[k] = s[k + i]
  BY <1>1
<1>4. RemoveAt(s, i) = a \o b
  BY DEF RemoveAt
<1> HIDE DEF a, b
<1>5. RemoveAt(s, i) \in Seq(T) /\ Len(RemoveAt(s, i)) = Len(s) - 1
  BY <1>1, <1>2, <1>3, <1>4
<1>6. ASSUME NEW k \in 1 .. (Len(s) - 1), i <= k PROVE RemoveAt(s, i)[k] = s[k + 1]
  <2>1. /\ k \in 1 .. (Len(a) + Len(b)) /\ ~(k <= Len(a))
        /\ k - Len(a) \in 1 .. (Len(s) - i)
    BY <1>1, <1>2, <1>3, <1>6
  <2>2. (k - Len(a)) + i = k + 1
    BY <1>1, <1>2
  <2>3. b[k - Len(a)] = s[k + 1]
    BY <1>3, <2>1, <2>2
  <2>4. (a \o b)[k] = b[k - Len(a)]
    BY Zenon, <1>2, <1>3, <2>1, Concatenated
  <2> QED
    BY <1>4, <2>3, <2>4
<1>7. i < Len(s) => Len(s) - 1 \in 1 .. (Len(s) - 1) /\ i <= Len(s) - 1 /\ (Len(s) - 1) + 1 = Len(s)
  BY <1>1
<1> QED
  BY <1>5, <1>6, <1>7

List == Opt(SUBSET Users)

\* A step of Me's client that leaves server and requests alone.
LEMMA ClientStep ==
  ASSUME IInv, UNCHANGED <<server, requests, asked, news, info>>,
         loads' \in Seq(Opt([Chats -> List])), Len(loads') <= MaxLoads,
         list' \in [Chats -> List], newest' \in BOOLEAN, astray' \in BOOLEAN, ListInv'
  PROVE  IInv'
<1>1. TypeOK'
  BY Zenon DEF IInv, TypeOK, server, List, Exists, Members
<1> QED
  BY <1>1 DEF IInv

\* What is on its way stays so while requests, rows and news do not change.
LEMMA StaysComing ==
  ASSUME UNCHANGED <<server, requests, news>>
  PROVE  (Coming <=> Coming') /\ \A l : Agrees(l) <=> Agrees(l)'
BY DEF Coming, Tells, Members, Agrees, server

LEMMA ServeListStep == ASSUME IInv, NEW i \in DOMAIN loads, ServeList(i) PROVE IInv'
<1> DEFINE l == [c \in Chats |-> IF role[c][Me] # "none" THEN Members(c) ELSE None]
<1>1. /\ loads' = [loads EXCEPT ![i] = l]
      /\ UNCHANGED <<server, requests, asked, news, list, info, newest, astray>>
  BY DEF ServeList
<1>2. l \in [Chats -> List] /\ Agrees(l)
  BY NoneIsNothing DEF List, Opt, Members, Agrees
<1> HIDE DEF l
<1>3. loads \in Seq(Opt([Chats -> List])) /\ Len(loads) <= MaxLoads /\ list \in [Chats -> List]
  BY Zenon DEF IInv, TypeOK, List
<1>4. /\ loads' \in Seq(Opt([Chats -> List])) /\ Len(loads') = Len(loads)
      /\ loads' # <<>> /\ i \in 1 .. Len(loads)
      /\ \A j \in 1 .. Len(loads) : loads'[j] = IF j = i THEN l ELSE loads[j]
  BY <1>1, <1>2, <1>3 DEF Opt
<1>5. Len(loads) \in 1 .. Len(loads)
  BY <1>3, <1>4
<1>6. ListInv'
  BY <1>1, <1>2, <1>4, <1>5, StaysComing DEF IInv, ListInv
<1> QED
  BY Zenon, <1>1, <1>3, <1>4, <1>6, ClientStep DEF IInv, TypeOK

\* What remains after one of the loads is over.
LEMMA LoadEnds ==
  ASSUME IInv, NEW i \in DOMAIN loads, loads' = RemoveAt(loads, i)
  PROVE  /\ loads' \in Seq(Opt([Chats -> List])) /\ Len(loads') <= MaxLoads
         /\ i \in 1 .. Len(loads) /\ loads[i] \in Opt([Chats -> List])
         /\ i < Len(loads) => loads' # <<>> /\ loads'[Len(loads')] = loads[Len(loads)]
<1>1. loads \in Seq(Opt([Chats -> List])) /\ Len(loads) <= MaxLoads /\ Len(loads) \in Nat
  BY DEF IInv, TypeOK, List
<1>2. /\ loads' \in Seq(Opt([Chats -> List])) /\ Len(loads') = Len(loads) - 1
      /\ i < Len(loads) => loads'[Len(loads) - 1] = loads[Len(loads)]
  BY <1>1, Removed
<1> QED
  BY <1>1, <1>2, BoundsAreNumbers

LEMMA ListArrivesStep == ASSUME IInv, NEW i \in DOMAIN loads, ListArrives(i) PROVE IInv'
<1>1. /\ loads[i] # None /\ list' = loads[i] /\ loads' = RemoveAt(loads, i)
      /\ newest' <=> newest /\ i < Len(loads)
      /\ ~newest => astray'
      /\ UNCHANGED <<server, requests, asked, news, info>>
  BY Zenon DEF ListArrives
<1>2. /\ loads' \in Seq(Opt([Chats -> List])) /\ Len(loads') <= MaxLoads
      /\ i \in 1 .. Len(loads) /\ list' \in [Chats -> List]
      /\ i < Len(loads) => loads' # <<>> /\ loads'[Len(loads')] = loads[Len(loads)]
  BY <1>1, LoadEnds DEF Opt
<1>3. newest' \in BOOLEAN /\ astray' \in BOOLEAN /\ Len(loads) \in Nat
  <2>1. newest' \in BOOLEAN /\ astray' \in BOOLEAN
    BY Zenon DEF ListArrives
  <2>2. Len(loads) \in Nat
    BY DEF IInv, TypeOK
  <2> QED
    BY <2>1, <2>2
<1>4. ListInv'
  <2>1. CASE newest /\ i = Len(loads)
    <3>1. Agrees(list') \/ Coming
      BY <1>1, <2>1 DEF IInv, ListInv
    <3>2. ~(i < Len(loads))
      BY <1>3, <2>1
    <3> QED
      BY <1>1, <3>1, <3>2, StaysComing DEF ListInv
  <2>2. CASE newest /\ i # Len(loads)
    <3>1. i < Len(loads)
      BY <1>2, <1>3, <2>2
    <3> QED
      BY <1>1, <1>2, <2>2, <3>1, StaysComing DEF IInv, ListInv
  <2>3. CASE ~newest
    BY <1>1, <2>3 DEF ListInv
  <2> QED
    BY <2>1, <2>2, <2>3
<1> QED
  BY <1>1, <1>2, <1>3, <1>4, ClientStep

LEMMA ListFailsStep == ASSUME IInv, NEW i \in DOMAIN loads, ListFails(i) PROVE IInv'
<1>1. /\ loads' = RemoveAt(loads, i)
      /\ newest' <=> newest /\ i < Len(loads)
      /\ astray' <=> astray \/ (newest /\ i = Len(loads))
      /\ UNCHANGED <<server, requests, asked, news, list, info>>
  BY Zenon DEF ListFails
<1>2. /\ loads' \in Seq(Opt([Chats -> List])) /\ Len(loads') <= MaxLoads /\ i \in 1 .. Len(loads)
      /\ i < Len(loads) => loads' # <<>> /\ loads'[Len(loads')] = loads[Len(loads)]
  BY Zenon, <1>1, LoadEnds
<1>3. /\ newest' \in BOOLEAN /\ astray' \in BOOLEAN
      /\ list \in [Chats -> List] /\ Len(loads) \in Nat
  <2>1. newest' \in BOOLEAN /\ astray' \in BOOLEAN
    BY Zenon DEF ListFails
  <2>2. list \in [Chats -> List]
    BY Zenon DEF IInv, TypeOK, List
  <2>3. Len(loads) \in Nat
    BY DEF IInv, TypeOK
  <2> QED
    BY <2>1, <2>2, <2>3
<1>4. ListInv'
  <2>1. CASE newest /\ i = Len(loads)
    <3>1. ~(i < Len(loads))
      BY <1>3, <2>1
    <3> QED
      BY <1>1, <2>1, <3>1 DEF ListInv
  <2>2. CASE newest /\ i # Len(loads)
    <3>1. i < Len(loads)
      BY <1>2, <1>3, <2>2
    <3> QED
      BY <1>1, <1>2, <2>2, <3>1, StaysComing DEF IInv, ListInv
  <2>3. CASE ~newest
    BY <1>1, <2>3, StaysComing DEF IInv, ListInv
  <2> QED
    BY <2>1, <2>2, <2>3
<1> QED
  BY <1>1, <1>2, <1>3, <1>4, ClientStep

LEMMA HearStep == ASSUME IInv, Hear \/ Refresh PROVE IInv'
<1>1. RequestsAre /\ InfoIs /\ asked' \in 0..MaxAsked /\ news' \in Nat
  BY DEF Hear, Refresh, IInv, TypeOK, RequestsAre, InfoIs
<1> QED
  BY <1>1, Reloading DEF Hear, Refresh

-----------------------------------------------------------------------------
(* New requests *)

\* A request of Me's or of another client begins.
LEMMA Asks ==
  ASSUME IInv, NEW q \in Requests, Free(q), NEW op \in Ops, NEW by \in Users,
         NEW chat \in Opt(Chats), NEW who \in SUBSET Users,
         NEW from \in {"page", "left", "list", "sheet", "elsewhere"},
         Ask(q, Asking(op, by, chat, who, from)), asked' \in 0..MaxAsked, InfoIs,
         UNCHANGED <<server, news, loads, list, newest, astray>>
  PROVE  IInv'
<1> DEFINE r == Asking(op, by, chat, who, from)
<1>1. r \in Request /\ r.step = "asked"
  BY AskingIs
<1>2. requests' = [requests EXCEPT ![q] = r]
  BY DEF Ask
<1> HIDE DEF r
<1>3. RequestOK(r)
  BY <1>1 DEF RequestOK
<1>4. RequestsAre /\ Keeps
  BY <1>1, <1>2, <1>3 DEF IInv, TypeOK, RequestsAre, Keeps, Free, Opt
<1> QED
  BY <1>4, Quietly

\* ... one that counts as a change.
LEMMA Changes ==
  ASSUME IInv, NEW q \in Requests, NEW op \in Ops, NEW by \in Users,
         NEW chat \in Opt(Chats), NEW who \in SUBSET Users,
         NEW from \in {"page", "left", "list", "sheet", "elsewhere"},
         Change(q, Asking(op, by, chat, who, from)), UNCHANGED <<server, client>>
  PROVE  IInv'
<1>1. asked' \in 0..MaxAsked /\ InfoIs
  BY BoundsAreNumbers DEF Change, IInv, TypeOK, InfoIs, client
<1> QED
  BY <1>1, Asks DEF Change, client

LEMMA ElsewhereStep == ASSUME IInv, NEW q \in Requests, AskElsewhere(q) PROVE IInv'
<1>1. PICK u \in users : \E v \in Users \ {u} :
       \/ Change(q, Asking("direct", u, None, {v}, "elsewhere"))
       \/ Change(q, Asking("group", u, None, {v}, "elsewhere"))
       \/ \E c \in {c \in Chats : kind[c] # "none"} :
            \/ \E op \in {"add", "remove"} : Change(q, Asking(op, u, c, {v}, "elsewhere"))
            \/ Change(q, Asking("leave", u, c, {u}, "elsewhere"))
            \/ \E op \in Settings : Change(q, Asking(op, u, c, {}, "elsewhere"))
  BY Zenon DEF AskElsewhere
<1>2. u \in Users /\ UNCHANGED <<server, client>>
  BY Rows DEF AskElsewhere
<1> QED
  BY <1>1, <1>2, Changes DEF Ops, Settings, Opt

\* Changes that are begun from the list: by its sheets, and by a swipe.
LEMMA SheetStep ==
  ASSUME IInv, NEW q \in Requests,
         BeginChat(q) \/ BeginGroup(q) \/ \E c \in Chats : SwipeDelete(q, c)
  PROVE  IInv'
BY Zenon, Changes, MeIsUser DEF BeginChat, BeginGroup, SwipeDelete, Ops, Opt

\* The requests of the page ChatInfo.
LEMMA FromInfoStep ==
  ASSUME IInv, NEW q \in Requests, NEW op \in Ops, NEW who \in SUBSET Users, FromInfo(q, op, who)
  PROVE  IInv'
<1>1. info.at \in Opt(Chats)
  BY DEF IInv, TypeOK
<1> QED
  BY <1>1, Changes, MeIsUser DEF FromInfo

LEMMA OpenInfoStep == ASSUME IInv, NEW q \in Requests, NEW c \in Chats, OpenInfo(q, c) PROVE IInv'
<1>1. InfoIs /\ asked' \in 0..MaxAsked
  BY DEF OpenInfo, IInv, TypeOK, InfoIs, Closed, Opt
<1> QED
  BY <1>1, Asks, MeIsUser DEF OpenInfo, Ops, Opt

LEMMA CloseInfoStep == ASSUME IInv, CloseInfo PROVE IInv'
<1>1. InfoIs /\ asked' \in 0..MaxAsked
  BY DEF CloseInfo, IInv, TypeOK, InfoIs, Closed, Opt
<1>2. RequestsAre /\ Keeps
  BY LeavingIs DEF CloseInfo, IInv, TypeOK, RequestsAre, Keeps
<1> QED
  BY <1>1, <1>2, Quietly DEF CloseInfo

LEMMA TapStep == ASSUME IInv, NEW q \in Requests, Tap(q) PROVE IInv'
<1>1. ASSUME NEW op \in Ops, NEW who \in SUBSET Users, FromInfo(q, op, who) PROVE IInv'
  BY <1>1, FromInfoStep
<1>2. \A op \in {"rename", "retention", "disappearing", "prefs", "clear"} :
        FromInfo(q, op, {}) => IInv'
  BY <1>1 DEF Ops, Settings
<1>3. \A v \in Users : \A op \in {"remove", "add", "leave"} : FromInfo(q, op, {v}) => IInv'
  BY <1>1 DEF Ops
<1>4. Rename(q) \/ SetRetention(q) \/ SetDisappearing(q) \/ TogglePref(q) \/ ClearHistory(q)
        => IInv'
  BY <1>2 DEF Rename, SetRetention, SetDisappearing, TogglePref, ClearHistory
<1>5. RemoveMember(q) \/ AddMember(q) \/ LeaveGroup(q) => IInv'
  BY Zenon, <1>3, MeIsUser DEF RemoveMember, AddMember, LeaveGroup
<1> QED
  BY <1>4, <1>5, SheetStep, OpenInfoStep, CloseInfoStep DEF Tap

-----------------------------------------------------------------------------
(* What the client does with answers. *)

\* An answer that is taken is over, and it was not a change still to be published.
LEMMA Taken ==
  ASSUME IInv, NEW q \in Requests, requests[q] = None \/ requests[q].step # "committed"
  PROVE  LET rs == [requests EXCEPT ![q] = None]
         IN /\ requests' = rs => RequestsAre /\ Keeps
            /\ requests' = Leaving(rs) => RequestsAre /\ Keeps
<1> DEFINE rs == [requests EXCEPT ![q] = None]
<1>1. rs \in [Requests -> Opt(Request)] /\ \A p \in Requests : RequestOK(rs[p])
  BY DEF IInv, TypeOK, Opt, RequestOK
<1>2. \A p \in Requests :
        requests[p] # None /\ requests[p].step = "committed" => rs[p] = requests[p]
  BY DEF IInv, TypeOK
<1> HIDE DEF rs
<1>3. requests' = rs => RequestsAre /\ Keeps
  BY <1>1, <1>2 DEF RequestsAre, Keeps
<1>4. requests' = Leaving(rs) => RequestsAre /\ Keeps
  BY <1>1, <1>2, LeavingIs DEF RequestsAre, Keeps
<1> QED
  BY <1>3, <1>4 DEF rs

\* The page is left for the list, which is loaded again.
LEMMA GoHomeStep ==
  ASSUME IInv, NEW q \in Requests, requests[q] # None, requests[q].step # "committed",
         GoHome(q), UNCHANGED <<server, asked, news, list, astray>>
  PROVE  IInv'
<1>1. RequestsAre /\ Keeps
  BY Taken DEF GoHome
<1>2. InfoIs /\ asked' \in 0..MaxAsked /\ news' \in Nat
  BY DEF GoHome, IInv, TypeOK, InfoIs, Closed, Opt
<1>3. CASE UNCHANGED <<loads, newest>>
  BY <1>1, <1>2, <1>3, Quietly
<1>4. CASE Reload
  BY <1>1, <1>2, <1>4, Reloading
<1> QED
  BY <1>3, <1>4 DEF GoHome

LEMMA HomeStep == ASSUME IInv, NEW q \in Requests, InfoFails(q) \/ LeaveDone(q) PROVE IInv'
BY GoHomeStep DEF InfoFails, LeaveDone, Mine, Now

LEMMA InfoArrivesStep == ASSUME IInv, NEW q \in Requests, InfoArrives(q) PROVE IInv'
<1>1. /\ requests[q] # None /\ requests[q].step = "answered"
      /\ requests' = [requests EXCEPT ![q] = None]
      /\ UNCHANGED <<server, asked, news, loads, list, newest, astray>>
  BY DEF InfoArrives, Mine, Now
<1>2. requests[q].out \in Opt(Shown)
  BY <1>1 DEF IInv, TypeOK, Opt, Request
<1>3. InfoIs /\ asked' \in 0..MaxAsked
  BY Zenon, <1>1, <1>2 DEF InfoArrives, IInv, TypeOK, InfoIs
<1> QED
  BY Zenon, <1>1, <1>3, Taken, Quietly

LEMMA ManageDoneStep == ASSUME IInv, NEW q \in Requests, ManageDone(q) PROVE IInv'
<1> DEFINE r == requests[q]
           n == Asking("info", Me, r.chat, {}, r.from)
<1>1. r # None /\ r \in Request /\ r.step = "answered" /\ UNCHANGED <<server, asked, client>>
  BY DEF ManageDone, Mine, Now, IInv, TypeOK, Opt
<1>2. requests' = [requests EXCEPT ![q] = n]
  BY DEF ManageDone, Ask
<1>3. n \in Request /\ n.step = "asked"
  BY <1>1, AskingIs, MeIsUser DEF Request, Ops
<1> HIDE DEF n
<1>4. RequestOK(n)
  BY <1>3 DEF RequestOK
<1>5. RequestsAre /\ Keeps
  BY <1>1, <1>2, <1>3, <1>4 DEF IInv, TypeOK, RequestsAre, Keeps, Opt
<1>6. InfoIs /\ asked' \in 0..MaxAsked
  BY <1>1 DEF IInv, TypeOK, InfoIs, client
<1> QED
  BY <1>1, <1>5, <1>6, Quietly DEF client

\* The list changes, but not what it lacks of Me's conversations, or it is astray.
LEMMA ListStep ==
  ASSUME IInv, UNCHANGED <<server, asked, news, loads, info, newest>>, RequestsAre, Keeps,
         list' \in [Chats -> List], astray' \in BOOLEAN,
         astray => astray', ~astray' /\ Agrees(list) => Agrees(list')
  PROVE  IInv'
<1>1. TypeOK'
  BY Zenon DEF IInv, TypeOK, server, RequestsAre, List, Exists, Members
<1>2. Coming => Coming'
  BY StillComing DEF server
<1>3. \A l : Agrees(l) <=> Agrees(l)'
  BY DEF Agrees, server
<1>4. ListInv'
  BY <1>2, <1>3 DEF IInv, ListInv
<1> QED
  BY <1>1, <1>4 DEF IInv, RequestsAre

LEMMA SwipeDoneStep == ASSUME IInv, NEW q \in Requests, SwipeDone(q) PROVE IInv'
<1> DEFINE c == requests[q].chat
           back == role[c][Me] # "none"
<1>1. /\ requests[q] # None /\ requests[q].step = "answered"
      /\ list' = [list EXCEPT ![c] = None]
      /\ astray' = (astray \/ back)
      /\ requests' = [requests EXCEPT ![q] = None]
      /\ UNCHANGED <<server, asked, news, loads, info, newest>>
  BY DEF SwipeDone, Mine, Now
<1>2. list' \in [Chats -> List] /\ astray' \in BOOLEAN /\ (astray => astray')
  BY Zenon, <1>1 DEF IInv, TypeOK, List, Opt
<1>3. ASSUME ~astray', Agrees(list) PROVE Agrees(list')
  BY Zenon, <1>1, <1>3 DEF Agrees, IInv, TypeOK
<1>4. RequestsAre /\ Keeps
  BY Zenon, <1>1, Taken
<1> QED
  BY <1>1, <1>2, <1>3, <1>4, ListStep

LEMMA PrefsDoneStep == ASSUME IInv, NEW q \in Requests, PrefsDone(q) PROVE IInv'
<1> DEFINE r == requests[q]
           c == r.chat
           ms == r.out.members
<1>1. /\ r # None /\ r \in Request /\ r.op = "prefs" /\ r.step = "answered" /\ RequestOK(r)
      /\ list' = IF list[c] # None THEN [list EXCEPT ![c] = ms] ELSE list
      /\ requests' = [requests EXCEPT ![q] = None]
      /\ UNCHANGED <<server, asked, news, loads, info, newest, astray>>
  BY DEF PrefsDone, Mine, Now, IInv, TypeOK, Opt
<1>2. ms \in SUBSET Users /\ ms # None
  BY <1>1, NoneIsNothing DEF RequestOK, Request, Shown, Opt
<1>3. list' \in [Chats -> List] /\ astray' \in BOOLEAN
  BY Zenon, <1>1, <1>2 DEF IInv, TypeOK, List, Opt
<1>4. ASSUME Agrees(list) PROVE Agrees(list')
  BY <1>1, <1>2, <1>4 DEF Agrees, IInv, TypeOK
<1>5. RequestsAre /\ Keeps
  BY Zenon, <1>1, Taken
<1> QED
  BY <1>1, <1>3, <1>4, <1>5, ListStep

\* The remaining answers.
LEMMA OtherAnswers ==
  ASSUME IInv, NEW q \in Requests, ClearDone(q) \/ BeginDone(q) \/ ChangeFails(q)
  PROVE  IInv'
<1>1. /\ requests[q] # None /\ requests[q].step # "committed"
      /\ InfoIs /\ asked' \in 0..MaxAsked /\ news' \in Nat
  BY DEF ClearDone, BeginDone, ChangeFails, Mine, Now, IInv, TypeOK, InfoIs, Closed, Opt,
         client
<1>2. RequestsAre /\ Keeps
  BY <1>1, Taken DEF ClearDone, BeginDone, ChangeFails
<1>3. CASE ClearDone(q) \/ ChangeFails(q)
  BY <1>1, <1>2, <1>3, Quietly DEF ClearDone, ChangeFails, client
<1>4. CASE BeginDone(q)
  BY <1>1, <1>2, <1>4, Reloading DEF BeginDone
<1> QED
  BY <1>3, <1>4

-----------------------------------------------------------------------------
\* The initial states satisfy the invariant.
LEMMA InitInv == Init => IInv
<1> SUFFICES ASSUME Init PROVE IInv
  OBVIOUS
<1>1. loads = <<None>> /\ loads \in Seq(Opt([Chats -> Opt(SUBSET Users)])) /\ Len(loads) = 1
  BY DEF Init, Opt
<1>2. TypeOK
  <2>1. /\ users \subseteq Users /\ swept \subseteq Chats
        /\ kind \in [Chats -> {"none", "direct", "group", "gone"}]
        /\ role \in [Chats -> [Users -> Roles]]
    BY DEF Init, Roles
  <2>2. requests \in [Requests -> Opt(Request)]
    BY DEF Init, Opt
  <2>3. asked \in 0..MaxAsked /\ news \in Nat /\ Len(loads) <= MaxLoads
    BY <1>1, BoundsAreNumbers DEF Init
  <2>4. /\ list \in [Chats -> Opt(SUBSET Users)]
        /\ info \in [at : Opt(Chats), shown : Opt(Shown)]
    BY DEF Init, Opt, Closed
  <2>5. newest \in BOOLEAN /\ astray \in BOOLEAN
    BY Zenon DEF Init
  <2>6. ASSUME NEW c \in Chats PROVE Members(c) \subseteq IF Exists(c) THEN users ELSE {}
    BY DEF Init, Members
  <2> QED
    BY Zenon, <1>1, <2>1, <2>2, <2>3, <2>4, <2>5, <2>6 DEF TypeOK
<1>3. ListInv
  BY <1>1 DEF Init, ListInv
<1> QED
  BY <1>2, <1>3 DEF Init, IInv, RequestOK

\* Every step keeps the invariant.
LEMMA StepInv == IInv /\ [Next]_vars => IInv'
<1> SUFFICES ASSUME IInv, [Next]_vars PROVE IInv'
  OBVIOUS
<1>1. ASSUME NEW q \in Requests, Handle(q) PROVE IInv'
  BY <1>1, CheckStep, ServeInfoStep, CheckCreateStep, CommitCreateStep, AddStep,
     CommitSettingStep, CommitOwnRowStep, RecipientsStep, DeleteStep, CommitRemovalStep,
     PublishStep, LoseStep DEF Handle
<1>2. ASSUME NEW q \in Requests, Return(q) PROVE IInv'
  BY <1>2, HomeStep, InfoArrivesStep, ManageDoneStep, SwipeDoneStep, PrefsDoneStep,
     OtherAnswers DEF Return
<1>3. ASSUME NEW i \in DOMAIN loads, ServeList(i) \/ ListArrives(i) \/ ListFails(i) PROVE IInv'
  BY <1>3, ServeListStep, ListArrivesStep, ListFailsStep
<1>4. ASSUME UNCHANGED vars PROVE IInv'
  <2>1. RequestsAre /\ Keeps /\ InfoIs /\ asked' \in 0..MaxAsked
    BY <1>4 DEF vars, client, IInv, TypeOK, RequestsAre, Keeps, InfoIs
  <2>2. UNCHANGED <<server, news, loads, list, newest, astray>>
    BY <1>4 DEF vars, client, server
  <2> QED
    BY <2>1, <2>2, Quietly
<1> QED
  BY <1>1, <1>2, <1>3, <1>4, TapStep, ElsewhereStep, DeleteAccountStep, SweepStep, HearStep
     DEF Next

\* The rows, the requests and what Me's client holds always have their types; a row of
\* conversation_members always names an existing conversation and account.
THEOREM TypeCorrect == Spec => []TypeOK
<1>1. IInv => TypeOK
  BY DEF IInv
<1> QED
  BY <1>1, InitInv, StepInv, PTL DEF Spec

\* When nothing is under way, the list shows exactly the conversations Me is in,
\* whatever was added, removed, left, deleted and swept before, and in whatever order
\* the loads and the news arrived, unless it is astray.
THEOREM ListIsKept == Spec => []ListFollowsMembership
<1>1. IInv => ListFollowsMembership
  <2> SUFFICES ASSUME IInv, Quiet, ~astray PROVE Agrees(list)
    BY DEF ListFollowsMembership, Agrees
  <2>1. ~Coming
    BY DEF Quiet, Coming, Tells, IInv, TypeOK
  <2> QED
    BY <2>1 DEF Quiet, IInv, ListInv
<1> QED
  BY <1>1, InitInv, StepInv, PTL DEF Spec
=============================================================================
