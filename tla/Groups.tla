------------------------------- MODULE Groups -------------------------------
(***************************************************************************)
(* Conversations and who is in them: routers/conversations.py, and the     *)
(* client of one user, Me, that shows them: the conversation list of the   *)
(* store, the page ChatInfo.tsx and the sheets that begin a conversation.  *)
(*                                                                         *)
(* A request passes through the transactions of its handler: the check of  *)
(* the caller's membership, the read of who is to be told, the flushed     *)
(* delete with the count that follows it, the commit, the publication.     *)
(* What other users and Me's other devices do are requests like Me's, from *)
(* clients that are not modelled: they may be stale, so they ask anything. *)
(*                                                                         *)
(* Left out: the values a conversation's settings take (that a change of   *)
(* them is checked, published and answered is kept), messages, and the     *)
(* sockets: Me's is up, and outages are ChatSync's subject.                *)
(***************************************************************************)
EXTENDS Naturals, Sequences, FiniteSets, SequencesExt

CONSTANTS
  Users,
  Me,           \* the user whose client is modelled
  Chats,        \* identities of conversations
  Requests,     \* bound: requests under way at once
  None,
  MaxAsked,     \* bound: requests that change something
  MaxLoads      \* bound: loads of the list under way

ASSUME MeIsUser == Me \in Users
ASSUME BoundsAreNumbers == MaxAsked \in Nat /\ MaxLoads \in Nat \ {0}

VARIABLES
  users,    \* accounts that exist
  kind,     \* conversations.type, "none" before the row, "gone" after it
  role,     \* conversation_members
  swept,    \* conversations the running sweep found without members
  requests,
  asked,    \* bound: how many requests were made
  news,     \* conversation.updated sent to Me and not handled
  loads,    \* Me's loads of the list, in the order they were sent
  list,     \* the store's conversations: the members of each, None if not listed
  info,     \* the page ChatInfo
  newest,   \* history: the load sent last is under way, and nothing went wrong since
  astray    \* history: why the list may be wrong although nothing is under way

server == <<users, kind, role, swept>>
client == <<news, loads, list, info, newest, astray>>
vars == <<users, kind, role, swept, requests, asked, client>>

-----------------------------------------------------------------------------
(* Types *)

Opt(S) == S \cup {None}
Roles == {"none", "member", "admin"}
Settings == {"rename", "retention", "disappearing"}
Ops == {"direct", "group", "add", "remove", "leave", "prefs", "clear", "info"} \cup Settings
Shown == [group : BOOLEAN, admin : BOOLEAN, members : SUBSET Users]   \* a ConversationOut
Request == [op : Ops, by : Users,
            chat : Opt(Chats),              \* None: one that is to be created
            who : SUBSET Users,             \* whom it adds, removes or begins with
            from : {"page", "left", "list", "sheet", "elsewhere"},
            step : {"asked", "checked", "told", "deleted", "committed", "answered", "failed"},
            admin : BOOLEAN,                \* the caller's role, as checked
            told : SUBSET Users,
            last : BOOLEAN,                 \* nobody else was counted
            missed : BOOLEAN,               \* history: Me had no row when told was read
            out : Opt(Shown)]

Members(c) == {u \in Users : role[c][u] # "none"}
Exists(c) == kind[c] \in {"direct", "group"}

ASSUME NoneIsNothing ==
  /\ None \notin Chats /\ None \notin Shown /\ None \notin Request
  /\ \A S \in SUBSET Users : S # None

TypeOK ==
  /\ users \subseteq Users
  /\ kind \in [Chats -> {"none", "direct", "group", "gone"}]
  /\ role \in [Chats -> [Users -> Roles]]
  /\ swept \subseteq Chats
  /\ requests \in [Requests -> Opt(Request)]
  /\ asked \in 0..MaxAsked
  /\ news \in Nat
  /\ loads \in Seq(Opt([Chats -> Opt(SUBSET Users)])) /\ Len(loads) <= MaxLoads
  /\ list \in [Chats -> Opt(SUBSET Users)]
  /\ info \in [at : Opt(Chats), shown : Opt(Shown)]
  /\ newest \in BOOLEAN /\ astray \in BOOLEAN
  \* the foreign keys: a member row names a conversation and an account
  /\ \A c \in Chats : Members(c) \subseteq IF Exists(c) THEN users ELSE {}

Out(c, admin) == [group |-> kind[c] = "group", admin |-> admin, members |-> Members(c)]
Closed == [at |-> None, shown |-> None]
Asking(op, by, chat, who, from) ==
  [op |-> op, by |-> by, chat |-> chat, who |-> who, from |-> from, step |-> "asked",
   admin |-> FALSE, told |-> {}, last |-> FALSE, missed |-> FALSE, out |-> None]

\* The app has opened on the list, which asks for it.
Init ==
  /\ users = Users
  /\ kind = [c \in Chats |-> "none"]
  /\ role = [c \in Chats |-> [u \in Users |-> "none"]]
  /\ swept = {}
  /\ requests = [q \in Requests |-> None]
  /\ asked = 0
  /\ news = 0
  /\ loads = <<None>>
  /\ list = [c \in Chats |-> None]
  /\ info = Closed
  /\ newest = TRUE /\ astray = FALSE

-----------------------------------------------------------------------------
(* The server *)

Now(q, op, step) == requests[q] # None /\ requests[q].op \in op /\ requests[q].step = step

\* The request passes on to r; nobody here waits for the end of one from elsewhere.
Passes(q, r) ==
  requests' = [requests EXCEPT ![q] =
                 IF r.from = "elsewhere" /\ r.step \in {"answered", "failed"} THEN None ELSE r]
Step(q, step) == Passes(q, [requests[q] EXCEPT !.step = step])
Fails(q) == Step(q, "failed") /\ UNCHANGED <<server, asked, client>>

\* A delete that is flushed and not committed holds the row.
Locked(c, u) ==
  \E q \in Requests : /\ Now(q, {"remove", "leave"}, "deleted")
                      /\ requests[q].chat = c /\ u \in requests[q].who

Allowed(r) ==
  /\ role[r.chat][r.by] # "none"
  /\ r.op \in {"add", "remove", "rename"} => kind[r.chat] = "group"
  /\ \/ role[r.chat][r.by] = "admin"
     \/ r.op \in {"disappearing", "prefs", "clear", "leave"}
     \/ r.op = "retention" /\ kind[r.chat] = "direct"
     \/ r.op = "remove" /\ r.who = {r.by}

Check(q) ==
  /\ Now(q, Ops \ {"direct", "group", "info"}, "asked")
  /\ LET r == requests[q] IN
     IF Allowed(r) /\ (r.op = "add" => r.who \subseteq users)
       THEN Passes(q, [r EXCEPT !.step = "checked", !.admin = role[r.chat][r.by] = "admin"])
       ELSE Step(q, "failed")
  /\ UNCHANGED <<server, asked, client>>

\* get_conversation
ServeInfo(q) ==
  /\ Now(q, {"info"}, "asked")
  /\ LET r == requests[q]  role_ == role[r.chat][r.by] IN
     IF role_ # "none"
       THEN Passes(q, [r EXCEPT !.step = "answered", !.out = Out(r.chat, role_ = "admin")])
       ELSE Step(q, "failed")
  /\ UNCHANGED <<server, asked, client>>

FindDirect(both) == {c \in Chats : kind[c] = "direct" /\ Members(c) = both}

\* A direct conversation that exists is the answer.
CheckCreate(q) ==
  /\ Now(q, {"direct", "group"}, "asked")
  /\ LET r == requests[q]  all == r.who \cup {r.by} IN
     Step(q, IF ~(all \subseteq users) THEN "failed"
             ELSE IF r.op = "direct" /\ FindDirect(all) # {} THEN "answered" ELSE "checked")
  /\ UNCHANGED <<server, asked, client>>

CommitCreate(q) ==
  /\ Now(q, {"direct", "group"}, "checked")
  /\ LET r == requests[q] IN
     \/ /\ ~(r.who \cup {r.by} \subseteq users)
        /\ Fails(q)
     \/ /\ r.who \cup {r.by} \subseteq users
        /\ \E c \in Chats :
             /\ kind[c] = "none"
             /\ kind' = [kind EXCEPT ![c] = r.op]
             /\ role' = [role EXCEPT ![c] = [u \in Users |-> IF u = r.by THEN "admin"
                                               ELSE IF u \in r.who THEN "member" ELSE "none"]]
             /\ Passes(q, [r EXCEPT !.step = "committed", !.chat = c])
        /\ UNCHANGED <<users, swept, asked, client>>

\* Mutant: the rows have no foreign keys.
AddAnyway(q) ==
  /\ Now(q, {"add"}, "checked")
  /\ LET c == requests[q].chat  new == requests[q].who \ Members(c) IN
     /\ \A u \in requests[q].who : ~Locked(c, u)
     /\ role' = [role EXCEPT ![c] = [u \in Users |-> IF u \in new THEN "member" ELSE @[u]]]
     /\ Step(q, IF new = {} THEN "answered" ELSE "committed")
  /\ UNCHANGED <<users, kind, swept, asked, client>>

\* INSERT ... ON CONFLICT DO NOTHING: it waits for the delete of the same row.
Add(q) ==
  /\ Now(q, {"add"}, "checked")
  /\ LET c == requests[q].chat  new == requests[q].who \ Members(c) IN
     /\ \A u \in requests[q].who : ~Locked(c, u)
     /\ \/ /\ ~Exists(c) \/ ~(new \subseteq users)
           /\ Fails(q)
        \/ /\ Exists(c) /\ new \subseteq users
           /\ role' = [role EXCEPT ![c] = [u \in Users |-> IF u \in new THEN "member" ELSE @[u]]]
           /\ Step(q, IF new = {} THEN "answered" ELSE "committed")
           /\ UNCHANGED <<users, kind, swept, asked, client>>

\* rename_conversation, set_retention, set_disappearing
CommitSetting(q) ==
  /\ Now(q, Settings, "checked")
  /\ Step(q, IF Exists(requests[q].chat) THEN "committed" ELSE "failed")
  /\ UNCHANGED <<server, asked, client>>

\* set_prefs, clear_history: columns of the caller's own row
CommitOwnRow(q) ==
  /\ Now(q, {"prefs", "clear"}, "checked")
  /\ LET r == requests[q] IN
     /\ ~Locked(r.chat, r.by)
     /\ IF r.by \in Members(r.chat)
          THEN Passes(q, [r EXCEPT !.step = "answered", !.out = Out(r.chat, r.admin)])
          ELSE Step(q, "failed")
  /\ UNCHANGED <<server, asked, client>>

\* Mutant: the recipients are read with the row already marked as deleted.
RecipientsAfter(q) ==
  /\ Now(q, {"remove", "leave"}, "checked")
  /\ LET r == requests[q] IN
     IF r.op = "remove" /\ r.who \cap Members(r.chat) = {}
       THEN Step(q, "answered")
       ELSE Passes(q, [r EXCEPT !.step = "told", !.told = Members(r.chat) \ r.who,
                                !.missed = Me \notin Members(r.chat)])
  /\ UNCHANGED <<server, asked, client>>

\* remove_member returns when the target has no row; who is to be told is read
\* before the change.
Recipients(q) ==
  /\ Now(q, {"remove", "leave"}, "checked")
  /\ LET r == requests[q] IN
     IF r.op = "remove" /\ r.who \cap Members(r.chat) = {}
       THEN Step(q, "answered")
       ELSE Passes(q, [r EXCEPT !.step = "told", !.told = Members(r.chat),
                                !.missed = Me \notin Members(r.chat)])
  /\ UNCHANGED <<server, asked, client>>

\* The delete is flushed, and _cleanup_if_empty counts whom it can see.
Delete(q) ==
  /\ Now(q, {"remove", "leave"}, "told")
  /\ LET r == requests[q] IN
     /\ \A u \in r.who : ~Locked(r.chat, u)
     /\ Passes(q, [r EXCEPT !.step = "deleted", !.last = Members(r.chat) \subseteq r.who])
  /\ UNCHANGED <<server, asked, client>>

\* Rows go with their conversation.
Drop(cs) ==
  /\ kind' = [c \in Chats |-> IF c \in cs /\ Exists(c) THEN "gone" ELSE kind[c]]
  /\ role' = [c \in Chats |-> IF c \in cs THEN [u \in Users |-> "none"] ELSE role[c]]

\* Whether Me's row went and nobody will say so.
Astray(unsaid) == astray' = (astray \/ unsaid) /\ newest' = (newest /\ ~unsaid)

\* Me may have been added after the count, or after the recipients were read.
CommitRemoval(q) ==
  /\ Now(q, {"remove", "leave"}, "deleted")
  /\ Step(q, "committed")
  /\ LET r == requests[q] IN
     /\ \/ /\ r.last
           /\ Drop({r.chat})
        \/ /\ ~r.last
           /\ role' = [role EXCEPT ![r.chat] =
                         [u \in Users |-> IF u \in r.who THEN "none" ELSE @[u]]]
           /\ UNCHANGED kind
     /\ Astray(Me \in Members(r.chat) /\ r.missed /\ (r.last \/ Me \in r.who))
  /\ UNCHANGED <<users, swept, asked, news, loads, list, info>>

\* After the commit: to those read before the change, or to the members of now.
Publish(q) ==
  /\ Now(q, Ops, "committed")
  /\ LET r == requests[q]
         to == IF r.op \in {"remove", "leave"} THEN r.told ELSE Members(r.chat) IN
     /\ news' = IF Me \in to THEN news + 1 ELSE news
     /\ Passes(q, [r EXCEPT !.step = "answered", !.out = Out(r.chat, r.admin)])
  /\ UNCHANGED <<server, asked, loads, list, info, newest, astray>>

\* The network, or the server, fails before the handler or after it.
Lose(q) ==
  /\ Now(q, Ops, "asked") \/ Now(q, Ops, "answered")
  /\ Fails(q)

\* delete_me: the member rows cascade; nobody is told.
DeleteAccount(u) ==
  /\ u \in users \ {Me}
  /\ \A c \in Chats : ~Locked(c, u)
  /\ users' = users \ {u}
  /\ role' = [c \in Chats |-> [role[c] EXCEPT ![u] = "none"]]
  /\ UNCHANGED <<kind, swept, requests, asked, client>>

\* Mutant: only groups.
SweepFindsGroups ==
  /\ swept = {}
  /\ swept' = {c \in Chats : kind[c] = "group" /\ Members(c) = {}}
  /\ swept' # {}
  /\ UNCHANGED <<users, kind, role, requests, asked, client>>

\* sweep_once: conversations without members, found and then deleted.
SweepFinds ==
  /\ swept = {}
  /\ swept' = {c \in Chats : Exists(c) /\ Members(c) = {}}
  /\ swept' # {}
  /\ UNCHANGED <<users, kind, role, requests, asked, client>>

SweepDeletes ==
  /\ swept # {}
  /\ Drop(swept)
  /\ Astray(\E c \in swept : role[c][Me] # "none")
  /\ swept' = {}
  /\ UNCHANGED <<users, requests, asked, news, loads, list, info>>

-----------------------------------------------------------------------------
(* Requests of clients that are not modelled *)

Free(q) == requests[q] = None
Ask(q, r) == requests' = [requests EXCEPT ![q] = r]
Change(q, r) == Free(q) /\ asked < MaxAsked /\ asked' = asked + 1 /\ Ask(q, r)

AskElsewhere(q) ==
  /\ \E u \in users : \E v \in Users \ {u} :
       \/ Change(q, Asking("direct", u, None, {v}, "elsewhere"))
       \/ Change(q, Asking("group", u, None, {v}, "elsewhere"))
       \/ \E c \in {c \in Chats : kind[c] # "none"} :
            \/ \E op \in {"add", "remove"} : Change(q, Asking(op, u, c, {v}, "elsewhere"))
            \/ Change(q, Asking("leave", u, c, {u}, "elsewhere"))
            \/ \E op \in Settings : Change(q, Asking(op, u, c, {}, "elsewhere"))
  /\ UNCHANGED <<server, client>>

-----------------------------------------------------------------------------
(* Me's list *)

Reload == Len(loads) < MaxLoads /\ loads' = Append(loads, None) /\ newest' = TRUE

\* conversation.updated
Hear ==
  /\ news > 0 /\ news' = news - 1
  /\ Reload
  /\ UNCHANGED <<server, requests, asked, list, info, astray>>

\* The list is mounted again, or the socket reconnects.
Refresh ==
  /\ Reload
  /\ UNCHANGED <<server, requests, asked, news, list, info, astray>>

\* list_conversations
ServeList(i) ==
  /\ loads[i] = None
  /\ loads' = [loads EXCEPT ![i] = [c \in Chats |-> IF role[c][Me] # "none" THEN Members(c)
                                                                          ELSE None]]
  /\ UNCHANGED <<server, requests, asked, news, list, info, newest, astray>>

\* An answer is taken whatever was taken before it.  The newest one puts right
\* what went astray; one that comes after the newest may put it wrong.
ListArrives(i) ==
  /\ loads[i] # None
  /\ list' = loads[i]
  /\ loads' = RemoveAt(loads, i)
  /\ newest' = (newest /\ i < Len(loads))
  /\ astray' = IF newest /\ i = Len(loads) THEN FALSE ELSE astray \/ ~newest
  /\ UNCHANGED <<server, requests, asked, news, info>>

ListFails(i) ==
  /\ loads' = RemoveAt(loads, i)
  /\ newest' = (newest /\ i < Len(loads))
  /\ astray' = (astray \/ (newest /\ i = Len(loads)))
  /\ UNCHANGED <<server, requests, asked, news, list, info>>

\* leaveConversation, from the row of the list
SwipeDelete(q, c) ==
  /\ info = Closed
  /\ list[c] # None
  /\ Change(q, Asking("leave", Me, c, {Me}, "list"))
  /\ UNCHANGED <<server, client>>

\* NewMessageSheet: whoever the search finds
BeginChat(q) ==
  /\ info = Closed
  /\ \E v \in Users \ {Me} : Change(q, Asking("direct", Me, None, {v}, "sheet"))
  /\ UNCHANGED <<server, client>>

\* NewGroupSheet: those selected, at least one
BeginGroup(q) ==
  /\ info = Closed
  /\ \E vs \in SUBSET (Users \ {Me}) \ {{}} : Change(q, Asking("group", Me, None, vs, "sheet"))
  /\ UNCHANGED <<server, client>>

-----------------------------------------------------------------------------
(* ChatInfo *)

\* Requests of the page that outlive it.
Leaving(rs) == [q \in Requests |-> IF rs[q] # None /\ rs[q].from = "page"
                                     THEN [rs[q] EXCEPT !.from = "left"] ELSE rs[q]]

OpenInfo(q, c) ==
  /\ info = Closed
  /\ list[c] # None
  /\ Free(q)
  /\ Ask(q, Asking("info", Me, c, {}, "page"))
  /\ info' = [Closed EXCEPT !.at = c]
  /\ UNCHANGED <<server, asked, news, loads, list, newest, astray>>

CloseInfo ==
  /\ info # Closed
  /\ info' = Closed
  /\ requests' = Leaving(requests)
  /\ UNCHANGED <<server, asked, news, loads, list, newest, astray>>

FromInfo(q, op, who) ==
  /\ info.shown # None
  /\ Change(q, Asking(op, Me, info.at, who, "page"))
  /\ UNCHANGED <<server, client>>

Manages == info.shown.group /\ info.shown.admin
Rename(q) == FromInfo(q, "rename", {}) /\ Manages
RemoveMember(q) == \E v \in Users \ {Me} : FromInfo(q, "remove", {v}) /\ Manages
                                             /\ v \in info.shown.members
AddMember(q) == \E v \in Users : FromInfo(q, "add", {v}) /\ Manages
                                   /\ v \notin info.shown.members
LeaveGroup(q) == FromInfo(q, "leave", {Me}) /\ info.shown.group
SetRetention(q) == FromInfo(q, "retention", {})
SetDisappearing(q) == FromInfo(q, "disappearing", {})
TogglePref(q) == FromInfo(q, "prefs", {})
ClearHistory(q) == FromInfo(q, "clear", {})

\* navigate("/"), which mounts the list unless it is there
GoHome(q) ==
  /\ requests' = Leaving([requests EXCEPT ![q] = None])
  /\ info' = Closed
  /\ IF info = Closed THEN UNCHANGED <<loads, newest>> ELSE Reload

Mine(q, ops, step) == Now(q, ops, step) /\ requests[q].from # "elsewhere"

\* A load that fails goes home, also when its page is long left.
InfoFails(q) ==
  /\ Mine(q, {"info"}, "failed")
  /\ GoHome(q)
  /\ UNCHANGED <<server, asked, news, list, astray>>

InfoArrives(q) ==
  /\ Mine(q, {"info", "retention", "disappearing"}, "answered")
  /\ info' = IF requests[q].from = "page" THEN [info EXCEPT !.shown = requests[q].out] ELSE info
  /\ requests' = [requests EXCEPT ![q] = None]
  /\ UNCHANGED <<server, asked, news, loads, list, newest, astray>>

\* load() again
ManageDone(q) ==
  /\ Mine(q, {"rename", "add", "remove"}, "answered")
  /\ Ask(q, Asking("info", Me, requests[q].chat, {}, requests[q].from))
  /\ UNCHANGED <<server, asked, client>>

\* The page leaves by itself and does not touch the list.
LeaveDone(q) ==
  /\ Mine(q, {"leave"}, "answered") /\ requests[q].from # "list"
  /\ GoHome(q)
  /\ UNCHANGED <<server, asked, news, list, astray>>

\* The row goes when the answer comes, although Me may be back by then.
SwipeDone(q) ==
  /\ Mine(q, {"leave"}, "answered") /\ requests[q].from = "list"
  /\ list' = [list EXCEPT ![requests[q].chat] = None]
  /\ astray' = (astray \/ role[requests[q].chat][Me] # "none")
  /\ requests' = [requests EXCEPT ![q] = None]
  /\ UNCHANGED <<server, asked, news, loads, info, newest>>

\* setConvPrefs: the answer replaces the row, if there is one.
PrefsDone(q) ==
  /\ Mine(q, {"prefs"}, "answered")
  /\ LET c == requests[q].chat IN
     list' = IF list[c] # None THEN [list EXCEPT ![c] = requests[q].out.members] ELSE list
  /\ requests' = [requests EXCEPT ![q] = None]
  /\ UNCHANGED <<server, asked, news, loads, info, newest, astray>>

\* navigate to the chat page
ClearDone(q) ==
  /\ Mine(q, {"clear"}, "answered")
  /\ requests' = Leaving([requests EXCEPT ![q] = None])
  /\ info' = Closed
  /\ UNCHANGED <<server, asked, news, loads, list, newest, astray>>

BeginDone(q) ==
  /\ Mine(q, {"direct", "group"}, "answered")
  /\ Reload
  /\ requests' = [requests EXCEPT ![q] = None]
  /\ UNCHANGED <<server, asked, news, list, info, astray>>

\* The promise is rejected and nobody hears of it.
ChangeFails(q) ==
  /\ Mine(q, Ops \ {"info"}, "failed")
  /\ requests' = [requests EXCEPT ![q] = None]
  /\ UNCHANGED <<server, asked, client>>

-----------------------------------------------------------------------------
Handle(q) ==
  \/ Check(q) \/ ServeInfo(q) \/ CheckCreate(q) \/ CommitCreate(q) \/ Add(q)
  \/ CommitSetting(q) \/ CommitOwnRow(q) \/ Recipients(q) \/ Delete(q)
  \/ CommitRemoval(q) \/ Publish(q) \/ Lose(q)

Tap(q) ==
  \/ Rename(q) \/ RemoveMember(q) \/ AddMember(q) \/ LeaveGroup(q)
  \/ SetRetention(q) \/ SetDisappearing(q) \/ TogglePref(q) \/ ClearHistory(q)
  \/ BeginChat(q) \/ BeginGroup(q) \/ CloseInfo
  \/ \E c \in Chats : SwipeDelete(q, c) \/ OpenInfo(q, c)

Return(q) ==
  \/ InfoFails(q) \/ InfoArrives(q) \/ ManageDone(q) \/ LeaveDone(q) \/ SwipeDone(q)
  \/ PrefsDone(q) \/ ClearDone(q) \/ BeginDone(q) \/ ChangeFails(q)

Next ==
  \/ \E q \in Requests : Handle(q) \/ Tap(q) \/ Return(q) \/ AskElsewhere(q)
  \/ \E u \in Users : DeleteAccount(u)
  \/ SweepFinds \/ SweepDeletes
  \/ Hear \/ Refresh
  \/ \E i \in DOMAIN loads : ServeList(i) \/ ListArrives(i) \/ ListFails(i)

\* The sweep runs every hour, and tries again after a failure.
Fairness == WF_vars(SweepFinds) /\ WF_vars(SweepDeletes)

Spec == Init /\ [][Next]_vars /\ Fairness

-----------------------------------------------------------------------------
(* Properties *)

\* Nothing that will bring Me a list is under way.
Quiet ==
  /\ news = 0 /\ loads = <<>>
  /\ \A q \in Requests : requests[q] # None => requests[q].step # "committed"

\* The list has exactly the conversations Me is in, once what is under way has
\* ended: whoever changed the membership, from whichever device, told Me after
\* the commit.  Except when the answers of loads came out of order or the last
\* one failed, when the answer to a leave came after Me was added back, when a
\* conversation was deleted under a Me added after the count or the find, and when
\* Me was added back after a second removal had read who is to be told.
ListFollowsMembership ==
  Quiet /\ ~astray => \A c \in Chats : (list[c] # None) <=> (role[c][Me] # "none")

\* A conversation that nobody is in does not stay, although its last members may
\* leave at once and each count the other, or delete their accounts.
EmptiedAreReclaimed ==
  \A c \in Chats : (Exists(c) /\ Members(c) = {}) ~> (kind[c] = "gone" \/ Members(c) # {})

\* "Keep the roster current: membership changes refresh the conversation list":
\* the members of each row are those of the conversation, as long as no account
\* was deleted.  The code does not keep this.
RostersFollow ==
  Quiet /\ ~astray /\ users = Users =>
    \A c \in Chats : list[c] # None => list[c] = Members(c)

=============================================================================
