-------------------------------- MODULE Links --------------------------------
(***************************************************************************)
(* The owner's side of secret links: their rows in the list of             *)
(* conversations (ConversationList.tsx, GuestThreadRow.tsx), the sheet     *)
(* that makes one (NewSecretLinkSheet.tsx), the page of one thread         *)
(* (SecretLinkThread.tsx), and the requests they make (links.py).          *)
(*                                                                         *)
(* A task is an async function of a component that has not ended.  What it *)
(* read before an await it uses after it; what it keeps in a ref it reads  *)
(* again.  A page that goes straight from one thread to another (a         *)
(* notification, the banner of a call) is the same component and hears of  *)
(* all its tasks; one that is unmounted hears of none.                     *)
(*                                                                         *)
(* Every other page is taken for the list.  Left out: what is typed, the   *)
(* label, thumbnails and the viewer, calls, the unread mark, and a key the *)
(* owner's identity does not unwrap.  An attachment is uploaded in the     *)
(* step that posts it.  A load of an unmounted page does not fill its refs *)
(* again.  Messages commit in the order of created_at; GuestThread tells   *)
(* the two apart, and when a link ends.                                    *)
(***************************************************************************)
EXTENDS Naturals, Sequences, FiniteSets, SequencesExt, Subsequences

CONSTANTS
  Threads,   \* a thread has one key, named like it
  None,      \* no key; also the page that is no thread
  MaxPosts,  \* bound: messages, the first of every thread among them
  MaxTasks   \* bound: tasks at a time

ASSUME NoneIsNoThread == None \notin Threads
ASSUME BoundsAreNumbers == MaxPosts \in Nat /\ MaxTasks \in Nat \ {0}
ASSUME ThreadsFit == IsFiniteSet(Threads) /\ Cardinality(Threads) <= MaxPosts

VARIABLES
  link,    \* rows of guest_threads
  posts,   \* rows of guest_messages in the order of created_at
  bells,   \* guest.reply events on their way to the owner
  page,    \* state of the page on screen, with its refs
  task,    \* what its components have under way
  crossed  \* history: a page changed thread with something under way

vars == <<link, posts, bells, page, task, crossed>>

-----------------------------------------------------------------------------
(* Types *)

Opt(S) == S \cup {None}
Slots == 1 .. MaxTasks
Post == [thread : Threads, by : {"host", "guest"}, keys : SUBSET Threads]
Shown == [post : 1 .. MaxPosts, under : Threads]       \* decrypted, or not, with a key
Thread == [at : Threads, key : Opt(Threads),           \* keyRef
           last : 0 .. MaxPosts,                       \* lastIdRef; 0 is null
           list : Seq(Shown), sending : BOOLEAN, locating : BOOLEAN]
List == [at : {None}, guests : SUBSET Threads, sheet : {"closed", "open", "busy", "made"}]

Load == [kind : {"load"}, of : Threads, live : BOOLEAN, after : 0 .. MaxPosts,
         then : {"nothing", "send", "place"},
         step : {"asked", "served", "opened"}, got : Seq(1 .. MaxPosts), under : Opt(Threads)]
Writing == [kind : {"send", "image", "file", "place"}, of : Threads, live : BOOLEAN,
            step : {"named", "locating", "sealed", "stored"}, keys : SUBSET Threads]
Request == [kind : {"list", "create", "row", "page"},  \* the last two: DELETE, from where
            of : Opt(Threads), live : BOOLEAN, step : {"asked", "served"}, got : SUBSET Threads]
Idle == [kind |-> "idle", live |-> FALSE]

Fits(r) == r = Idle \/ r \in Writing \/ r \in Request
           \/ /\ r.kind = "load" /\ r \in Load

Awaits(kind, r) == r.live /\ (r.kind = kind \/ (r.kind = "load" /\ r.then = kind))

TypeOK ==
  /\ link \in [Threads -> {"none", "live", "gone"}]
  /\ posts \in Seq(Post) /\ Len(posts) <= MaxPosts
  /\ bells \in 0 .. MaxPosts
  /\ page \in Thread \/ page \in List
  /\ DOMAIN task = Slots /\ \A s \in Slots : Fits(task[s])
  /\ crossed \in BOOLEAN
  \* a button is off while the page waits for what it began
  /\ \A kind \in {"send", "place"} :
       Cardinality({s \in Slots : Awaits(kind, task[s])})
         = IF /\ page.at # None
              /\ (kind = "send" /\ page.sending) \/ (kind = "place" /\ page.locating)
           THEN 1 ELSE 0

FirstOf(t) == [thread |-> t, by |-> "host", keys |-> {t}]
OnList == [at |-> None, guests |-> {}, sheet |-> "closed"]

\* Links made before, and the list that is loading them.
AskList == [kind |-> "list", of |-> None, live |-> TRUE, step |-> "asked", got |-> {}]

Init ==
  /\ \E T \in SUBSET Threads :
       /\ link = [t \in Threads |-> IF t \in T THEN "live" ELSE "none"]
       /\ posts = SetToSeq({FirstOf(t) : t \in T})
  /\ bells = 0
  /\ page = OnList
  /\ task = [s \in Slots |-> IF s = 1 THEN AskList ELSE Idle]
  /\ crossed = FALSE

-----------------------------------------------------------------------------
(* Tasks *)

Starts(r, f) == \E s \in Slots :
  /\ f[s] = Idle /\ \A k \in 1 .. s - 1 : f[k] # Idle
  /\ task' = [f EXCEPT ![s] = r]
Becomes(s, r) == task' = [task EXCEPT ![s] = r]
Ends(s) == Becomes(s, Idle)

\* The tasks of a component that is unmounted go on unheard.
Unheard(f) == [s \in Slots |-> [f[s] EXCEPT !.live = FALSE]]

\* The ref of a mounted page; the cleanup has emptied that of any other.
KeyOf(r) == IF r.live THEN page.key ELSE None
LastOf(r) == IF r.live THEN page.last ELSE 0

AskLoad(t, after, then, live) ==
  [kind |-> "load", of |-> t, live |-> live, after |-> after, then |-> then,
   step |-> "asked", got |-> <<>>, under |-> None]

-----------------------------------------------------------------------------
(* Getting to a page and away *)

Blank(t) == [at |-> t, key |-> None, last |-> 0, list |-> <<>>,
             sending |-> FALSE, locating |-> FALSE]

\* navigate("/"): a task that ends with it leaves f behind.
ToList(f) ==
  IF page.at = None THEN task' = f /\ UNCHANGED page
  ELSE page' = OnList /\ Starts(AskList, Unheard(f))

\* A row, a notification, the banner.
Open(t) ==
  /\ page.at = None /\ link[t] # "none"
  /\ page' = Blank(t)
  /\ Starts(AskLoad(t, 0, "nothing", TRUE), Unheard(task))
  /\ UNCHANGED <<link, posts, bells, crossed>>

\* Mutant: the cleanup forgets the key.
JumpKeepsKey(t) ==
  /\ page.at \notin {t, None} /\ link[t] # "none"
  /\ page' = [page EXCEPT !.at = t, !.last = 0, !.list = <<>>]
  /\ Starts(AskLoad(t, 0, "nothing", TRUE), task)
  /\ crossed' = (crossed \/ \E s \in Slots : task[s].live)
  /\ UNCHANGED <<link, posts, bells>>

\* The cleanup of the effect on id, then its load.
Jump(t) ==
  /\ page.at \notin {t, None} /\ link[t] # "none"
  /\ page' = [page EXCEPT !.at = t, !.key = None, !.last = 0, !.list = <<>>]
  /\ Starts(AskLoad(t, 0, "nothing", TRUE), task)
  /\ crossed' = (crossed \/ \E s \in Slots : task[s].live)
  /\ UNCHANGED <<link, posts, bells>>

Leave ==
  /\ page.at # None
  /\ ToList(task)
  /\ UNCHANGED <<link, posts, bells, crossed>>

-----------------------------------------------------------------------------
(* The page loads its thread *)

After(t, m) ==
  IF m # 0 /\ posts[m].thread # t THEN <<>>           \* created_at > NULL
  ELSE At([i \in DOMAIN posts |-> i], {i \in DOMAIN posts : posts[i].thread = t /\ i > m})

LoadServed(s) ==
  /\ task[s].kind = "load" /\ task[s].step = "asked"
  /\ link[task[s].of] = "live"
  /\ IF task[s].live
     THEN Becomes(s, [task[s] EXCEPT !.step = "served", !.got = After(task[s].of, task[s].after)])
     ELSE Ends(s)
  /\ UNCHANGED <<link, posts, bells, page, crossed>>

\* Not found, or no answer: to the list, wherever the owner is by now.
LoadFails(s) ==
  /\ task[s].kind = "load" /\ task[s].step \in {"asked", "served"}
  /\ ToList([task EXCEPT ![s] = Idle])
  /\ UNCHANGED <<link, posts, bells, crossed>>

\* The key is unwrapped unless there is one; the messages are decrypted with it.
LoadOpens(s) ==
  /\ task[s].kind = "load" /\ task[s].step = "served"
  /\ IF task[s].live
     THEN LET key == IF page.key = None THEN task[s].of ELSE page.key
          IN /\ page' = [page EXCEPT !.key = key]
             /\ Becomes(s, [task[s] EXCEPT !.step = "opened", !.under = key])
     ELSE Ends(s) /\ UNCHANGED page
  /\ UNCHANGED <<link, posts, bells, crossed>>

\* mergeDecoded.
Merge(prev, next) ==
  prev \o At(next, {k \in DOMAIN next : \A i \in DOMAIN prev : prev[i].post # next[k].post})

\* The send button, or that of the place, comes on again.
Freed(p, kind) == [p EXCEPT !.sending = @ /\ kind # "send", !.locating = @ /\ kind # "place"]

LoadShows(s) ==
  LET r == task[s]
      out == [i \in DOMAIN r.got |-> [post |-> r.got[i], under |-> r.under]]
  IN /\ r.kind = "load" /\ r.step = "opened"
     /\ page' = IF ~r.live THEN page
                ELSE Freed([page EXCEPT
                              !.last = IF out = <<>> THEN @ ELSE out[Len(out)].post,
                              !.list = IF r.after = 0 THEN out ELSE Merge(@, out)],
                           r.then)
     /\ Ends(s)
     /\ UNCHANGED <<link, posts, bells, crossed>>

-----------------------------------------------------------------------------
(* The page writes to its thread *)

Written(kind, step, keys) ==
  [kind |-> kind, of |-> page.at, live |-> TRUE, step |-> step, keys |-> keys]
HasKey == page.at # None /\ page.key # None

Send ==
  /\ HasKey /\ ~page.sending
  /\ page' = [page EXCEPT !.sending = TRUE]
  /\ Starts(Written("send", "sealed", {page.key}), task)
  /\ UNCHANGED <<link, posts, bells, crossed>>

PickImage ==
  /\ HasKey
  /\ Starts(Written("image", "sealed", {page.key}), task)
  /\ UNCHANGED <<link, posts, bells, page, crossed>>

\* The name first; the file in the next step, with what is the key then.
PickFile ==
  /\ HasKey
  /\ Starts(Written("file", "named", {page.key}), task)
  /\ UNCHANGED <<link, posts, bells, page, crossed>>

FileSealed(s) ==
  /\ task[s].kind = "file" /\ task[s].step = "named"
  /\ IF KeyOf(task[s]) = None THEN Ends(s)
     ELSE Becomes(s, [task[s] EXCEPT !.step = "sealed", !.keys = @ \cup {page.key}])
  /\ UNCHANGED <<link, posts, bells, page, crossed>>

ShareLocation ==
  /\ HasKey /\ ~page.locating
  /\ page' = [page EXCEPT !.locating = TRUE]
  /\ Starts(Written("place", "locating", {}), task)
  /\ UNCHANGED <<link, posts, bells, crossed>>

\* The position comes, and the key is what it is by then; or it does not come.
Located(s) ==
  /\ task[s].kind = "place" /\ task[s].step = "locating" /\ KeyOf(task[s]) # None
  /\ Becomes(s, [task[s] EXCEPT !.step = "sealed", !.keys = {page.key}])
  /\ UNCHANGED <<link, posts, bells, page, crossed>>

NotLocated(s) ==
  /\ task[s].kind = "place" /\ task[s].step = "locating"
  /\ Ends(s)
  /\ page' = IF task[s].live THEN Freed(page, "place") ELSE page
  /\ UNCHANGED <<link, posts, bells, crossed>>

\* host_reply, to the thread the page showed when the task began.
Stored(s) ==
  /\ task[s].kind \in {"send", "image", "file", "place"} /\ task[s].step = "sealed"
  /\ link[task[s].of] = "live" /\ Len(posts) < MaxPosts
  /\ posts' = Append(posts, [thread |-> task[s].of, by |-> "host", keys |-> task[s].keys])
  /\ Becomes(s, [task[s] EXCEPT !.step = "stored"])
  /\ UNCHANGED <<link, bells, page, crossed>>

\* Then the load of that thread.
Follow(s) ==
  /\ task[s].kind \in {"send", "image", "file", "place"} /\ task[s].step = "stored"
  /\ Becomes(s, AskLoad(task[s].of, LastOf(task[s]),
                        IF task[s].kind \in {"send", "place"} THEN task[s].kind ELSE "nothing",
                        task[s].live))
  /\ UNCHANGED <<link, posts, bells, page, crossed>>

\* Mutant: no finally.
WriteFailsStuck(s) ==
  /\ task[s].kind \in {"send", "image", "file", "place"} /\ task[s].step \in {"sealed", "stored"}
  /\ Ends(s)
  /\ UNCHANGED <<link, posts, bells, page, crossed>>

\* Refused, or no answer, stored or not.
WriteFails(s) ==
  /\ task[s].kind \in {"send", "image", "file", "place"} /\ task[s].step \in {"sealed", "stored"}
  /\ Ends(s)
  /\ page' = IF task[s].live THEN Freed(page, task[s].kind) ELSE page
  /\ UNCHANGED <<link, posts, bells, crossed>>

-----------------------------------------------------------------------------
(* The list and the sheet *)

ListServed(s) ==
  /\ task[s].kind = "list" /\ task[s].step = "asked"
  /\ Becomes(s, [task[s] EXCEPT !.step = "served", !.got = {t \in Threads : link[t] = "live"}])
  /\ UNCHANGED <<link, posts, bells, page, crossed>>

\* Without an answer the list is empty: got is {} until it is served.
ListArrives(s) ==
  /\ task[s].kind = "list"
  /\ page' = IF task[s].live THEN [page EXCEPT !.guests = task[s].got] ELSE page
  /\ Ends(s)
  /\ UNCHANGED <<link, posts, bells, crossed>>

OpenSheet ==
  /\ page.at = None /\ page.sheet = "closed"
  /\ page' = [page EXCEPT !.sheet = "open"]
  /\ UNCHANGED <<link, posts, bells, task, crossed>>

\* Also while it is busy, which it does not hear the end of.
CloseSheet ==
  /\ page.at = None /\ page.sheet # "closed"
  /\ page' = [page EXCEPT !.sheet = "closed"]
  /\ Starts(AskList, [s \in Slots |-> [task[s] EXCEPT !.live = @ /\ task[s].kind # "create"]])
  /\ UNCHANGED <<link, posts, bells, crossed>>

Create ==
  /\ page.at = None /\ page.sheet = "open"
  /\ page' = [page EXCEPT !.sheet = "busy"]
  /\ Starts([AskList EXCEPT !.kind = "create"], task)
  /\ UNCHANGED <<link, posts, bells, crossed>>

\* create_link: the thread and its first message.
CreateServed(s, t) ==
  /\ task[s].kind = "create" /\ task[s].step = "asked"
  /\ link[t] = "none" /\ Len(posts) < MaxPosts
  /\ link' = [link EXCEPT ![t] = "live"]
  /\ posts' = Append(posts, FirstOf(t))
  /\ Becomes(s, [task[s] EXCEPT !.step = "served"])
  /\ UNCHANGED <<bells, page, crossed>>

CreateEnds(s, sheet) ==
  /\ page' = IF task[s].live THEN [page EXCEPT !.sheet = sheet] ELSE page
  /\ Ends(s)
  /\ UNCHANGED <<link, posts, bells, crossed>>

CreateDone(s) == task[s].kind = "create" /\ task[s].step = "served" /\ CreateEnds(s, "made")
CreateFails(s) == task[s].kind = "create" /\ CreateEnds(s, "open")

-----------------------------------------------------------------------------
(* The end of a link *)

Delete(kind, t) == Starts([AskList EXCEPT !.kind = kind, !.of = t], task)

RevokeRow(t) ==
  /\ page.at = None /\ t \in page.guests
  /\ Delete("row", t)
  /\ UNCHANGED <<link, posts, bells, page, crossed>>

Revoke ==
  /\ page.at # None
  /\ Delete("page", page.at)
  /\ UNCHANGED <<link, posts, bells, page, crossed>>

RevokeServed(s) ==
  /\ task[s].kind \in {"row", "page"} /\ task[s].step = "asked"
  /\ link[task[s].of] = "live"
  /\ link' = [link EXCEPT ![task[s].of] = "gone"]
  /\ Becomes(s, [task[s] EXCEPT !.step = "served"])
  /\ UNCHANGED <<posts, bells, page, crossed>>

\* Whether it was served or not, the row goes, or the owner to a path that is
\* none, which leads to the list and begins it anew.
RevokeEnds(s) ==
  /\ \/ /\ task[s].kind = "row"
        /\ page' = IF task[s].live THEN [page EXCEPT !.guests = @ \ {task[s].of}] ELSE page
        /\ Ends(s)
     \/ /\ task[s].kind = "page"
        /\ page' = OnList /\ Starts(AskList, Unheard([task EXCEPT ![s] = Idle]))
  /\ UNCHANGED <<link, posts, bells, crossed>>

\* sweep_once.
Swept(t) ==
  /\ link[t] = "live"
  /\ link' = [link EXCEPT ![t] = "gone"]
  /\ UNCHANGED <<posts, bells, page, task, crossed>>

-----------------------------------------------------------------------------
(* The guest's replies *)

GuestReplies(t) ==
  /\ link[t] = "live" /\ Len(posts) < MaxPosts
  /\ posts' = Append(posts, [thread |-> t, by |-> "guest", keys |-> {t}])
  /\ bells' = bells + 1
  /\ UNCHANGED <<link, page, task, crossed>>

\* guestReplyTick: whatever thread it is of, the page on screen loads.
Hear ==
  /\ bells > 0 /\ bells' = bells - 1
  /\ Starts(IF page.at = None THEN AskList
            ELSE AskLoad(page.at, page.last, "nothing", TRUE), task)
  /\ UNCHANGED <<link, posts, page, crossed>>

\* The socket is down; no reconnect makes up for it.
Miss ==
  /\ bells > 0 /\ bells' = bells - 1
  /\ UNCHANGED <<link, posts, page, task, crossed>>

-----------------------------------------------------------------------------
(* Specification *)

Advance(s) ==
  \/ LoadServed(s) \/ LoadFails(s) \/ LoadOpens(s) \/ LoadShows(s)
  \/ FileSealed(s) \/ Located(s) \/ NotLocated(s)
  \/ Stored(s) \/ Follow(s) \/ WriteFails(s)
  \/ ListServed(s) \/ ListArrives(s)
  \/ (\E t \in Threads : CreateServed(s, t)) \/ CreateDone(s) \/ CreateFails(s)
  \/ RevokeServed(s) \/ RevokeEnds(s)

Next ==
  \/ \E t \in Threads : Open(t) \/ Jump(t) \/ RevokeRow(t) \/ Swept(t) \/ GuestReplies(t)
  \/ Leave \/ Send \/ PickImage \/ PickFile \/ ShareLocation
  \/ OpenSheet \/ CloseSheet \/ Create \/ Revoke
  \/ Hear \/ Miss
  \/ \E s \in Slots : Advance(s)

Spec == Init /\ [][Next]_vars

-----------------------------------------------------------------------------
(* Properties *)

\* "drop the previous thread's key ... before loading the new one"
\* (SecretLinkThread.tsx:126-128): unless a page changed thread with something
\* under way, what the owner writes is sealed with the key of its thread, and the
\* page holds that key and shows messages of that thread.
KeysMatch ==
  ~crossed =>
    /\ \A i \in DOMAIN posts : posts[i].keys = {posts[i].thread}
    /\ page.at # None =>
         /\ page.key \in {page.at, None}
         /\ \A i \in DOMAIN page.list :
              page.list[i].under = page.at /\ posts[page.list[i].post].thread = page.at

\* The same of every page (SecretLinkThread.tsx:126-128).
Readable == \A i \in DOMAIN posts : posts[i].keys = {posts[i].thread}

\* "The recipient will lose access" (SecretLinkThread.tsx, GuestThreadRow.tsx):
\* when the page is done with a deletion, the link is.
DeletedIsGone ==
  [][\A s \in Slots : RevokeEnds(s) => link[task[s].of] = "gone"]_vars

OnScreen(i) == page.at # None /\ \E k \in DOMAIN page.list : page.list[k].post = i

\* What a thread's page shows stays there as long as it does (mergeDecoded).
ShownStays ==
  [][page.at # None /\ page'.at = page.at =>
       \A i \in 1 .. Len(posts) : OnScreen(i) => OnScreen(i)']_vars
=============================================================================
