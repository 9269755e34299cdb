------------------------------ MODULE ChatSync ------------------------------
(***************************************************************************)
(* One conversation, as the server stores it and as one client shows it.   *)
(*                                                                         *)
(* The server commits a send, an edit or an unsend first and publishes its *)
(* event afterwards, so events of different requests may be published in   *)
(* another order than their commits, or never.  The client keeps a list of *)
(* messages and a map of decrypted texts.  It changes them when it has     *)
(* finished an event of its WebSocket, an answer to a request of its own,  *)
(* or a page it fetched; events and pages are decrypted asynchronously, so *)
(* each may be applied after newer ones.                                   *)
(*                                                                         *)
(* A text is a number: 0 is the empty text of a tombstone, 1 the text a    *)
(* message was sent with, and every edit writes a number of its own.       *)
(***************************************************************************)
EXTENDS Naturals, Sequences, FiniteSets, Subsequences

CONSTANTS
  Messages,      \* the ids of the messages ever sent in the conversation
  Mine,          \* those this client sends, edits and unsends itself
  MaxEdits,      \* bound on the edit requests
  PageSize,      \* PAGE_SIZE, the most messages one page holds
  Slots,         \* the page fetches this client may have in flight
  NoMessage,     \* the absent cursor
  NoSlot,        \* no fetch
  BrokerMayFail  \* whether Redis may drop a publish to an open socket

ASSUME MineAreMessages == Mine \subseteq Messages
ASSUME MaxEditsIsNatural == MaxEdits \in Nat
ASSUME PageSizeIsPositive == PageSize \in Nat \ {0}
ASSUME NoMessageIsNoMessage == NoMessage \notin Messages
ASSUME NoSlotIsNoSlot == NoSlot \notin Slots
ASSUME BrokerMayFailIsBoolean == BrokerMayFail \in BOOLEAN

VARIABLES
  order,      \* the ids in the order of created_at, the start of the transaction
  rows,       \* the rows of messages
  edits,      \* edit requests so far
  editing,    \* edit requests past their read of the row
  outbox,     \* events whose commit is done and whose publish is not
  socket,     \* this client's WebSocket: "new", "open" or "down"
  frames,     \* events written to the socket that the client has not read
  pending,    \* events and own answers the client has still to apply
  list,       \* messagesByConv: what ChatView renders
  texts,      \* textByMessage
  cursor,     \* cursorByConv: the oldest message of the last page, if more exist
  load,       \* the page fetches
  loadingOlder, \* the fetch that the mounted ChatView's loadingOlder ref waits for
  synced      \* history: the resync of the present connection has been applied

server == <<order, rows, edits, editing>>
client == <<list, texts, cursor>>
vars   == <<server, outbox, socket, frames, pending, client, load, loadingOlder, synced>>

-----------------------------------------------------------------------------
(* Types *)

Texts == 0..(MaxEdits + 1)
Row   == [state : {"none", "sending", "stored"}, text : Texts, deleted : BOOLEAN]
Event == [kind : {"new", "edit", "delete"}, id : Messages, text : Texts]
Answer == [kind : {"new", "edit", "delete", "preview"}, id : Messages, text : Texts]
Entry == [id : Messages, deleted : BOOLEAN]
Load  == [pc     : {"idle", "asked", "read"},
          before : Messages \cup {NoMessage},  \* ?cursor=
          page   : Seq(Entry),                 \* messages of the answer
          texts  : [Messages -> Texts],        \* what they decrypt to
          next   : Messages \cup {NoMessage},  \* next_cursor of the answer
          resync : BOOLEAN]                    \* started by the present connection

ServerTypeOK ==
  /\ order \in Seq(Messages)
  /\ rows \in [Messages -> Row]
  /\ edits \in 0..MaxEdits
  /\ editing \in SUBSET [id : Messages, text : Texts]
  /\ outbox \in SUBSET Event

ClientTypeOK ==
  /\ socket \in {"new", "open", "down"}
  /\ frames \in Seq(Event)
  /\ pending \in SUBSET [event : Answer, via : {"socket", "answer"}]
  /\ list \in Seq(Entry)
  /\ texts \in [Messages -> Texts]
  /\ cursor \in Messages \cup {NoMessage}
  /\ load \in [Slots -> Load]
  /\ \A s \in Slots : Len(load[s].page) <= PageSize
  /\ loadingOlder \in Slots \cup {NoSlot}
  /\ synced \in BOOLEAN

TypeOK == ServerTypeOK /\ ClientTypeOK

NoLoad == [pc |-> "idle", before |-> NoMessage, page |-> <<>>,
           texts |-> [m \in Messages |-> 0], next |-> NoMessage, resync |-> FALSE]

Init ==
  /\ order = <<>>
  /\ rows = [m \in Messages |-> [state |-> "none", text |-> 0, deleted |-> FALSE]]
  /\ edits = 0
  /\ editing = {}
  /\ outbox = {}
  /\ socket = "new"
  /\ frames = <<>>
  /\ pending = {}
  /\ list = <<>>
  /\ texts = [m \in Messages |-> 0]
  /\ cursor = NoMessage
  /\ load = [s \in Slots |-> NoLoad]
  /\ loadingOlder = NoSlot
  /\ synced = FALSE

-----------------------------------------------------------------------------
(* What the server answers *)

\* The stored messages created before a cursor, oldest first.
History(before) ==
  LET stored == {i \in DOMAIN order : rows[order[i]].state = "stored"}
      cut    == {i \in stored : order[i] = before}
  IN At(order, {i \in stored : \A j \in cut : i < j})

\* The statement fetches PAGE_SIZE + 1 rows to learn whether there are more,
\* the page drops the extra one.
NewestAndOneMore(h) == SubSeq(h, IF Len(h) > PageSize THEN Len(h) - PageSize ELSE 1, Len(h))

Newest(h) == SubSeq(h, IF Len(h) > PageSize THEN Len(h) - PageSize + 1 ELSE 1, Len(h))

\* get_messages: one page, and the cursor to ask for the next older one.
PageBefore(before) ==
  LET h == History(before)
  IN [page |-> [i \in DOMAIN Newest(h) |->
                  [id |-> Newest(h)[i], deleted |-> rows[Newest(h)[i]].deleted]],
      next |-> IF Len(h) > PageSize THEN Newest(h)[1] ELSE NoMessage]

\* decryptForMe of a row: a tombstone has no text.
Shown(m) == IF rows[m].deleted THEN 0 ELSE rows[m].text

-----------------------------------------------------------------------------
(* Requests on the server *)

\* send_message up to its commit: created_at is now(), the time the
\* transaction began, so a later message may be stored first.
StartSend(m) ==
  /\ rows[m].state = "none"
  /\ rows' = [rows EXCEPT ![m].state = "sending"]
  /\ order' = Append(order, m)
  /\ UNCHANGED <<edits, editing, outbox, socket, frames, pending, client, load,
                 loadingOlder, synced>>

CommitSend(m) ==
  /\ rows[m].state = "sending"
  /\ rows' = [rows EXCEPT ![m].state = "stored", ![m].text = 1]
  /\ outbox' = outbox \cup {[kind |-> "new", id |-> m, text |-> 1]}
  /\ UNCHANGED <<order, edits, editing, socket, frames, pending, client, load,
                 loadingOlder, synced>>

\* edit_message reads the row and finds it not deleted, ...
ReadForEdit(m) ==
  /\ rows[m].state = "stored"
  /\ ~rows[m].deleted
  /\ edits < MaxEdits
  /\ edits' = edits + 1
  /\ editing' = editing \cup {[id |-> m, text |-> edits + 2]}
  /\ UNCHANGED <<order, rows, outbox, socket, frames, pending, client, load,
                 loadingOlder, synced>>

\* ... and writes ciphertext, iv, encrypted_keys and edited_at, whatever has
\* been committed since.  Its event is built from the row as it was read.
CommitEditWholeRow(e) ==
  /\ e \in editing
  /\ rows' = [rows EXCEPT ![e.id].text = e.text, ![e.id].deleted = FALSE]
  /\ editing' = editing \ {e}
  /\ outbox' = outbox \cup {[kind |-> "edit", id |-> e.id, text |-> e.text]}
  /\ UNCHANGED <<order, edits, socket, frames, pending, client, load,
                 loadingOlder, synced>>

CommitEdit(e) ==
  /\ e \in editing
  /\ rows' = [rows EXCEPT ![e.id].text = e.text]
  /\ editing' = editing \ {e}
  /\ outbox' = outbox \cup {[kind |-> "edit", id |-> e.id, text |-> e.text]}
  /\ UNCHANGED <<order, edits, socket, frames, pending, client, load,
                 loadingOlder, synced>>

\* unsend_message: its read and its commit are one step, it writes blindly.
\* The UI offers it once, on a message that is not a tombstone.
Unsend(m) ==
  /\ rows[m].state = "stored"
  /\ ~rows[m].deleted
  /\ rows' = [rows EXCEPT ![m].deleted = TRUE, ![m].text = 0]
  /\ outbox' = outbox \cup {[kind |-> "delete", id |-> m, text |-> 0]}
  /\ UNCHANGED <<order, edits, editing, socket, frames, pending, client, load,
                 loadingOlder, synced>>

\* fanout_conversation, then the answer.  No open socket, a Redis error or a
\* crash loses the event; the answer to this client's own request may be lost.
Publish(e) ==
  /\ e \in outbox
  /\ outbox' = outbox \ {e}
  /\ \/ /\ socket = "open"
        /\ frames' = Append(frames, e)
     \/ /\ socket # "open" \/ BrokerMayFail
        /\ UNCHANGED frames
  /\ \/ /\ e.id \in Mine
        /\ pending' = pending \cup {[event |-> e, via |-> "answer"]}
     \/ UNCHANGED pending
  /\ UNCHANGED <<server, socket, client, load, loadingOlder, synced>>

-----------------------------------------------------------------------------
(* Events and answers at the client *)

Listed(m) == \E i \in DOMAIN list : list[i].id = m

\* What an event, or the answer to a request, makes of the list.
Marking(e) ==
  [i \in DOMAIN list |->
     IF list[i].id = e.id THEN [list[i] EXCEPT !.deleted = e.kind = "delete"] ELSE list[i]]

ListAfterAppending(e) ==
  CASE e.kind = "new"                -> Append(list, [id |-> e.id, deleted |-> FALSE])
    [] e.kind \in {"edit", "delete"} -> Marking(e)
    [] e.kind = "preview"            -> list

ListAfter(e) ==
  CASE e.kind = "new" /\ ~Listed(e.id) -> Append(list, [id |-> e.id, deleted |-> FALSE])
    [] e.kind \in {"edit", "delete"}    -> Marking(e)
    [] OTHER                            -> list

ShowEvent(e) ==
  /\ list' = ListAfter(e)
  /\ texts' = [texts EXCEPT ![e.id] = e.text]
  /\ UNCHANGED cursor

\* handleWsEvent: message.new and message.edit wait for decryptForMe,
\* message.delete is applied at once.
ReceiveFrame ==
  /\ frames # <<>>
  /\ frames' = Tail(frames)
  /\ LET e == Head(frames)
     IN \/ /\ e.kind = "delete"
           /\ ShowEvent(e)
           /\ UNCHANGED pending
        \/ /\ e.kind # "delete"
           /\ pending' = pending \cup {[event |-> e, via |-> "socket"]}
           /\ UNCHANGED client
  /\ UNCHANGED <<server, outbox, socket, load, loadingOlder, synced>>

\* loadConversations, at a resync or whenever the list of chats is shown,
\* decrypts the newest message of each conversation into textByMessage.
ReadPreview ==
  /\ Newest(History(NoMessage)) # <<>>
  /\ LET page == Newest(History(NoMessage))
         last == page[Len(page)]
     IN pending' = pending \cup
          {[event |-> [kind |-> "preview", id |-> last, text |-> Shown(last)], via |-> "answer"]}
  /\ UNCHANGED <<server, outbox, socket, frames, client, load, loadingOlder, synced>>

\* The decryption of a frame ends, or the answer to a request arrives.
Apply(p) ==
  /\ p \in pending
  /\ pending' = pending \ {p}
  /\ ShowEvent(p.event)
  /\ UNCHANGED <<server, outbox, socket, frames, load, loadingOlder, synced>>

-----------------------------------------------------------------------------
(* Pages at the client *)

Ask(s, before, resync) ==
  [load EXCEPT ![s] = [NoLoad EXCEPT !.pc = "asked", !.before = before, !.resync = resync]]

\* ChatView mounts (again) and calls loadMessages.
Open(s) ==
  /\ load[s].pc = "idle"
  /\ load' = Ask(s, NoMessage, FALSE)
  /\ loadingOlder' = NoSlot
  /\ UNCHANGED <<server, outbox, socket, frames, pending, client, synced>>

\* ChatView scrolled to the top calls loadOlder.
AskOlder(s) ==
  /\ load[s].pc = "idle"
  /\ loadingOlder = NoSlot
  /\ list # <<>>
  /\ cursor # NoMessage
  /\ load' = Ask(s, cursor, FALSE)
  /\ loadingOlder' = s
  /\ UNCHANGED <<server, outbox, socket, frames, pending, client, synced>>

\* The server answers a fetch from what is stored at that moment.
ReadPage(s) ==
  /\ load[s].pc = "asked"
  /\ load' = [load EXCEPT ![s].pc = "read",
                          ![s].page = PageBefore(load[s].before).page,
                          ![s].next = PageBefore(load[s].before).next,
                          ![s].texts = [m \in Messages |-> Shown(m)]]
  /\ UNCHANGED <<server, outbox, socket, frames, pending, client, loadingOlder, synced>>

OfPage(s, m) == \E i \in DOMAIN load[s].page : load[s].page[i].id = m

Finish(s) ==
  /\ load' = [load EXCEPT ![s] = NoLoad]
  /\ cursor' = load[s].next
  /\ texts' = [m \in Messages |-> IF OfPage(s, m) THEN load[s].texts[m] ELSE texts[m]]
  /\ UNCHANGED <<server, outbox, socket, frames, pending>>

\* loadMessages replaces the list, ...
MergeNewest(s) ==
  /\ load[s].pc = "read"
  /\ load[s].before = NoMessage
  /\ LET fresh == {i \in DOMAIN load[s].page : ~Listed(load[s].page[i].id)}
     IN list' = list \o At(load[s].page, fresh)
  /\ synced' = (synced \/ load[s].resync)
  /\ Finish(s)
  /\ UNCHANGED loadingOlder

ApplyNewest(s) ==
  /\ load[s].pc = "read"
  /\ load[s].before = NoMessage
  /\ list' = load[s].page
  /\ synced' = (synced \/ load[s].resync)
  /\ Finish(s)
  /\ UNCHANGED loadingOlder

\* ... loadOlder puts its page before it.
ApplyOlder(s) ==
  /\ load[s].pc = "read"
  /\ load[s].before # NoMessage
  /\ list' = load[s].page \o list
  /\ loadingOlder' = (IF loadingOlder = s THEN NoSlot ELSE loadingOlder)
  /\ Finish(s)
  /\ UNCHANGED synced

\* The request fails; a failed loadOlder leaves the ref set until a remount.
FailLoad(s) ==
  /\ load[s].pc # "idle"
  /\ load' = [load EXCEPT ![s] = NoLoad]
  /\ UNCHANGED <<server, outbox, socket, frames, pending, client, loadingOlder, synced>>

-----------------------------------------------------------------------------
(* The socket *)

\* The first connection fetches nothing.
Connect ==
  /\ socket = "new"
  /\ socket' = "open"
  /\ UNCHANGED <<server, outbox, frames, pending, client, load, loadingOlder, synced>>

\* onopen of a reconnection calls resync, which calls loadMessages (and
\* loadConversations: ReadPreview may happen at any time).
Reconnect(s) ==
  /\ socket = "down"
  /\ load[s].pc = "idle"
  /\ socket' = "open"
  /\ load' = Ask(s, NoMessage, TRUE)
  /\ UNCHANGED <<server, outbox, frames, pending, client, loadingOlder, synced>>

\* The socket closes and what it still carried is lost.
Disconnect ==
  /\ socket = "open"
  /\ socket' = "down"
  /\ frames' = <<>>
  /\ synced' = FALSE
  /\ load' = [s \in Slots |-> [load[s] EXCEPT !.resync = FALSE]]
  /\ UNCHANGED <<server, outbox, pending, client, loadingOlder>>

-----------------------------------------------------------------------------

Next ==
  \/ \E m \in Messages : StartSend(m) \/ CommitSend(m) \/ ReadForEdit(m) \/ Unsend(m)
  \/ \E e \in editing : CommitEdit(e)
  \/ \E e \in outbox : Publish(e)
  \/ ReceiveFrame
  \/ ReadPreview
  \/ \E p \in pending : Apply(p)
  \/ \E s \in Slots : \/ Open(s) \/ AskOlder(s) \/ ReadPage(s)
                      \/ ApplyNewest(s) \/ ApplyOlder(s) \/ FailLoad(s) \/ Reconnect(s)
  \/ Connect
  \/ Disconnect

Spec == Init /\ [][Next]_vars

-----------------------------------------------------------------------------
(* Properties *)

\* Unsending is final in the database: an edit that had read the row before
\* the unsend committed (edit_message checks deleted_at only then) must not
\* bring the message back when it commits after it.
UnsendIsFinal == [][\A m \in Messages : rows[m].deleted => rows'[m].deleted]_vars

Distinct(l) == \A i, j \in DOMAIN l : l[i].id = l[j].id => i = j

\* No message comes to be listed twice, however the echo of an own send, its
\* answer, other events and page fetches race (handleWsEvent and appendSent
\* dedupe by id) - except where loadOlder puts a page before the list.
OnlyPagingDuplicates ==
  [][Distinct(list) /\ ~Distinct(list') =>
       \E s \in Slots : load[s].before # NoMessage /\ load[s].pc = "read" /\ load'[s].pc = "idle"]_vars

\* The newest page of the server is what the end of the list shows.
Fresh ==
  LET page == PageBefore(NoMessage).page
      skip == Len(list) - Len(page)
  IN /\ skip >= 0
     /\ \A i \in DOMAIN page : /\ list[skip + i] = page[i]
                               /\ page[i].deleted \/ texts[page[i].id] = Shown(page[i].id)

\* As long as page loads keep completing, the client ends up showing the
\* server's newest page for good: whatever stale text, lost event or
\* resurrected tombstone it had picked up, replacing the list repairs it.
Reconciles == ([]<><<\E s \in Slots : ApplyNewest(s)>>_vars) => <>[]Fresh

Quiet ==
  /\ editing = {} /\ outbox = {} /\ pending = {} /\ frames = <<>>
  /\ \A m \in Messages : rows[m].state # "sending"
  /\ \A s \in Slots : load[s].pc = "idle"

\* Once the resync of a reconnection has been applied and nothing is in
\* flight, the client shows the server's state ("pull the current state
\* rather than trusting the cache", useWebSocket.ts).
ReconnectReconciles == socket = "open" /\ synced /\ Quiet => Fresh
=============================================================================
