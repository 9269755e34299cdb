------------------------------ MODULE Composer ------------------------------
(***************************************************************************)
(* The chat page of one user (ChatView.tsx) with its input bar             *)
(* (InputBar.tsx), the drafts of this device (drafts.ts), the menu of a    *)
(* message (MessageBubble.tsx), the two ways to get from one chat straight *)
(* to another (CommandPalette.tsx, ForwardSheet.tsx), and what they post   *)
(* (store/chat.ts).                                                        *)
(*                                                                         *)
(* React runs the effects of a render after it, and the renders they cause *)
(* at once; an action is a handler or an answer with all of them.  A page  *)
(* that changes chat without being unmounted keeps its state: whose        *)
(* members it writes to, the message it edits, the one it answers.         *)
(*                                                                         *)
(* A roster is the members a client has seen, tagged with the conversation *)
(* they are of; what is posted keeps the roster it was encrypted for.      *)
(* Ciphertext, photos, files and places are not told apart from a text     *)
(* beyond what happens to the bar.                                         *)
(***************************************************************************)
EXTENDS Naturals, Sequences, FiniteSets, SequencesExt

CONSTANTS
  Convs,
  Groups,       \* conversations whose members change
  Users,        \* members beside the owner of the page
  Texts,        \* what is typed
  Empty,
  None,
  MaxPosted,    \* bound: messages
  MaxRequests,  \* bound: posts under way
  MaxFetches    \* bound: such requests of the page under way

ASSUME NoneIsNoConv == None \notin Convs
ASSUME SomeAreGroups == Groups \subseteq Convs
ASSUME EmptyIsNoText == Empty \notin Texts
ASSUME BoundsAreNumbers ==                  \* a message is there from the start
  MaxPosted \in Nat \ {0} /\ MaxRequests \in Nat /\ MaxFetches \in Nat

VARIABLES
  members,  \* conversation_members
  listed,   \* the store's conversations: the roster of each row
  news,     \* conversation.updated was sent, and no load has followed it
  listing,  \* answer to GET /conversations under way, or None
  page,     \* state of ChatView and InputBar
  fetches,  \* requests of the page whose answer is the conversation, in the order sent
  drafts,   \* localStorage kv_drafts
  posted,   \* messages, in the order of the server
  reqs,     \* sends and edits under way
  hasty     \* history: this page changed chat while one of them was unanswered

vars == <<members, listed, news, listing, page, fetches, drafts, posted, reqs, hasty>>

-----------------------------------------------------------------------------
(* Types *)

Bars == Texts \cup {Empty}
Opt(S) == S \cup {None}
Roster == [of : Convs, who : SUBSET Users]
Ids == 0..MaxPosted                                    \* 0: no message

Page == [at : Opt(Convs),
         roster : Opt(Roster),                         \* conv.members, once conv is there
         editing : Ids, replyTo : Ids,
         text : Bars, sending : BOOLEAN]
Fetch == [kind : {"open", "burn"}, conv : Convs, live : BOOLEAN, got : Opt(Roster)]
Message == [conv : Convs, text : Texts]
Request == [kind : {"send", "edit", "attach", "forward"}, conv : Convs, text : Texts,
            to : Opt(Convs),        \* whose members it is encrypted for; None: nobody's
            reply : Ids, msg : Ids,
            live : BOOLEAN,                            \* the page that asked is mounted
            state : {"sent", "done", "failed"}]

TypeOK ==
  /\ members \in [Convs -> SUBSET Users]
  /\ listed \in [Convs -> Roster]
  /\ news \in BOOLEAN
  /\ listing \in Opt([Convs -> Roster])
  /\ page \in Page
  /\ fetches \in Seq(Fetch) /\ Len(fetches) <= MaxFetches
  /\ drafts \in [Convs -> Bars]
  /\ posted \in Seq(Message) /\ Len(posted) <= MaxPosted
  /\ reqs \in Seq(Request) /\ Len(reqs) <= MaxRequests
  /\ hasty \in BOOLEAN
  /\ \A c \in Convs : listed[c].of = c
  \* only a mounted page has requests that it still hears of
  /\ page.at = None => \A i \in DOMAIN fetches : ~fetches[i].live
  /\ page.at = None => \A i \in DOMAIN reqs : ~reqs[i].live
  \* the send button is off exactly while this page has one send or edit to wait
  \* for: no text is sent twice, and a page never waits for nothing
  /\ Cardinality({i \in DOMAIN reqs : reqs[i].live /\ reqs[i].kind \in {"send", "edit"}})
       = IF page.sending THEN 1 ELSE 0

Away == [at |-> None, roster |-> None, editing |-> 0, replyTo |-> 0, text |-> Empty,
         sending |-> FALSE]
RosterOf(c) == [of |-> c, who |-> members[c]]
Room == Len(reqs) < MaxRequests

Init ==
  /\ members = [c \in Convs |-> Users]
  /\ listed = [c \in Convs |-> RosterOf(c)]
  /\ news = FALSE
  /\ listing = None
  /\ page = Away
  /\ fetches = <<>>
  /\ drafts = [c \in Convs |-> Empty]
  /\ \E c \in Convs, t \in Texts :       \* something the owner sent before
       posted = <<[conv |-> c, text |-> t]>>
  /\ reqs = <<>>
  /\ hasty = FALSE

-----------------------------------------------------------------------------
(* The input bar: its text, and the effect that keeps it as a draft *)

\* setText, then the effect on [conversationId, text, editing].
Bar(p) == drafts' = IF p.editing = 0 THEN [drafts EXCEPT ![p.at] = p.text] ELSE drafts
Show(p) == page' = p /\ Bar(p)

\* Mutant: the effect depends on the conversation only.
TypeUnsaved(t) ==
  /\ page.at # None
  /\ page' = [page EXCEPT !.text = t]
  /\ UNCHANGED <<drafts, members, listed, news, listing, fetches, posted, reqs, hasty>>

Type(t) ==
  /\ page.at # None
  /\ Show([page EXCEPT !.text = t])
  /\ UNCHANGED <<members, listed, news, listing, fetches, posted, reqs, hasty>>

Asked(kind, conv, text, to) ==
  [kind |-> kind, conv |-> conv, text |-> text, to |-> IF to = None THEN None ELSE to.of,
   reply |-> 0, msg |-> 0, live |-> TRUE, state |-> "sent"]

Submit ==
  /\ page.at # None /\ page.editing = 0
  /\ page.text # Empty /\ ~page.sending
  /\ Room
  /\ Show([page EXCEPT !.text = Empty, !.sending = TRUE])
  /\ reqs' = Append(reqs, [Asked("send", page.at, page.text, page.roster)
                             EXCEPT !.reply = page.replyTo])
  /\ UNCHANGED <<members, listed, news, listing, fetches, posted, hasty>>

\* PATCH of the message being edited, whatever chat is shown by now.
SubmitEdit ==
  /\ page.at # None /\ page.editing # 0
  /\ page.text # Empty /\ ~page.sending
  /\ Room
  /\ Show([page EXCEPT !.sending = TRUE])
  /\ reqs' = Append(reqs, [Asked("edit", page.at, page.text, page.roster)
                             EXCEPT !.msg = page.editing])
  /\ UNCHANGED <<members, listed, news, listing, fetches, posted, hasty>>

\* A photo, a file or the place: straight to the store.
Attach(t) ==
  /\ page.at # None
  /\ Room
  /\ reqs' = Append(reqs, Asked("attach", page.at, t, page.roster))
  /\ UNCHANGED <<members, listed, news, listing, page, fetches, drafts, posted, hasty>>

-----------------------------------------------------------------------------
(* The menu of a message *)

Mine == {m \in DOMAIN posted : posted[m].conv = page.at}

\* The effect on editing.id shows the text when another message is edited.
Edit(m) ==
  /\ page.at # None /\ m \in Mine
  /\ Show([page EXCEPT !.replyTo = 0, !.editing = m,
                       !.text = IF page.editing = m THEN @ ELSE posted[m].text])
  /\ UNCHANGED <<members, listed, news, listing, fetches, posted, reqs, hasty>>

\* The effect that saves drafts runs before the one that shows the draft again.
CancelEdit ==
  /\ page.editing # 0
  /\ Show([page EXCEPT !.editing = 0])
  /\ UNCHANGED <<members, listed, news, listing, fetches, posted, reqs, hasty>>

Reply(m) ==
  /\ page.at # None /\ m \in Mine
  /\ page' = [page EXCEPT !.replyTo = m]
  /\ UNCHANGED <<members, listed, news, listing, fetches, drafts, posted, reqs, hasty>>

CancelReply ==
  /\ page.replyTo # 0
  /\ page' = [page EXCEPT !.replyTo = 0]
  /\ UNCHANGED <<members, listed, news, listing, fetches, drafts, posted, reqs, hasty>>

\* The sheet lists the store's rows, and a row brings its members.  It is opened
\* and answered in one step.
Forward(m, c) ==
  /\ page.at # None /\ m \in Mine
  /\ Room
  /\ reqs' = Append(reqs, Asked("forward", c, posted[m].text, listed[c]))
  /\ UNCHANGED <<members, listed, news, listing, page, fetches, drafts, posted, hasty>>

-----------------------------------------------------------------------------
(* Getting to a chat and away *)

Fetching == \E i \in DOMAIN fetches : fetches[i].live
Ask(kind, c) ==
  /\ Len(fetches) < MaxFetches
  /\ fetches' = Append(fetches, [kind |-> kind, conv |-> c, live |-> TRUE, got |-> None])

Mount(c) ==
  /\ Ask("open", c)
  /\ page' = [Away EXCEPT !.at = c, !.text = drafts[c]]
  /\ hasty' = FALSE

\* Mutant: the members of the store's row are not taken over.
SwitchKeepsRoster(c) ==
  /\ Ask("open", c)
  /\ page' = [page EXCEPT !.at = c, !.text = drafts[c]]
  /\ hasty' = (hasty \/ Fetching)

\* Same component, another id: a roster follows the store's row, the bar shows
\* the draft of the chat, and everything else stays.
Switch(c) ==
  /\ Ask("open", c)
  /\ page' = [page EXCEPT !.at = c, !.text = drafts[c],
                          !.roster = IF @ = None THEN None ELSE listed[c]]
  /\ hasty' = (hasty \/ Fetching)

Navigate(c) ==
  \/ page.at = None /\ Mount(c)
  \/ page.at = c /\ UNCHANGED <<page, fetches, hasty>>
  \/ page.at \notin {c, None} /\ Switch(c)

Unmount ==
  /\ page' = Away
  /\ fetches' = [i \in DOMAIN fetches |-> [fetches[i] EXCEPT !.live = FALSE]]
  /\ reqs' = [i \in DOMAIN reqs |-> [reqs[i] EXCEPT !.live = FALSE]]

\* From the list of conversations, or a notification.
Open(c) ==
  /\ page.at = None
  /\ Navigate(c)
  /\ UNCHANGED <<members, listed, news, listing, drafts, posted, reqs>>

\* The palette.
Jump(c) ==
  /\ page.at \notin {c, None}
  /\ Navigate(c)
  /\ UNCHANGED <<members, listed, news, listing, drafts, posted, reqs>>

Leave ==
  /\ page.at # None
  /\ Unmount
  /\ UNCHANGED <<members, listed, news, listing, drafts, posted, hasty>>

-----------------------------------------------------------------------------
(* Who is in the chat *)

\* Somebody is added, removed or leaves; conversation.updated goes out.
MembersChange(c, u) ==
  /\ c \in Groups
  /\ members' = [members EXCEPT ![c] = IF u \in @ THEN @ \ {u} ELSE @ \cup {u}]
  /\ news' = TRUE
  /\ UNCHANGED <<listed, listing, page, fetches, drafts, posted, reqs, hasty>>

FetchServed(i) ==
  /\ fetches[i].got = None
  /\ fetches' = [fetches EXCEPT ![i].got = RosterOf(fetches[i].conv)]
  /\ UNCHANGED <<members, listed, news, listing, page, drafts, posted, reqs, hasty>>

\* toggleBurn, the flame in the header: PATCH .../disappearing.
ToggleBurn ==
  /\ page.roster # None
  /\ Ask("burn", page.at)
  /\ UNCHANGED <<members, listed, news, listing, page, drafts, posted, reqs, hasty>>

\* setConv, also when the page shows another chat by now.
FetchArrives(i) ==
  /\ fetches[i].got # None
  /\ page' = IF fetches[i].live THEN [page EXCEPT !.roster = fetches[i].got] ELSE page
  /\ fetches' = RemoveAt(fetches, i)
  /\ UNCHANGED <<members, listed, news, listing, drafts, posted, reqs, hasty>>

\* navigate("/"), wherever the user is by now.
OpeningFails(i) ==
  /\ fetches[i].kind = "open"
  /\ page' = Away
  /\ fetches' = RemoveAt([k \in DOMAIN fetches |-> [fetches[k] EXCEPT !.live = FALSE]], i)
  /\ reqs' = [k \in DOMAIN reqs |-> [reqs[k] EXCEPT !.live = FALSE]]
  /\ UNCHANGED <<members, listed, news, listing, drafts, posted, hasty>>

ToggleFails(i) ==
  /\ fetches[i].kind = "burn"
  /\ fetches' = RemoveAt(fetches, i)
  /\ UNCHANGED <<members, listed, news, listing, page, drafts, posted, reqs, hasty>>

\* loadConversations: on conversation.updated, a reconnect, or the list page.
ListServed ==
  /\ listing = None
  /\ listing' = [c \in Convs |-> RosterOf(c)]
  /\ news' = FALSE
  /\ UNCHANGED <<members, listed, page, fetches, drafts, posted, reqs, hasty>>

\* The effect on storeConv: the roster of a page that has one follows.
ListArrives ==
  /\ listing # None
  /\ listed' = listing
  /\ listing' = None
  /\ page' = IF page.at = None \/ page.roster = None THEN page
             ELSE [page EXCEPT !.roster = listing[page.at]]
  /\ UNCHANGED <<members, news, fetches, drafts, posted, reqs, hasty>>

-----------------------------------------------------------------------------
(* What becomes of a post *)

Stored(r) == [conv |-> r.conv, text |-> r.text]
Answered(i, state) == reqs' = [reqs EXCEPT ![i].state = state]

Post(i) ==
  /\ reqs[i].state = "sent"
  /\ IF reqs[i].kind = "edit"
     THEN posted' = [posted EXCEPT ![reqs[i].msg].text = reqs[i].text]
     ELSE Len(posted) < MaxPosted /\ posted' = Append(posted, Stored(reqs[i]))
  /\ Answered(i, "done")
  /\ UNCHANGED <<members, listed, news, listing, page, fetches, drafts, hasty>>

\* Refused, or the connection is lost before or after the server took it.
PostFails(i) ==
  /\ reqs[i].state \in {"sent", "done"}
  /\ Answered(i, "failed")
  /\ UNCHANGED <<members, listed, news, listing, page, fetches, drafts, posted, hasty>>

Finished(i, kind, state) == reqs[i].kind = kind /\ reqs[i].state = state

\* onSend clears the reply, submit the button.
SendDone(i) ==
  /\ Finished(i, "send", "done")
  /\ page' = IF reqs[i].live THEN [page EXCEPT !.replyTo = 0, !.sending = FALSE] ELSE page
  /\ reqs' = RemoveAt(reqs, i)
  /\ UNCHANGED <<members, listed, news, listing, fetches, drafts, posted, hasty>>

\* Mutant: no finally.
SendFailsStuck(i) ==
  /\ Finished(i, "send", "failed")
  /\ IF reqs[i].live THEN Show([page EXCEPT !.text = reqs[i].text]) ELSE UNCHANGED <<page, drafts>>
  /\ reqs' = RemoveAt(reqs, i)
  /\ UNCHANGED <<members, listed, news, listing, fetches, posted, hasty>>

\* The text is back in the bar, over whatever is there.
SendFails(i) ==
  /\ Finished(i, "send", "failed")
  /\ IF reqs[i].live THEN Show([page EXCEPT !.text = reqs[i].text, !.sending = FALSE])
     ELSE UNCHANGED <<page, drafts>>
  /\ reqs' = RemoveAt(reqs, i)
  /\ UNCHANGED <<members, listed, news, listing, fetches, posted, hasty>>

\* The draft of the chat the edit was submitted in is shown again.
EditDone(i) ==
  /\ Finished(i, "edit", "done")
  /\ IF reqs[i].live
     THEN Show([page EXCEPT !.text = drafts[reqs[i].conv], !.editing = 0, !.sending = FALSE])
     ELSE UNCHANGED <<page, drafts>>
  /\ reqs' = RemoveAt(reqs, i)
  /\ UNCHANGED <<members, listed, news, listing, fetches, posted, hasty>>

EditFails(i) ==
  /\ Finished(i, "edit", "failed")
  /\ page' = IF reqs[i].live THEN [page EXCEPT !.sending = FALSE] ELSE page
  /\ reqs' = RemoveAt(reqs, i)
  /\ UNCHANGED <<members, listed, news, listing, fetches, drafts, posted, hasty>>

\* Nothing but an alert.
AttachEnds(i) ==
  /\ Finished(i, "attach", "done") \/ Finished(i, "attach", "failed")
  /\ reqs' = RemoveAt(reqs, i)
  /\ UNCHANGED <<members, listed, news, listing, page, fetches, drafts, posted, hasty>>

\* The user is taken to the chat, wherever they are by now.
ForwardDone(i) ==
  /\ Finished(i, "forward", "done")
  /\ reqs' = RemoveAt(reqs, i)
  /\ Navigate(reqs[i].conv)
  /\ UNCHANGED <<members, listed, news, listing, drafts, posted>>

ForwardFails(i) ==
  /\ Finished(i, "forward", "failed")
  /\ reqs' = RemoveAt(reqs, i)
  /\ UNCHANGED <<members, listed, news, listing, page, fetches, drafts, posted, hasty>>

-----------------------------------------------------------------------------
(* Specification *)

Answer(i) ==
  \/ Post(i) \/ PostFails(i)
  \/ SendDone(i) \/ SendFails(i) \/ EditDone(i) \/ EditFails(i)
  \/ AttachEnds(i) \/ ForwardDone(i) \/ ForwardFails(i)

Next ==
  \/ \E t \in Bars : Type(t)
  \/ Submit \/ SubmitEdit
  \/ \E t \in Texts : Attach(t)
  \/ \E m \in DOMAIN posted : Edit(m) \/ Reply(m) \/ (\E c \in Convs : Forward(m, c))
  \/ CancelEdit \/ CancelReply
  \/ \E c \in Convs : Open(c) \/ Jump(c) \/ (\E u \in Users : MembersChange(c, u))
  \/ Leave
  \/ \E i \in DOMAIN fetches : FetchServed(i) \/ FetchArrives(i) \/ OpeningFails(i) \/ ToggleFails(i)
  \/ ToggleBurn
  \/ ListServed \/ ListArrives
  \/ \E i \in DOMAIN reqs : Answer(i)

Spec == Init /\ [][Next]_vars

-----------------------------------------------------------------------------
(* Properties *)

\* What is in the bar is the draft of the chat on screen, through failed sends,
\* late answers, edits and changes of chat: a reload loses nothing that is not
\* an edit.
BarIsDraft == page.at # None /\ page.editing = 0 => page.text = drafts[page.at]

\* Whoever waits for a page to load before jumping on writes to members of the
\* chat on screen, never to those of the chat before.
RosterIsOfThisChat == page.roster # None /\ ~hasty => page.roster.of = page.at

\* Leaving an edit restores the draft (InputBar.tsx:45).
LeavingRestoresDraft ==
  [][page.editing # 0 /\ page'.editing = 0 /\ page'.at = page.at => page'.text = drafts[page.at]]_vars

\* Once every change was followed by a load, and all that was asked for has
\* arrived, the page sends to the members of the store's row (ChatView.tsx:157-159).
RosterFollowsList ==
  page.roster # None /\ fetches = <<>> /\ ~news /\ listing = None
    => page.roster = listed[page.at]

\* What is sent can be read: it is encrypted for the members of its conversation.
ReadableByItsMembers ==
  \A i \in DOMAIN reqs : reqs[i].to = reqs[i].conv
=============================================================================
