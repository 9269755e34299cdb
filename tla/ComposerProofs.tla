---------------------------- MODULE ComposerProofs ----------------------------
(***************************************************************************)
(* Theorems about Composer, for any chats, members, texts and bounds: its  *)
(* types, that the bar is the draft of the chat on screen, and that a page *)
(* which was not hurried from chat to chat writes to members of its own.   *)
(*                                                                         *)
(* The argument: a page waits for at most one send or edit, because the    *)
(* button is off until its answer, and the answers of other pages do not   *)
(* reach it.  Whatever sets the text without saving it does so while an    *)
(* edit is shown, or takes it from the draft.  An answer about the members *)
(* is about the chat it was asked for; one that is heard was asked by this *)
(* page, and for the chat on screen unless the page moved on without it.   *)
(***************************************************************************)
EXTENDS Composer, FiniteSetTheorems, TLAPS

\* A leaf is for the SMT solver, which is given time, unless it names another prover.
USE SMTT(60)

\* The types of what the lemmas below do not keep.
Typed ==
  /\ members \in [Convs -> SUBSET Users]
  /\ listed \in [Convs -> Roster]
  /\ news \in BOOLEAN
  /\ listing \in Opt([Convs -> Roster])
  /\ drafts \in [Convs -> Bars]
  /\ posted \in Seq(Message) /\ Len(posted) <= MaxPosted
  /\ hasty \in BOOLEAN

\* A row of the store, and of a list on its way to it, is of its chat.
RowsAreTheirs ==
  /\ \A c \in Convs : listed[c].of = c
  /\ listing # None => \A c \in Convs : listing[c].of = c

\* A page edits a message that exists, n messages being posted; without a page
\* there is no roster, no edit and nothing to wait for.
PageHolds(p, n) ==
  /\ p \in Page
  /\ p.editing <= n
  /\ p.at = None => p.roster = None /\ p.editing = 0 /\ ~p.sending

\* A request of the page on its way answers for the chat it names, and names the
\* chat on screen if the page still hears of it and was not hasty.
Due(f, at, hurried) ==
  /\ f.live => at # None
  /\ f.got # None => f.got.of = f.conv
  /\ f.live /\ ~hurried => f.conv = at
FetchesHold(q, at, hurried) ==
  /\ q \in Seq(Fetch) /\ Len(q) <= MaxFetches
  /\ \A i \in DOMAIN q : Due(q[i], at, hurried)

\* A post under way is heard of by the page on screen only, and edits a message
\* that exists.
Asking(r, at, n) ==
  /\ r.live => at # None
  /\ r.kind = "edit" => r.msg \in 1..n

\* The button is off exactly while the page waits for one send or edit.
Waits(r) == r.live /\ r.kind \in {"send", "edit"}
Awaits(q, off) ==
  /\ \A i, j \in DOMAIN q : Waits(q[i]) /\ Waits(q[j]) => i = j
  /\ off <=> \E i \in DOMAIN q : Waits(q[i])
RequestsHold(q, at, off, n) ==
  /\ q \in Seq(Request) /\ Len(q) <= MaxRequests
  /\ \A i \in DOMAIN q : Asking(q[i], at, n)
  /\ Awaits(q, off)

IInv ==
  /\ Typed
  /\ RowsAreTheirs
  /\ PageHolds(page, Len(posted))
  /\ FetchesHold(fetches, page.at, hasty)
  /\ RequestsHold(reqs, page.at, page.sending, Len(posted))
  /\ BarIsDraft
  /\ RosterIsOfThisChat


USE NoneIsNoConv, SomeAreGroups, EmptyIsNoText, BoundsAreNumbers DEF Opt, Bars, Ids

-----------------------------------------------------------------------------
(* Queues from which answers are taken out of turn *)

\* Where the k-th of the others was before the i-th was taken out.
Before(i, k) == IF k < i THEN k ELSE k + 1

LEMMA Removed ==
  ASSUME NEW T, NEW s \in Seq(T), NEW i \in DOMAIN s
  PROVE  /\ RemoveAt(s, i) \in Seq(T)
         /\ Len(RemoveAt(s, i)) = Len(s) - 1
         /\ \A k \in DOMAIN RemoveAt(s, i) :
              /\ Before(i, k) \in DOMAIN s \ {i}
              /\ RemoveAt(s, i)[k] = s[Before(i, k)]
         /\ \A j \in DOMAIN s \ {i} :
              \E k \in DOMAIN RemoveAt(s, i) : j = Before(i, k)
<1> DEFINE a == SubSeq(s, 1, i - 1)
           b == SubSeq(s, i + 1, Len(s))
<1>1. i \in 1..Len(s)
  OBVIOUS
<1>2. a \in Seq(T) /\ Len(a) = i - 1 /\ \A k \in 1..(i - 1) : a[k] = s[k]
  BY <1>1
<1>3. b \in Seq(T) /\ Len(b) = Len(s) - i /\ \A k \in 1..(Len(s) - i) : b[k] = s[k + i]
  BY <1>1
<1>4. RemoveAt(s, i) = a \o b
  BY DEF RemoveAt
<1> HIDE DEF a, b
<1>5. /\ RemoveAt(s, i) \in Seq(T)
      /\ Len(RemoveAt(s, i)) = Len(s) - 1
      /\ DOMAIN RemoveAt(s, i) = 1..(Len(s) - 1)
  BY <1>1, <1>2, <1>3, <1>4
<1>6. ASSUME NEW k \in DOMAIN RemoveAt(s, i)
      PROVE  /\ Before(i, k) \in DOMAIN s \ {i}
             /\ RemoveAt(s, i)[k] = s[Before(i, k)]
  <2>1. CASE k < i
    BY <1>1, <1>2, <1>3, <1>4, <1>5, <2>1 DEF Before
  <2>2. CASE ~(k < i)
    <3>1. (a \o b)[k] = b[k - Len(a)] /\ k - Len(a) \in 1..(Len(s) - i)
      BY <1>1, <1>2, <1>3, <1>5, <2>2
    <3>2. (k - Len(a)) + i = k + 1
      BY <1>1, <1>2, <1>5
    <3>3. b[k - Len(a)] = s[k + 1]
      BY Zenon, <1>3, <3>1, <3>2
    <3> QED
      BY <1>1, <1>4, <1>5, <2>2, <3>1, <3>3 DEF Before
  <2> QED
    BY <2>1, <2>2
<1>7. ASSUME NEW j \in DOMAIN s \ {i}
      PROVE  \E k \in DOMAIN RemoveAt(s, i) : j = Before(i, k)
  <2>1. CASE j < i
    BY <1>1, <1>5, <2>1 DEF Before
  <2>2. CASE j > i
    <3>1. j - 1 \in DOMAIN RemoveAt(s, i) /\ j = Before(i, j - 1)
      BY <1>1, <1>5, <2>2 DEF Before
    <3> QED
      BY <3>1
  <2> QED
    BY <1>1, <2>1, <2>2
<1> QED
  BY <1>5, <1>6, <1>7

-----------------------------------------------------------------------------
(* Requests of the page *)

\* A page that is opened hears of none of those under way; one that changes chat
\* before an answer is hasty.
LEMMA FetchesMove ==
  ASSUME NEW q, NEW at, NEW hurried, FetchesHold(q, at, hurried),
         NEW c \in Convs, NEW h, h \/ \A i \in DOMAIN q : ~q[i].live
  PROVE  FetchesHold(q, c, h)
BY DEF FetchesHold, Due

LEMMA FetchIsAsked ==
  ASSUME NEW q, NEW c \in Convs, NEW hurried, FetchesHold(q, c, hurried),
         Len(q) < MaxFetches, NEW kind \in {"open", "burn"}
  PROVE  FetchesHold(Append(q, [kind |-> kind, conv |-> c, live |-> TRUE, got |-> None]),
                     c, hurried)
<1> DEFINE f == [kind |-> kind, conv |-> c, live |-> TRUE, got |-> None]
           t == Append(q, f)
<1>1. f \in Fetch /\ f.conv = c /\ f.got = None
  BY DEF Fetch
<1> HIDE DEF f
<1>2. /\ t \in Seq(Fetch) /\ Len(t) = Len(q) + 1
      /\ \A i \in DOMAIN t : t[i] = IF i \in DOMAIN q THEN q[i] ELSE f
  BY <1>1 DEF FetchesHold
<1> HIDE DEF t
<1>3. FetchesHold(t, c, hurried)
  BY <1>1, <1>2 DEF FetchesHold, Due
<1> QED
  BY <1>3 DEF t, f

LEMMA FetchIsServed ==
  ASSUME NEW q, NEW at, NEW hurried, FetchesHold(q, at, hurried),
         NEW i \in DOMAIN q, NEW r \in Roster, r.of = q[i].conv
  PROVE  FetchesHold([q EXCEPT ![i].got = r], at, hurried)
<1> DEFINE f == [q[i] EXCEPT !.got = r]
           t == [q EXCEPT ![i].got = r]
<1>1. q[i] \in Fetch /\ q \in Seq(Fetch)
  BY DEF FetchesHold
<1>2. f \in Fetch /\ f.conv = q[i].conv /\ f.live = q[i].live /\ f.got = r
  BY <1>1 DEF Fetch
<1>3. t = [q EXCEPT ![i] = f]
  OBVIOUS
<1> HIDE DEF f
<1>4. /\ t \in Seq(Fetch) /\ Len(t) = Len(q) /\ DOMAIN t = DOMAIN q
      /\ \A k \in DOMAIN t : t[k] = IF k = i THEN f ELSE q[k]
  BY <1>1, <1>2, <1>3
<1> HIDE DEF t
<1>5. FetchesHold(t, at, hurried)
  BY <1>2, <1>4 DEF FetchesHold, Due
<1> QED
  BY <1>5 DEF t

LEMMA FetchIsTaken ==
  ASSUME NEW q, NEW at, NEW hurried, FetchesHold(q, at, hurried), NEW i \in DOMAIN q
  PROVE  FetchesHold(RemoveAt(q, i), at, hurried)
<1>1. q \in Seq(Fetch) /\ Len(q) \in Nat
  BY DEF FetchesHold
<1> QED
  BY <1>1, Removed DEF FetchesHold

\* The page is gone.
LEMMA FetchesAreMuted ==
  ASSUME NEW q, NEW at, NEW hurried, FetchesHold(q, at, hurried)
  PROVE  \A a, h : FetchesHold([i \in DOMAIN q |-> [q[i] EXCEPT !.live = FALSE]], a, h)
<1> DEFINE f(i) == [q[i] EXCEPT !.live = FALSE]
           t == [i \in DOMAIN q |-> f(i)]
<1>1. \A i \in DOMAIN q :
        f(i) \in Fetch /\ ~f(i).live /\ f(i).got = q[i].got /\ f(i).conv = q[i].conv
  <2> TAKE i \in DOMAIN q
  <2>1. q[i] \in Fetch
    BY DEF FetchesHold
  <2> QED
    BY Zenon, <2>1 DEF Fetch
<1> HIDE DEF f
<1>2. t \in Seq(Fetch) /\ Len(t) = Len(q) /\ DOMAIN t = DOMAIN q
  BY <1>1 DEF FetchesHold
<1>3. \A a, h : FetchesHold(t, a, h)
  BY <1>1, <1>2 DEF FetchesHold, Due
<1> QED
  BY <1>3 DEF f

-----------------------------------------------------------------------------
(* Posts *)

LEMMA PostIsAsked ==
  ASSUME NEW q, NEW at, NEW off \in BOOLEAN, NEW n, RequestsHold(q, at, off, n),
         Len(q) < MaxRequests, at # None,
         NEW r \in Request, r.kind = "edit" => r.msg \in 1..n, r.live,
         NEW b \in BOOLEAN, b <=> off \/ Waits(r), ~(off /\ Waits(r))
  PROVE  RequestsHold(Append(q, r), at, b, n)
<1> DEFINE t == Append(q, r)
<1>1. /\ t \in Seq(Request) /\ Len(t) = Len(q) + 1
      /\ DOMAIN q = 1..Len(q) /\ DOMAIN t = 1..(Len(q) + 1)
      /\ t[Len(q) + 1] = r
      /\ \A i \in DOMAIN q : t[i] = q[i]
  BY DEF RequestsHold
<1> HIDE DEF t
<1>2. \A i \in DOMAIN t : IF i \in DOMAIN q THEN t[i] = q[i] ELSE i = Len(q) + 1
  BY <1>1 DEF RequestsHold
<1>3. DOMAIN q \subseteq DOMAIN t /\ Len(q) + 1 \in DOMAIN t /\ Len(q) + 1 \notin DOMAIN q
  BY <1>1 DEF RequestsHold
<1>4. \A i \in DOMAIN t : Asking(t[i], at, n)
  BY <1>1, <1>2 DEF RequestsHold, Asking
<1>5. Awaits(t, b)
  BY <1>1, <1>2, <1>3 DEF RequestsHold, Awaits
<1> QED
  BY <1>1, <1>4, <1>5 DEF RequestsHold, t

\* The server answers, or nobody does.
LEMMA PostIsAnswered ==
  ASSUME NEW q, NEW at, NEW off, NEW n, RequestsHold(q, at, off, n),
         NEW i \in DOMAIN q, NEW state \in {"done", "failed"}
  PROVE  RequestsHold([q EXCEPT ![i].state = state], at, off, n)
<1> DEFINE r == [q[i] EXCEPT !.state = state]
           t == [q EXCEPT ![i].state = state]
<1>1. q[i] \in Request /\ q \in Seq(Request)
  BY DEF RequestsHold
<1>2. r \in Request /\ r.kind = q[i].kind /\ r.live = q[i].live /\ r.msg = q[i].msg
  BY Zenon, <1>1 DEF Request
<1>3. t = [q EXCEPT ![i] = r]
  OBVIOUS
<1> HIDE DEF r
<1>4. /\ t \in Seq(Request) /\ Len(t) = Len(q) /\ DOMAIN t = DOMAIN q
      /\ \A k \in DOMAIN t : t[k] = IF k = i THEN r ELSE q[k]
  BY <1>1, <1>2, <1>3
<1> HIDE DEF t
<1>5. \A k \in DOMAIN t : Waits(t[k]) <=> Waits(q[k])
  BY <1>2, <1>4 DEF Waits
<1>6. \A k \in DOMAIN t : Asking(t[k], at, n)
  BY <1>2, <1>4 DEF RequestsHold, Asking
<1>7. RequestsHold(t, at, off, n)
  BY <1>4, <1>5, <1>6 DEF RequestsHold, Awaits
<1> QED
  BY <1>7 DEF t

LEMMA PostIsTaken ==
  ASSUME NEW q, NEW at, NEW off \in BOOLEAN, NEW n, RequestsHold(q, at, off, n),
         NEW i \in DOMAIN q
  PROVE  RequestsHold(RemoveAt(q, i), at, off /\ ~Waits(q[i]), n)
<1> DEFINE t == RemoveAt(q, i)
<1>1. q \in Seq(Request) /\ Len(q) \in Nat
  BY DEF RequestsHold
<1>2. /\ t \in Seq(Request) /\ Len(t) = Len(q) - 1
      /\ \A k \in DOMAIN t : Before(i, k) \in DOMAIN q \ {i} /\ t[k] = q[Before(i, k)]
      /\ \A j \in DOMAIN q \ {i} : \E k \in DOMAIN t : j = Before(i, k)
  BY <1>1, Removed
<1>3. \A j, k \in DOMAIN t : Before(i, j) = Before(i, k) => j = k
  BY <1>1, <1>2 DEF Before
<1> HIDE DEF t
<1>4. \A k \in DOMAIN t : Asking(t[k], at, n)
  BY <1>2 DEF RequestsHold
<1>5. \A j, k \in DOMAIN t : Waits(t[j]) /\ Waits(t[k]) => j = k
  BY <1>2, <1>3 DEF RequestsHold, Awaits
<1>6. off /\ ~Waits(q[i]) <=> \E k \in DOMAIN t : Waits(t[k])
  <2>1. ASSUME off, ~Waits(q[i]) PROVE \E k \in DOMAIN t : Waits(t[k])
    <3>1. PICK j \in DOMAIN q : Waits(q[j])
      BY <2>1 DEF RequestsHold, Awaits
    <3>2. j \in DOMAIN q \ {i}
      BY <2>1, <3>1
    <3> QED
      BY <1>2, <3>1, <3>2
  <2>2. ASSUME NEW k \in DOMAIN t, Waits(t[k]) PROVE off /\ ~Waits(q[i])
    BY <1>2, <2>2 DEF RequestsHold, Awaits
  <2> QED
    BY <2>1, <2>2
<1>7. RequestsHold(t, at, off /\ ~Waits(q[i]), n)
  BY <1>1, <1>2, <1>4, <1>5, <1>6 DEF RequestsHold, Awaits
<1> QED
  BY <1>7 DEF t

\* The page is gone: nobody waits any more.
LEMMA PostsAreMuted ==
  ASSUME NEW q, NEW at, NEW off, NEW n, RequestsHold(q, at, off, n)
  PROVE  \A a : RequestsHold([i \in DOMAIN q |-> [q[i] EXCEPT !.live = FALSE]], a, FALSE, n)
<1> DEFINE r(i) == [q[i] EXCEPT !.live = FALSE]
           t == [i \in DOMAIN q |-> r(i)]
<1>1. \A i \in DOMAIN q :
        r(i) \in Request /\ ~r(i).live /\ r(i).kind = q[i].kind /\ r(i).msg = q[i].msg
  <2> TAKE i \in DOMAIN q
  <2>1. q[i] \in Request
    BY DEF RequestsHold
  <2> QED
    BY Zenon, <2>1 DEF Request
<1> HIDE DEF r
<1>2. t \in Seq(Request) /\ Len(t) = Len(q) /\ DOMAIN t = DOMAIN q
  BY <1>1 DEF RequestsHold
<1>3. \A i \in DOMAIN t : ~Waits(t[i])
  BY <1>1, <1>2 DEF Waits
<1>4. \A a : \A i \in DOMAIN t : Asking(t[i], a, n)
  BY <1>1, <1>2 DEF RequestsHold, Asking
<1>5. \A a : RequestsHold(t, a, FALSE, n)
  BY <1>2, <1>3, <1>4 DEF RequestsHold, Awaits
<1> QED
  BY Zenon, <1>5 DEF r

\* Another chat is shown, or a message was added.
LEMMA PostsStay ==
  ASSUME NEW q, NEW at, NEW off, NEW n \in Nat, RequestsHold(q, at, off, n),
         NEW a, at # None => a # None, NEW m \in Nat, n <= m
  PROVE  RequestsHold(q, a, off, m)
BY DEF RequestsHold, Asking

-----------------------------------------------------------------------------
(* The page and its bar *)

\* A page by its fields.
LEMMA PageFields ==
  ASSUME NEW p \in Page
  PROVE  /\ p.at \in Opt(Convs) /\ p.roster \in Opt(Roster)
         /\ p.editing \in Ids /\ p.replyTo \in Ids
         /\ p.text \in Bars /\ p.sending \in BOOLEAN
BY DEF Page

\* What is shown is saved, unless it is an edit.
LEMMA ShownIsSaved ==
  ASSUME drafts \in [Convs -> Bars], NEW p \in Page, p.at # None, Show(p)
  PROVE  page' = p /\ drafts' \in [Convs -> Bars] /\ BarIsDraft'
<1>1. p.at \in Convs /\ p.text \in Bars /\ page' = p
  BY PageFields DEF Show
<1>2. drafts' = IF p.editing = 0 THEN [drafts EXCEPT ![p.at] = p.text] ELSE drafts
  BY DEF Show, Bar
<1>3. drafts' \in [Convs -> Bars]
  BY <1>1, <1>2
<1>4. p.editing = 0 => drafts'[p.at] = p.text
  BY <1>1, <1>2
<1> QED
  BY <1>1, <1>3, <1>4 DEF BarIsDraft

\* A step of the bar.
LEMMA BarMoves ==
  ASSUME IInv,
         NEW p, PageHolds(p, Len(posted)), Show(p),
         p.at # None, p.at = page.at, p.roster = page.roster,
         RequestsHold(reqs', page.at, p.sending, Len(posted)),
         UNCHANGED <<members, listed, news, listing, fetches, posted, hasty>>
  PROVE  IInv'
<1>1. page' = p /\ drafts' \in [Convs -> Bars] /\ BarIsDraft'
  BY ShownIsSaved DEF IInv, Typed, PageHolds
<1>2. Typed'
  BY <1>1 DEF IInv, Typed
<1>3. RowsAreTheirs'
  BY DEF IInv, RowsAreTheirs
<1>4. PageHolds(page, Len(posted))' /\ RequestsHold(reqs, page.at, page.sending, Len(posted))'
  BY <1>1
<1>5. FetchesHold(fetches, page.at, hasty)'
  BY <1>1 DEF IInv
<1>6. RosterIsOfThisChat'
  BY <1>1 DEF IInv, RosterIsOfThisChat
<1> QED
  BY <1>1, <1>2, <1>3, <1>4, <1>5, <1>6 DEF IInv

\* A step that leaves the text, the chat and its roster alone.
LEMMA BarRests ==
  ASSUME IInv,
         PageHolds(page', Len(posted)),
         page'.at = page.at, page'.roster = page.roster,
         page'.text = page.text, page'.editing = page.editing,
         RequestsHold(reqs', page.at, page'.sending, Len(posted)),
         UNCHANGED <<members, listed, news, listing, fetches, drafts, posted, hasty>>
  PROVE  IInv'
<1>1. Typed'
  BY DEF IInv, Typed
<1>2. RowsAreTheirs'
  BY DEF IInv, RowsAreTheirs
<1>3. PageHolds(page, Len(posted))' /\ RequestsHold(reqs, page.at, page.sending, Len(posted))'
  OBVIOUS
<1>4. FetchesHold(fetches, page.at, hasty)'
  BY DEF IInv
<1>5. BarIsDraft'
  BY DEF IInv, BarIsDraft
<1>6. RosterIsOfThisChat'
  BY DEF IInv, RosterIsOfThisChat
<1> QED
  BY <1>1, <1>2, <1>3, <1>4, <1>5, <1>6 DEF IInv

-----------------------------------------------------------------------------
(* The initial states *)

LEMMA InitInv == Init => IInv
<1> SUFFICES ASSUME Init PROVE IInv
  OBVIOUS
<1>1. \A c \in Convs : RosterOf(c) \in Roster /\ RosterOf(c).of = c
  BY DEF Init, RosterOf, Roster
<1>2. Typed
  <2>1. Len(posted) = 1 /\ posted \in Seq(Message)
    BY DEF Init, Message
  <2>2. listed \in [Convs -> Roster]
    BY <1>1 DEF Init
  <2>3. Len(posted) <= MaxPosted
    BY <2>1 DEF Init
  <2> QED
    BY Zenon, <2>1, <2>2, <2>3 DEF Init, Typed
<1>3. RowsAreTheirs
  BY <1>1 DEF Init, RowsAreTheirs
<1>4. PageHolds(page, Len(posted)) /\ page.sending = FALSE /\ page.at = None /\ page.roster = None
  <2>1. page \in Page /\ page.editing = 0 /\ page.roster = None /\ page.at = None /\ ~page.sending
    BY DEF Init, Away, Page
  <2> QED
    BY <2>1 DEF Init, PageHolds, Away
<1>5. FetchesHold(fetches, page.at, hasty)
  BY DEF Init, FetchesHold
<1>6. RequestsHold(reqs, page.at, page.sending, Len(posted))
  BY <1>4 DEF Init, RequestsHold, Awaits
<1> QED
  BY <1>2, <1>3, <1>4, <1>5, <1>6 DEF IInv, BarIsDraft, RosterIsOfThisChat

-----------------------------------------------------------------------------
(* The bar *)

LEMMA TypeStep ==
  ASSUME IInv, NEW t \in Bars, Type(t)
  PROVE  IInv'
<1> DEFINE p == [page EXCEPT !.text = t]
<1>1. /\ p \in Page /\ p.at = page.at /\ p.roster = page.roster
      /\ p.editing = page.editing /\ p.sending = page.sending
  BY DEF IInv, PageHolds, Page
<1>2. Show(p) /\ p.at # None
  BY <1>1 DEF Type
<1> HIDE DEF p
<1>3. PageHolds(p, Len(posted))
  BY <1>1 DEF IInv, PageHolds
<1> QED
  BY <1>1, <1>2, <1>3, BarMoves DEF IInv, Type

\* What is asked of the server names the chat and the members it is for.
LEMMA WhatIsAsked ==
  ASSUME NEW k \in {"send", "edit", "attach", "forward"}, NEW c \in Convs, NEW t \in Texts,
         NEW to \in Opt(Roster)
  PROVE  /\ Asked(k, c, t, to) \in Request
         /\ Asked(k, c, t, to).kind = k /\ Asked(k, c, t, to).live
         /\ Asked(k, c, t, to).conv = c
<1>1. (IF to = None THEN None ELSE to.of) \in Opt(Convs)
  BY DEF Roster
<1> QED
  BY <1>1 DEF Asked, Request

LEMMA SubmitStep ==
  ASSUME IInv, Submit
  PROVE  IInv'
<1> DEFINE p == [page EXCEPT !.text = Empty, !.sending = TRUE]
           a == Asked("send", page.at, page.text, page.roster)
           r == [a EXCEPT !.reply = page.replyTo]
<1>1. page \in Page /\ page.at \in Convs /\ page.text \in Texts /\ page.roster \in Opt(Roster)
      /\ page.replyTo \in Ids
  BY PageFields DEF IInv, PageHolds, Submit
<1>2. /\ p \in Page /\ p.at = page.at /\ p.roster = page.roster
      /\ p.editing = page.editing /\ p.sending = TRUE
  BY Zenon, <1>1 DEF Page
<1>3. a \in Request /\ a.kind = "send" /\ a.live
  BY <1>1, WhatIsAsked
<1>4. Show(p) /\ reqs' = Append(reqs, r)
  BY DEF Submit
<1> HIDE DEF p, a
<1>5. r \in Request /\ r.kind = "send" /\ r.live
  BY <1>1, <1>3 DEF Request
<1> HIDE DEF r
<1>6. PageHolds(p, Len(posted))
  BY <1>2, <1>1 DEF IInv, PageHolds
<1>7. Waits(r) /\ page.sending = FALSE
  BY <1>1, <1>5, PageFields DEF Waits, Submit
<1>8. RequestsHold(reqs', page.at, TRUE, Len(posted))
  <2>1. /\ RequestsHold(reqs, page.at, page.sending, Len(posted))
        /\ Len(reqs) < MaxRequests /\ page.at # None
    BY DEF IInv, Submit, Room
  <2>2. /\ (TRUE <=> page.sending \/ Waits(r)) /\ ~(page.sending /\ Waits(r))
        /\ r.kind = "edit" => r.msg \in 1..Len(posted)
    BY <1>1, <1>5, <1>7
  <2> QED
    BY Zenon, <1>4, <1>5, <1>7, <2>1, <2>2, PostIsAsked
<1> QED
  BY Zenon, <1>1, <1>2, <1>4, <1>6, <1>8, BarMoves DEF Submit

LEMMA SubmitEditStep ==
  ASSUME IInv, SubmitEdit
  PROVE  IInv'
<1> DEFINE p == [page EXCEPT !.sending = TRUE]
           a == Asked("edit", page.at, page.text, page.roster)
           r == [a EXCEPT !.msg = page.editing]
<1>1. page \in Page /\ page.at \in Convs /\ page.text \in Texts /\ page.roster \in Opt(Roster)
      /\ page.editing \in Ids \ {0} /\ page.editing \in 1..Len(posted)
  <2>1. Len(posted) \in Nat /\ page.editing <= Len(posted)
    BY DEF IInv, Typed, PageHolds
  <2>2. page.editing \in Ids \ {0} /\ page \in Page
    BY PageFields DEF IInv, PageHolds, SubmitEdit
  <2> QED
    BY <2>1, <2>2, PageFields DEF SubmitEdit
<1>2. /\ p \in Page /\ p.at = page.at /\ p.roster = page.roster
      /\ p.editing = page.editing /\ p.sending = TRUE
  BY Zenon, <1>1 DEF Page
<1>3. a \in Request /\ a.kind = "edit" /\ a.live
  BY <1>1, WhatIsAsked
<1>4. Show(p) /\ reqs' = Append(reqs, r)
  BY DEF SubmitEdit
<1> HIDE DEF p, a
<1>5. r \in Request /\ r.kind = "edit" /\ r.live /\ r.msg = page.editing
  BY <1>1, <1>3 DEF Request
<1> HIDE DEF r
<1>6. PageHolds(p, Len(posted))
  BY <1>2, <1>1 DEF IInv, PageHolds
<1>7. Waits(r) /\ page.sending = FALSE
  BY <1>1, <1>5, PageFields DEF Waits, SubmitEdit
<1>8. RequestsHold(reqs', page.at, TRUE, Len(posted))
  <2>1. /\ RequestsHold(reqs, page.at, page.sending, Len(posted))
        /\ Len(reqs) < MaxRequests /\ page.at # None
    BY DEF IInv, SubmitEdit, Room
  <2>2. /\ (TRUE <=> page.sending \/ Waits(r)) /\ ~(page.sending /\ Waits(r))
        /\ r.kind = "edit" => r.msg \in 1..Len(posted)
    BY <1>1, <1>5, <1>7
  <2> QED
    BY Zenon, <1>4, <1>5, <1>7, <2>1, <2>2, PostIsAsked
<1> QED
  BY Zenon, <1>1, <1>2, <1>4, <1>6, <1>8, BarMoves DEF SubmitEdit

\* Nothing is waited for: the bar is as before.
LEMMA BesideTheBar ==
  ASSUME IInv, Room, page.at # None,
         NEW r \in Request, r.live, ~Waits(r), r.kind # "edit",
         reqs' = Append(reqs, r),
         UNCHANGED <<members, listed, news, listing, page, fetches, drafts, posted, hasty>>
  PROVE  IInv'
<1>1. page.sending \in BOOLEAN
  BY PageFields DEF IInv, PageHolds
<1>2. RequestsHold(reqs', page.at, page.sending, Len(posted))
  BY <1>1, PostIsAsked DEF IInv, Room
<1> QED
  BY <1>2, BarRests DEF IInv

LEMMA AttachStep ==
  ASSUME IInv, NEW t \in Texts, Attach(t)
  PROVE  IInv'
<1> DEFINE r == Asked("attach", page.at, t, page.roster)
<1>1. page.at \in Convs /\ page.roster \in Opt(Roster)
  BY PageFields DEF IInv, PageHolds, Attach
<1>2. r \in Request /\ r.kind = "attach" /\ r.live
  BY <1>1, WhatIsAsked
<1>3. reqs' = Append(reqs, r)
  BY DEF Attach
<1> HIDE DEF r
<1> QED
  BY <1>2, <1>3, BesideTheBar DEF Attach, Waits

-----------------------------------------------------------------------------
(* The menu of a message *)

\* The page that shows an edit.
LEMMA EditIsShown ==
  ASSUME NEW q \in Page, NEW m \in Ids, NEW t \in Bars
  PROVE  [q EXCEPT !.replyTo = 0, !.editing = m, !.text = t] \in Page
<1>1. [q EXCEPT !.replyTo = 0] \in Page
  BY DEF Page
<1>2. [[q EXCEPT !.replyTo = 0] EXCEPT !.editing = m] \in Page
  BY Zenon, <1>1 DEF Page
<1>3. [[[q EXCEPT !.replyTo = 0] EXCEPT !.editing = m] EXCEPT !.text = t] \in Page
  BY Zenon, <1>2 DEF Page
<1> QED
  BY <1>3

LEMMA EditStep ==
  ASSUME IInv, NEW m \in DOMAIN posted, Edit(m)
  PROVE  IInv'
<1> DEFINE text == IF page.editing = m THEN page.text ELSE posted[m].text
           p == [page EXCEPT !.replyTo = 0, !.editing = m,
                             !.text = IF page.editing = m THEN @ ELSE posted[m].text]
<1>1. page \in Page /\ page.at \in Convs /\ page.text \in Bars
  BY PageFields DEF IInv, PageHolds, Edit
<1>2. m \in Ids /\ m \in 1..Len(posted) /\ posted[m].text \in Bars
  <2>1. posted \in Seq(Message) /\ Len(posted) <= MaxPosted
    BY DEF IInv, Typed
  <2>2. posted[m] \in Message /\ m \in 1..Len(posted)
    BY <2>1
  <2> QED
    BY <2>1, <2>2 DEF Message
<1>3. text \in Bars
  BY <1>1, <1>2
<1>4. /\ p \in Page /\ p.at = page.at /\ p.roster = page.roster
      /\ p.editing = m /\ p.sending = page.sending
  <2>1. p = [page EXCEPT !.replyTo = 0, !.editing = m, !.text = text]
    BY <1>1 DEF Page
  <2> HIDE DEF text, p
  <2>2. p \in Page
    BY Zenon, <1>1, <1>2, <1>3, <2>1, EditIsShown
  <2>3. p.at = page.at /\ p.roster = page.roster /\ p.editing = m /\ p.sending = page.sending
    BY <1>1, <2>1 DEF Page
  <2> QED
    BY <2>2, <2>3
<1>5. Show(p)
  BY DEF Edit
<1> HIDE DEF p, text
<1>6. PageHolds(p, Len(posted))
  BY <1>1, <1>2, <1>4 DEF PageHolds
<1> QED
  BY <1>1, <1>4, <1>5, <1>6, BarMoves DEF IInv, Edit

LEMMA CancelEditStep ==
  ASSUME IInv, CancelEdit
  PROVE  IInv'
<1> DEFINE p == [page EXCEPT !.editing = 0]
<1>1. page \in Page /\ page.at # None
  BY DEF IInv, PageHolds, CancelEdit
<1>2. /\ p \in Page /\ p.at = page.at /\ p.roster = page.roster
      /\ p.editing = 0 /\ p.sending = page.sending
  BY <1>1 DEF Page
<1>3. Show(p)
  BY DEF CancelEdit
<1> HIDE DEF p
<1>4. PageHolds(p, Len(posted))
  BY <1>1, <1>2 DEF IInv, Typed, PageHolds
<1> QED
  BY <1>1, <1>2, <1>3, <1>4, BarMoves DEF IInv, CancelEdit

\* The answer that is written to is not part of the bar.
LEMMA ReplyMoves ==
  ASSUME IInv, NEW m \in Ids, page' = [page EXCEPT !.replyTo = m],
         UNCHANGED <<members, listed, news, listing, fetches, drafts, posted, reqs, hasty>>
  PROVE  IInv'
<1>1. /\ page' \in Page /\ page'.at = page.at /\ page'.roster = page.roster
      /\ page'.text = page.text /\ page'.editing = page.editing
      /\ page'.sending = page.sending
  BY DEF IInv, PageHolds, Page
<1>2. PageHolds(page', Len(posted))
  BY <1>1 DEF IInv, PageHolds
<1> QED
  BY <1>1, <1>2, BarRests DEF IInv

LEMMA ReplyStep ==
  ASSUME IInv, NEW m \in DOMAIN posted, Reply(m)
  PROVE  IInv'
<1>1. m \in Ids
  BY DEF IInv, Typed
<1> QED
  BY <1>1, ReplyMoves DEF Reply

LEMMA CancelReplyStep ==
  ASSUME IInv, CancelReply
  PROVE  IInv'
BY ReplyMoves DEF CancelReply

LEMMA ForwardStep ==
  ASSUME IInv, NEW m \in DOMAIN posted, NEW c \in Convs, Forward(m, c)
  PROVE  IInv'
<1> DEFINE r == Asked("forward", c, posted[m].text, listed[c])
<1>1. posted[m].text \in Texts /\ listed[c] \in Opt(Roster)
  <2>1. posted \in Seq(Message) /\ listed \in [Convs -> Roster]
    BY DEF IInv, Typed
  <2>2. posted[m] \in Message
    BY <2>1
  <2> QED
    BY <2>1, <2>2 DEF Message
<1>2. r \in Request /\ r.kind = "forward" /\ r.live
  BY <1>1, WhatIsAsked
<1>3. reqs' = Append(reqs, r)
  BY DEF Forward
<1> HIDE DEF r
<1> QED
  BY <1>2, <1>3, BesideTheBar DEF Forward, Waits

-----------------------------------------------------------------------------
(* Getting to a chat and away *)

LEMMA MountMoves ==
  ASSUME IInv, NEW c \in Convs, page.at = None, Mount(c),
         RequestsHold(reqs', page.at, page.sending, Len(posted)),
         UNCHANGED <<members, listed, news, listing, drafts, posted>>
  PROVE  IInv'
<1>1. drafts[c] \in Bars /\ Len(posted) \in Nat
  BY DEF IInv, Typed
<1>2. /\ page' \in Page /\ page'.at = c /\ page'.roster = None /\ page'.text = drafts[c]
      /\ page'.editing = 0 /\ page'.sending = FALSE
  <2> DEFINE t == drafts[c]
  <2>1. page' = [at |-> c, roster |-> None, editing |-> 0, replyTo |-> 0, text |-> t,
                 sending |-> FALSE]
    BY Zenon DEF Mount, Away
  <2>2. t \in Bars
    BY <1>1
  <2> HIDE DEF t
  <2>3. page' \in Page
    BY <2>1, <2>2 DEF Page
  <2> QED
    BY <2>1, <2>3 DEF t
<1>3. hasty' = FALSE /\ page'.at # None
  BY <1>2 DEF Mount
<1>4. PageHolds(page', Len(posted'))
  BY <1>1, <1>2, <1>3 DEF PageHolds
<1>5. FetchesHold(fetches', page'.at, hasty')
  <2>1. FetchesHold(fetches, c, FALSE)
    <3>1. \A i \in DOMAIN fetches : ~fetches[i].live
      BY DEF IInv, FetchesHold, Due
    <3> QED
      BY Zenon, <3>1, FetchesMove DEF IInv
  <2> QED
    BY Zenon, <1>2, <1>3, <2>1, FetchIsAsked DEF Mount, Ask
<1>6. RequestsHold(reqs', page'.at, page'.sending, Len(posted'))
  <2>1. page.sending = FALSE
    BY PageFields DEF IInv, PageHolds
  <2>2. RequestsHold(reqs', None, FALSE, Len(posted))
    BY Zenon, <2>1
  <2>3. RequestsHold(reqs', c, FALSE, Len(posted))
    BY Zenon, <2>2 DEF RequestsHold, Asking
  <2> QED
    BY Zenon, <1>2, <2>3
<1>7. Typed'
  BY Zenon, <1>3 DEF IInv, Typed
<1>8. RowsAreTheirs' /\ BarIsDraft' /\ RosterIsOfThisChat'
  BY <1>2 DEF IInv, RowsAreTheirs, BarIsDraft, RosterIsOfThisChat
<1> QED
  BY <1>4, <1>5, <1>6, <1>7, <1>8 DEF IInv

LEMMA SwitchMoves ==
  ASSUME IInv, NEW c \in Convs, page.at # None, Switch(c),
         RequestsHold(reqs', page.at, page.sending, Len(posted)),
         UNCHANGED <<members, listed, news, listing, drafts, posted>>
  PROVE  IInv'
<1> DEFINE r == IF page.roster = None THEN None ELSE listed[c]
<1>1. /\ drafts[c] \in Bars /\ Len(posted) \in Nat /\ listed[c] \in Roster
      /\ listed[c].of = c
  BY DEF IInv, Typed, RowsAreTheirs
<1>2. r \in Opt(Roster) /\ (r # None => r.of = c)
  BY <1>1
<1>3. page' = [page EXCEPT !.at = c, !.text = drafts[c], !.roster = r]
  BY DEF Switch, IInv, PageHolds, Page
<1> HIDE DEF r
<1>4. page' \in Page
  <2>1. [page EXCEPT !.at = c] \in Page
    BY DEF IInv, PageHolds, Page
  <2>2. [[page EXCEPT !.at = c] EXCEPT !.text = drafts[c]] \in Page
    BY Zenon, <1>1, <2>1 DEF Page
  <2>3. [[[page EXCEPT !.at = c] EXCEPT !.text = drafts[c]] EXCEPT !.roster = r] \in Page
    BY Zenon, <1>2, <2>2 DEF Page
  <2> QED
    BY <1>3, <2>3
<1>5. /\ page'.at = c /\ page'.roster = r /\ page'.text = drafts[c]
      /\ page'.editing = page.editing /\ page'.sending = page.sending
  BY <1>3 DEF IInv, PageHolds, Page
<1>6. PageHolds(page', Len(posted'))
  BY <1>4, <1>5 DEF IInv, PageHolds
<1>7. hasty' \in BOOLEAN /\ (hasty' \/ \A i \in DOMAIN fetches : ~fetches[i].live)
  BY Zenon DEF Switch, Fetching, IInv, Typed
<1>8. FetchesHold(fetches', page'.at, hasty')
  <2>1. FetchesHold(fetches, c, hasty')
    BY <1>7, FetchesMove DEF IInv
  <2> QED
    BY ZenonT(120), <1>5, <2>1, FetchIsAsked DEF Switch, Ask
<1>9. RequestsHold(reqs', page'.at, page'.sending, Len(posted'))
  BY <1>1, <1>5, PostsStay
<1>10. Typed'
  BY <1>7 DEF IInv, Typed
<1>11. RowsAreTheirs' /\ BarIsDraft' /\ RosterIsOfThisChat'
  BY <1>2, <1>5 DEF IInv, RowsAreTheirs, BarIsDraft, RosterIsOfThisChat
<1> QED
  BY <1>6, <1>8, <1>9, <1>10, <1>11 DEF IInv

LEMMA NavigateMoves ==
  ASSUME IInv, NEW c \in Convs, Navigate(c),
         RequestsHold(reqs', page.at, page.sending, Len(posted)),
         UNCHANGED <<members, listed, news, listing, drafts, posted>>
  PROVE  IInv'
<1>1. CASE page.at = c /\ UNCHANGED <<page, fetches, hasty>>
  <2>1. PageHolds(page', Len(posted)) /\ RequestsHold(reqs', page.at, page'.sending, Len(posted))
    BY <1>1 DEF IInv
  <2> QED
    BY <1>1, <2>1, BarRests
<1> QED
  BY <1>1, MountMoves, SwitchMoves DEF Navigate

LEMMA OpenStep ==
  ASSUME IInv, NEW c \in Convs, Open(c)
  PROVE  IInv'
<1>1. RequestsHold(reqs', page.at, page.sending, Len(posted))
  BY DEF IInv, Open
<1> QED
  BY <1>1, NavigateMoves DEF Open

LEMMA JumpStep ==
  ASSUME IInv, NEW c \in Convs, Jump(c)
  PROVE  IInv'
<1>1. RequestsHold(reqs', page.at, page.sending, Len(posted))
  BY DEF IInv, Jump
<1> QED
  BY <1>1, NavigateMoves DEF Jump

\* The page is unmounted, and one answer may be dropped with it.
LEMMA Gone ==
  ASSUME IInv, page' = Away, FetchesHold(fetches', None, hasty),
         reqs' = [i \in DOMAIN reqs |-> [reqs[i] EXCEPT !.live = FALSE]],
         UNCHANGED <<members, listed, news, listing, drafts, posted, hasty>>
  PROVE  IInv'
<1>1. /\ page' \in Page /\ page'.at = None /\ page'.roster = None
      /\ page'.editing = 0 /\ page'.sending = FALSE
  BY DEF Away, Page
<1>2. Len(posted') \in Nat
  BY DEF IInv, Typed
<1>3. PageHolds(page', Len(posted'))
  BY <1>1, <1>2 DEF PageHolds
<1>4. RequestsHold(reqs', page'.at, page'.sending, Len(posted'))
  <2>1. RequestsHold(reqs, page.at, page.sending, Len(posted))
    BY DEF IInv
  <2>2. RequestsHold(reqs', None, FALSE, Len(posted))
    BY Zenon, <2>1, PostsAreMuted
  <2> QED
    BY Zenon, <1>1, <2>2
<1>5. FetchesHold(fetches', page'.at, hasty')
  BY <1>1
<1>6. Typed' /\ RowsAreTheirs' /\ BarIsDraft' /\ RosterIsOfThisChat'
  BY <1>1 DEF IInv, Typed, RowsAreTheirs, BarIsDraft, RosterIsOfThisChat
<1> QED
  BY <1>3, <1>4, <1>5, <1>6 DEF IInv

LEMMA LeaveStep ==
  ASSUME IInv, Leave
  PROVE  IInv'
<1>1. FetchesHold(fetches', None, hasty)
  BY FetchesAreMuted DEF IInv, Leave, Unmount
<1> QED
  BY <1>1, Gone DEF Leave, Unmount

-----------------------------------------------------------------------------
(* Who is in the chat *)

LEMMA MembersChangeStep ==
  ASSUME IInv, NEW c \in Convs, NEW u \in Users, MembersChange(c, u)
  PROVE  IInv'
<1>1. members' \in [Convs -> SUBSET Users]
  <2>1. (IF u \in members[c] THEN members[c] \ {u} ELSE members[c] \cup {u}) \in SUBSET Users
    BY DEF IInv, Typed
  <2> QED
    BY <2>1 DEF IInv, Typed, MembersChange
<1>2. Typed' /\ RowsAreTheirs'
  BY <1>1 DEF IInv, Typed, RowsAreTheirs, MembersChange
<1>3. BarIsDraft' /\ RosterIsOfThisChat'
  BY DEF IInv, BarIsDraft, RosterIsOfThisChat, MembersChange
<1>4. /\ PageHolds(page, Len(posted))' /\ FetchesHold(fetches, page.at, hasty)'
      /\ RequestsHold(reqs, page.at, page.sending, Len(posted))'
  BY DEF IInv, MembersChange
<1> QED
  BY <1>2, <1>3, <1>4 DEF IInv

\* The members of a chat, as the server knows them.
LEMMA RostersAreTheirs ==
  ASSUME IInv, NEW c \in Convs
  PROVE  RosterOf(c) \in Roster /\ RosterOf(c).of = c
BY DEF IInv, Typed, RosterOf, Roster

\* An answer to the page changes its roster, and nothing else of it.
LEMMA RosterMoves ==
  ASSUME IInv,
         NEW p, PageHolds(p, Len(posted)), page' = p,
         p.at = page.at, p.text = page.text,
         p.editing = page.editing, p.sending = page.sending,
         p.roster # None /\ ~hasty => p.roster.of = page.at,
         FetchesHold(fetches', page.at, hasty),
         UNCHANGED <<members, listed, news, listing, drafts, posted, reqs, hasty>>
  PROVE  IInv'
<1>1. Typed' /\ RowsAreTheirs' /\ BarIsDraft' /\ RosterIsOfThisChat'
  BY DEF IInv, Typed, RowsAreTheirs, BarIsDraft, RosterIsOfThisChat
<1>2. /\ PageHolds(page, Len(posted))' /\ FetchesHold(fetches, page.at, hasty)'
      /\ RequestsHold(reqs, page.at, page.sending, Len(posted))'
  BY DEF IInv
<1> QED
  BY <1>1, <1>2 DEF IInv

\* So does a step that only touches the requests.
LEMMA FetchesMoved ==
  ASSUME IInv, FetchesHold(fetches', page.at, hasty),
         UNCHANGED <<members, listed, news, listing, page, drafts, posted, reqs, hasty>>
  PROVE  IInv'
<1>1. PageHolds(page', Len(posted)) /\ (page'.roster # None /\ ~hasty => page'.roster.of = page.at)
  BY DEF IInv, RosterIsOfThisChat
<1> QED
  BY <1>1, RosterMoves

LEMMA FetchServedStep ==
  ASSUME IInv, NEW i \in DOMAIN fetches, FetchServed(i)
  PROVE  IInv'
<1>1. fetches[i].conv \in Convs
  <2>1. fetches[i] \in Fetch
    BY DEF IInv, FetchesHold
  <2> QED
    BY <2>1 DEF Fetch
<1>2. FetchesHold(fetches', page.at, hasty)
  BY Zenon, <1>1, RostersAreTheirs, FetchIsServed DEF IInv, FetchServed
<1> QED
  BY <1>2, FetchesMoved DEF FetchServed

LEMMA ToggleBurnStep ==
  ASSUME IInv, ToggleBurn
  PROVE  IInv'
<1>1. page.at \in Convs
  BY PageFields DEF IInv, PageHolds, ToggleBurn
<1>2. FetchesHold(fetches', page.at, hasty)
  BY Zenon, <1>1, FetchIsAsked DEF IInv, ToggleBurn, Ask
<1> QED
  BY <1>2, FetchesMoved DEF ToggleBurn

LEMMA ToggleFailsStep ==
  ASSUME IInv, NEW i \in DOMAIN fetches, ToggleFails(i)
  PROVE  IInv'
<1>1. FetchesHold(fetches', page.at, hasty)
  BY FetchIsTaken DEF IInv, ToggleFails
<1> QED
  BY <1>1, FetchesMoved DEF ToggleFails

LEMMA FetchArrivesStep ==
  ASSUME IInv, NEW i \in DOMAIN fetches, FetchArrives(i)
  PROVE  IInv'
<1>1. FetchesHold(fetches', page.at, hasty)
  BY FetchIsTaken DEF IInv, FetchArrives
<1>2. CASE ~fetches[i].live
  BY <1>1, <1>2, FetchesMoved DEF FetchArrives
<1>3. CASE fetches[i].live
  <2> DEFINE r == fetches[i].got
             p == [page EXCEPT !.roster = r]
  <2>1. /\ r \in Roster /\ (~hasty => r.of = page.at) /\ page.at # None
    <3>1. fetches[i] \in Fetch /\ Due(fetches[i], page.at, hasty)
      BY DEF IInv, FetchesHold
    <3> QED
      BY <1>3, <3>1 DEF Fetch, Due, FetchArrives
  <2>2. page' = p
    BY <1>3 DEF FetchArrives
  <2> HIDE DEF r
  <2>3. /\ p \in Page /\ p.at = page.at /\ p.text = page.text /\ p.roster = r
        /\ p.editing = page.editing /\ p.sending = page.sending
    BY <2>1 DEF IInv, PageHolds, Page
  <2> HIDE DEF p
  <2>4. PageHolds(p, Len(posted))
    BY <2>1, <2>3 DEF IInv, PageHolds
  <2> QED
    BY <1>1, <2>1, <2>2, <2>3, <2>4, RosterMoves DEF FetchArrives
<1> QED
  BY <1>2, <1>3

LEMMA OpeningFailsStep ==
  ASSUME IInv, NEW i \in DOMAIN fetches, OpeningFails(i)
  PROVE  IInv'
<1> DEFINE q == [k \in DOMAIN fetches |-> [fetches[k] EXCEPT !.live = FALSE]]
<1>1. FetchesHold(q, None, hasty)
  BY FetchesAreMuted DEF IInv
<1>2. DOMAIN q = DOMAIN fetches /\ fetches' = RemoveAt(q, i)
  BY DEF OpeningFails
<1> HIDE DEF q
<1>3. FetchesHold(fetches', None, hasty)
  BY <1>1, <1>2, FetchIsTaken
<1> QED
  BY <1>3, Gone DEF OpeningFails

LEMMA ListServedStep ==
  ASSUME IInv, ListServed
  PROVE  IInv'
<1>1. listing' \in [Convs -> Roster] /\ \A c \in Convs : listing'[c].of = c
  BY RostersAreTheirs DEF ListServed
<1>2. Typed' /\ RowsAreTheirs'
  BY Zenon, <1>1 DEF IInv, Typed, RowsAreTheirs, ListServed
<1>3. BarIsDraft' /\ RosterIsOfThisChat'
  BY DEF IInv, BarIsDraft, RosterIsOfThisChat, ListServed
<1>4. /\ PageHolds(page, Len(posted))' /\ FetchesHold(fetches, page.at, hasty)'
      /\ RequestsHold(reqs, page.at, page.sending, Len(posted))'
  BY DEF IInv, ListServed
<1> QED
  BY <1>2, <1>3, <1>4 DEF IInv

LEMMA ListArrivesStep ==
  ASSUME IInv, ListArrives
  PROVE  IInv'
<1>1. listing \in [Convs -> Roster] /\ \A c \in Convs : listing[c].of = c
  BY DEF IInv, Typed, RowsAreTheirs, ListArrives
<1>2. Typed' /\ RowsAreTheirs'
  BY <1>1 DEF IInv, Typed, RowsAreTheirs, ListArrives
<1>3. /\ PageHolds(page', Len(posted))
      /\ page'.at = page.at /\ page'.text = page.text
      /\ page'.editing = page.editing /\ page'.sending = page.sending
      /\ page'.roster # None /\ ~hasty => page'.roster.of = page.at
  <2>1. CASE page.at = None \/ page.roster = None
    BY <2>1 DEF IInv, RosterIsOfThisChat, ListArrives
  <2>2. CASE page.at # None /\ page.roster # None
    <3> DEFINE r == listing[page.at]
    <3>1. page \in Page /\ page.at \in Convs
      BY <2>2, PageFields DEF IInv, PageHolds
    <3>2. r \in Roster /\ r.of = page.at
      BY <1>1, <3>1
    <3>3. page' = [page EXCEPT !.roster = r]
      BY <2>2 DEF ListArrives
    <3> HIDE DEF r
    <3>4. /\ page' \in Page /\ page'.at = page.at /\ page'.text = page.text
          /\ page'.editing = page.editing /\ page'.sending = page.sending
          /\ page'.roster = r
      BY <3>1, <3>2, <3>3 DEF Page
    <3> QED
      BY <2>2, <3>2, <3>4 DEF IInv, PageHolds
  <2> QED
    BY <2>1, <2>2
<1>4. BarIsDraft' /\ RosterIsOfThisChat'
  BY <1>3 DEF IInv, BarIsDraft, RosterIsOfThisChat, ListArrives
<1>5. /\ PageHolds(page, Len(posted))' /\ FetchesHold(fetches, page.at, hasty)'
      /\ RequestsHold(reqs, page.at, page.sending, Len(posted))'
  BY <1>3 DEF IInv, ListArrives
<1> QED
  BY <1>2, <1>4, <1>5 DEF IInv

-----------------------------------------------------------------------------
(* What becomes of a post *)

\* A post under way by its fields.
LEMMA PostFields ==
  ASSUME IInv, NEW i \in DOMAIN reqs
  PROVE  /\ reqs[i] \in Request
         /\ reqs[i].conv \in Convs /\ reqs[i].text \in Texts
         /\ reqs[i].live \in BOOLEAN
         /\ reqs[i].live => page.at # None
         /\ reqs[i].kind = "edit" => reqs[i].msg \in 1..Len(posted)
<1>1. reqs[i] \in Request /\ Asking(reqs[i], page.at, Len(posted))
  BY DEF IInv, RequestsHold
<1> QED
  BY <1>1 DEF Request, Asking

\* What is posted adds a message or changes the text of one.
LEMMA PostedGrows ==
  ASSUME IInv, NEW i \in DOMAIN reqs, Post(i)
  PROVE  /\ posted' \in Seq(Message)
         /\ Len(posted') \in Nat /\ Len(posted) \in Nat
         /\ Len(posted) <= Len(posted') /\ Len(posted') <= MaxPosted
<1> DEFINE text == reqs[i].text
           m == reqs[i].msg
           e == [posted[m] EXCEPT !.text = text]
           s == Stored(reqs[i])
<1>1. posted \in Seq(Message) /\ Len(posted) \in Nat /\ Len(posted) <= MaxPosted
  BY DEF IInv, Typed
<1>2. CASE reqs[i].kind = "edit"
  <2>1. posted' = [posted EXCEPT ![m] = e]
    BY <1>2 DEF Post
  <2>2. m \in DOMAIN posted /\ text \in Texts
    BY <1>1, <1>2, PostFields
  <2> HIDE DEF m, text
  <2>3. posted[m] \in Message
    BY <1>1, <2>2
  <2>4. e \in Message
    BY <2>2, <2>3 DEF Message
  <2> HIDE DEF e
  <2> QED
    BY <1>1, <2>1, <2>2, <2>4
<1>3. CASE reqs[i].kind # "edit"
  <2>1. posted' = Append(posted, s) /\ Len(posted) < MaxPosted
    BY <1>3 DEF Post
  <2>2. s \in Message
    BY PostFields DEF Stored, Message
  <2> HIDE DEF s
  <2> QED
    BY <1>1, <2>1, <2>2
<1> QED
  BY <1>2, <1>3

LEMMA PostStep ==
  ASSUME IInv, NEW i \in DOMAIN reqs, Post(i)
  PROVE  IInv'
<1>1. /\ posted' \in Seq(Message)
      /\ Len(posted') \in Nat /\ Len(posted) \in Nat
      /\ Len(posted) <= Len(posted') /\ Len(posted') <= MaxPosted
  BY PostedGrows
<1>2. Typed'
  BY <1>1 DEF IInv, Typed, Post
<1>3. RowsAreTheirs' /\ BarIsDraft' /\ RosterIsOfThisChat'
  BY DEF IInv, RowsAreTheirs, BarIsDraft, RosterIsOfThisChat, Post
<1>4. PageHolds(page', Len(posted'))
  <2>1. page.editing \in Nat
    BY PageFields DEF IInv, PageHolds
  <2> QED
    BY <1>1, <2>1 DEF IInv, PageHolds, Post
<1>5. FetchesHold(fetches', page'.at, hasty')
  BY DEF IInv, Post
<1>6. RequestsHold(reqs', page'.at, page'.sending, Len(posted'))
  <2>1. RequestsHold(reqs', page.at, page.sending, Len(posted))
    BY Zenon, PostIsAnswered DEF IInv, Post, Answered
  <2>2. RequestsHold(reqs', page.at, page.sending, Len(posted'))
    BY <1>1, <2>1, PostsStay
  <2> QED
    BY <2>2 DEF Post
<1> QED
  BY <1>2, <1>3, <1>4, <1>5, <1>6 DEF IInv

LEMMA PostFailsStep ==
  ASSUME IInv, NEW i \in DOMAIN reqs, PostFails(i)
  PROVE  IInv'
<1>1. RequestsHold(reqs', page.at, page.sending, Len(posted))
  BY Zenon, PostIsAnswered DEF IInv, PostFails, Answered
<1>2. PageHolds(page', Len(posted)) /\ page' = page
  BY DEF IInv, PostFails
<1> QED
  BY <1>1, <1>2, BarRests DEF PostFails

\* Once the answer is taken, the page waits as before, unless it waited for this.
LEMMA AnswerIsTaken ==
  ASSUME IInv, NEW i \in DOMAIN reqs, NEW off \in BOOLEAN,
         off <=> page.sending /\ ~Waits(reqs[i])
  PROVE  RequestsHold(RemoveAt(reqs, i), page.at, off, Len(posted))
<1>1. page.sending \in BOOLEAN
  BY PageFields DEF IInv, PageHolds
<1>2. RequestsHold(RemoveAt(reqs, i), page.at, page.sending /\ ~Waits(reqs[i]), Len(posted))
  BY <1>1, PostIsTaken DEF IInv
<1> QED
  BY <1>2 DEF RequestsHold, Awaits

\* One that no page waits for changes nothing else.
LEMMA UnheardAnswer ==
  ASSUME IInv, NEW i \in DOMAIN reqs, ~Waits(reqs[i]), reqs' = RemoveAt(reqs, i),
         UNCHANGED <<members, listed, news, listing, page, fetches, drafts, posted, hasty>>
  PROVE  IInv'
<1>1. page.sending \in BOOLEAN
  BY PageFields DEF IInv, PageHolds
<1>2. RequestsHold(reqs', page.at, page.sending, Len(posted))
  BY <1>1, AnswerIsTaken
<1> QED
  BY <1>2, BarRests DEF IInv

\* The button is on again, with or without a text to show.
LEMMA ButtonIsOn ==
  ASSUME NEW q \in Page, NEW t \in Bars
  PROVE  /\ [q EXCEPT !.replyTo = 0, !.sending = FALSE] \in Page
         /\ [q EXCEPT !.text = t, !.sending = FALSE] \in Page
         /\ [q EXCEPT !.text = t, !.editing = 0, !.sending = FALSE] \in Page
<1>1. 0 \in Ids
  OBVIOUS
<1>2. [q EXCEPT !.text = t] \in Page /\ [q EXCEPT !.replyTo = 0] \in Page
  BY <1>1 DEF Page
<1>3. [[q EXCEPT !.text = t] EXCEPT !.editing = 0] \in Page
  <2> DEFINE p == [q EXCEPT !.text = t]
  <2>1. p \in Page
    BY <1>2
  <2> HIDE DEF p
  <2>2. [p EXCEPT !.editing = 0] \in Page
    BY <1>1, <2>1 DEF Page
  <2> QED
    BY <2>2 DEF p
<1>4. ASSUME NEW p \in Page
      PROVE  [p EXCEPT !.sending = FALSE] \in Page
  BY Zenon DEF Page
<1>5. /\ [[q EXCEPT !.replyTo = 0] EXCEPT !.sending = FALSE] \in Page
      /\ [[q EXCEPT !.text = t] EXCEPT !.sending = FALSE] \in Page
      /\ [[[q EXCEPT !.text = t] EXCEPT !.editing = 0] EXCEPT !.sending = FALSE] \in Page
  BY Zenon, <1>2, <1>3, <1>4
<1> QED
  BY <1>5

LEMMA SendDoneStep ==
  ASSUME IInv, NEW i \in DOMAIN reqs, SendDone(i)
  PROVE  IInv'
<1>1. CASE ~reqs[i].live
  BY <1>1, UnheardAnswer DEF SendDone, Waits
<1>2. CASE reqs[i].live
  <2>1. RequestsHold(reqs', page.at, FALSE, Len(posted))
    BY Zenon, <1>2, AnswerIsTaken DEF SendDone, Finished, Waits
  <2>2. page' = [page EXCEPT !.replyTo = 0, !.sending = FALSE]
    BY <1>2 DEF SendDone
  <2>3. /\ page' \in Page /\ page'.at = page.at /\ page'.roster = page.roster
        /\ page'.text = page.text /\ page'.editing = page.editing
        /\ page'.sending = FALSE
    <3>1. page \in Page
      BY DEF IInv, PageHolds
    <3>2. page' \in Page
      BY Zenon, <2>2, <3>1, ButtonIsOn
    <3>3. /\ page'.at = page.at /\ page'.roster = page.roster
          /\ page'.text = page.text /\ page'.editing = page.editing
          /\ page'.sending = FALSE
      BY <2>2, <3>1 DEF Page
    <3> QED
      BY <3>2, <3>3
  <2>4. PageHolds(page', Len(posted))
    BY <2>3 DEF IInv, PageHolds
  <2> QED
    BY Zenon, <2>1, <2>3, <2>4, BarRests DEF SendDone
<1> QED
  BY <1>1, <1>2

LEMMA EditFailsStep ==
  ASSUME IInv, NEW i \in DOMAIN reqs, EditFails(i)
  PROVE  IInv'
<1>1. CASE ~reqs[i].live
  BY <1>1, UnheardAnswer DEF EditFails, Waits
<1>2. CASE reqs[i].live
  <2>1. RequestsHold(reqs', page.at, FALSE, Len(posted))
    BY Zenon, <1>2, AnswerIsTaken DEF EditFails, Finished, Waits
  <2>2. page' = [page EXCEPT !.sending = FALSE]
    BY <1>2 DEF EditFails
  <2>3. /\ page' \in Page /\ page'.at = page.at /\ page'.roster = page.roster
        /\ page'.text = page.text /\ page'.editing = page.editing
        /\ page'.sending = FALSE
    BY Zenon, <2>2 DEF IInv, PageHolds, Page
  <2>4. PageHolds(page', Len(posted))
    BY <2>3 DEF IInv, PageHolds
  <2> QED
    BY Zenon, <2>1, <2>3, <2>4, BarRests DEF EditFails
<1> QED
  BY <1>1, <1>2

LEMMA SendFailsStep ==
  ASSUME IInv, NEW i \in DOMAIN reqs, SendFails(i)
  PROVE  IInv'
<1>1. CASE ~reqs[i].live
  BY <1>1, UnheardAnswer DEF SendFails, Waits
<1>2. CASE reqs[i].live
  <2> DEFINE t == reqs[i].text
             p == [page EXCEPT !.text = t, !.sending = FALSE]
  <2>1. RequestsHold(reqs', page.at, FALSE, Len(posted))
    BY Zenon, <1>2, AnswerIsTaken DEF SendFails, Finished, Waits
  <2>2. t \in Bars /\ page.at # None
    BY <1>2, PostFields
  <2>3. Show(p)
    BY <1>2 DEF SendFails
  <2> HIDE DEF t
  <2>4. /\ p \in Page /\ p.at = page.at /\ p.roster = page.roster
        /\ p.editing = page.editing /\ p.sending = FALSE
    <3>1. page \in Page
      BY DEF IInv, PageHolds
    <3>2. p \in Page
      BY Zenon, <2>2, <3>1, ButtonIsOn
    <3>3. /\ p.at = page.at /\ p.roster = page.roster
          /\ p.editing = page.editing /\ p.sending = FALSE
      BY <3>1 DEF Page
    <3> QED
      BY <3>2, <3>3
  <2> HIDE DEF p
  <2>5. PageHolds(p, Len(posted))
    BY <2>2, <2>4 DEF IInv, PageHolds
  <2> QED
    BY Zenon, <2>1, <2>2, <2>3, <2>4, <2>5, BarMoves DEF SendFails
<1> QED
  BY <1>1, <1>2

LEMMA EditDoneStep ==
  ASSUME IInv, NEW i \in DOMAIN reqs, EditDone(i)
  PROVE  IInv'
<1>1. CASE ~reqs[i].live
  BY <1>1, UnheardAnswer DEF EditDone, Waits
<1>2. CASE reqs[i].live
  <2> DEFINE t == drafts[reqs[i].conv]
             p == [page EXCEPT !.text = t, !.editing = 0, !.sending = FALSE]
  <2>1. RequestsHold(reqs', page.at, FALSE, Len(posted))
    BY Zenon, <1>2, AnswerIsTaken DEF EditDone, Finished, Waits
  <2>2. t \in Bars /\ page.at # None
    BY <1>2, PostFields DEF IInv, Typed
  <2>3. Show(p)
    BY <1>2 DEF EditDone
  <2> HIDE DEF t
  <2>4. /\ p \in Page /\ p.at = page.at /\ p.roster = page.roster
        /\ p.editing = 0 /\ p.sending = FALSE
    <3>1. page \in Page
      BY DEF IInv, PageHolds
    <3>2. p \in Page
      BY Zenon, <2>2, <3>1, ButtonIsOn
    <3>3. /\ p.at = page.at /\ p.roster = page.roster
          /\ p.editing = 0 /\ p.sending = FALSE
      BY <3>1 DEF Page
    <3> QED
      BY <3>2, <3>3
  <2> HIDE DEF p
  <2>5. PageHolds(p, Len(posted))
    BY <2>2, <2>4 DEF IInv, Typed, PageHolds
  <2> QED
    BY Zenon, <2>1, <2>2, <2>3, <2>4, <2>5, BarMoves DEF EditDone
<1> QED
  BY <1>1, <1>2

LEMMA AttachEndsStep ==
  ASSUME IInv, NEW i \in DOMAIN reqs, AttachEnds(i)
  PROVE  IInv'
BY UnheardAnswer DEF AttachEnds, Finished, Waits

LEMMA ForwardFailsStep ==
  ASSUME IInv, NEW i \in DOMAIN reqs, ForwardFails(i)
  PROVE  IInv'
BY UnheardAnswer DEF ForwardFails, Finished, Waits

LEMMA ForwardDoneStep ==
  ASSUME IInv, NEW i \in DOMAIN reqs, ForwardDone(i)
  PROVE  IInv'
<1>1. page.sending \in BOOLEAN /\ reqs[i].conv \in Convs
  BY PostFields, PageFields DEF IInv, PageHolds
<1>2. RequestsHold(reqs', page.at, page.sending, Len(posted))
  BY <1>1, AnswerIsTaken DEF ForwardDone, Finished, Waits
<1> QED
  BY <1>1, <1>2, NavigateMoves DEF ForwardDone

-----------------------------------------------------------------------------
(* The theorems *)

LEMMA StepInv == IInv /\ [Next]_vars => IInv'
<1> SUFFICES ASSUME IInv, [Next]_vars PROVE IInv'
  OBVIOUS
<1>1. ASSUME NEW m \in DOMAIN posted, Edit(m) \/ Reply(m) \/ (\E c \in Convs : Forward(m, c))
      PROVE  IInv'
  BY <1>1, EditStep, ReplyStep, ForwardStep
<1>2. ASSUME NEW c \in Convs, Open(c) \/ Jump(c) \/ (\E u \in Users : MembersChange(c, u))
      PROVE  IInv'
  BY <1>2, OpenStep, JumpStep, MembersChangeStep
<1>3. ASSUME NEW i \in DOMAIN fetches,
             FetchServed(i) \/ FetchArrives(i) \/ OpeningFails(i) \/ ToggleFails(i)
      PROVE  IInv'
  BY <1>3, FetchServedStep, FetchArrivesStep, OpeningFailsStep, ToggleFailsStep
<1>4. ASSUME NEW i \in DOMAIN reqs, Answer(i)
      PROVE  IInv'
  BY <1>4, PostStep, PostFailsStep, SendDoneStep, SendFailsStep, EditDoneStep, EditFailsStep,
     AttachEndsStep, ForwardDoneStep, ForwardFailsStep DEF Answer
<1>5. CASE UNCHANGED vars
  BY <1>5 DEF vars, IInv, Typed, RowsAreTheirs, BarIsDraft, RosterIsOfThisChat
<1> QED
  BY <1>1, <1>2, <1>3, <1>4, <1>5, TypeStep, SubmitStep, SubmitEditStep, AttachStep,
     CancelEditStep, CancelReplyStep, LeaveStep, ToggleBurnStep, ListServedStep,
     ListArrivesStep DEF Next

LEMMA Invariance == Spec => []IInv
BY InitInv, StepInv, PTL DEF Spec

\* The button counts right: the posts a page waits for are one or none.
LEMMA OneOrNone ==
  ASSUME NEW q, NEW at, NEW off \in BOOLEAN, NEW n, RequestsHold(q, at, off, n)
  PROVE  Cardinality({i \in DOMAIN q : q[i].live /\ q[i].kind \in {"send", "edit"}})
           = IF off THEN 1 ELSE 0
<1> DEFINE W == {i \in DOMAIN q : q[i].live /\ q[i].kind \in {"send", "edit"}}
<1>1. \A i \in DOMAIN q : i \in W <=> Waits(q[i])
  BY DEF Waits
<1>2. CASE off
  <2>1. PICK i \in DOMAIN q : Waits(q[i])
    BY <1>2 DEF RequestsHold, Awaits
  <2>2. W = {i}
    BY <1>1, <2>1 DEF RequestsHold, Awaits
  <2> QED
    BY Zenon, <1>2, <2>2, FS_Singleton
<1>3. CASE ~off
  <2>1. W = {}
    BY <1>1, <1>3 DEF RequestsHold, Awaits
  <2> QED
    BY Zenon, <1>3, <2>1, FS_EmptySet
<1> QED
  BY <1>2, <1>3

LEMMA InvTypes == IInv => TypeOK
<1> SUFFICES ASSUME IInv PROVE TypeOK
  OBVIOUS
<1>1. page \in Page /\ page.sending \in BOOLEAN
  BY PageFields DEF IInv, PageHolds
<1>2. fetches \in Seq(Fetch) /\ Len(fetches) <= MaxFetches
  BY DEF IInv, FetchesHold
<1>3. reqs \in Seq(Request) /\ Len(reqs) <= MaxRequests
  BY DEF IInv, RequestsHold
<1>4. page.at = None => /\ \A i \in DOMAIN fetches : ~fetches[i].live
                        /\ \A i \in DOMAIN reqs : ~reqs[i].live
  BY DEF IInv, FetchesHold, Due, RequestsHold, Asking
<1>5. Cardinality({i \in DOMAIN reqs : reqs[i].live /\ reqs[i].kind \in {"send", "edit"}})
        = IF page.sending THEN 1 ELSE 0
  BY <1>1, OneOrNone DEF IInv
<1> QED
  BY <1>1, <1>2, <1>3, <1>4, <1>5 DEF IInv, Typed, RowsAreTheirs, TypeOK

\* The page, its requests and the stores are well formed in every reachable
\* state; an unmounted page is told of no answer (the cancelled flag of its
\* effects), and the send button is off exactly while this page has one send or
\* edit to wait for: no text is sent twice, and no failure leaves the button off
\* (submit's finally, InputBar.tsx).
THEOREM TypeCorrect == Spec => []TypeOK
BY Invariance, InvTypes, PTL

\* Whatever fails, comes late or changes the chat under the bar, what is in the
\* bar and is no edit is the stored draft of the chat on screen: a reload of the
\* page loses no text (drafts.ts, InputBar.tsx).
THEOREM DraftIsKept == Spec => []BarIsDraft
<1>1. IInv => BarIsDraft
  BY DEF IInv
<1> QED
  BY <1>1, Invariance, PTL

\* A page that did not change chat over an unanswered request writes to the
\* members of the chat on screen, never to those of the chat before
\* (ChatView.tsx: load, toggleBurn and the effect on storeConv).
THEOREM WritesToThisChat == Spec => []RosterIsOfThisChat
<1>1. IInv => RosterIsOfThisChat
  BY DEF IInv
<1> QED
  BY <1>1, Invariance, PTL
=============================================================================
