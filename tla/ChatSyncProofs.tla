--------------------------- MODULE ChatSyncProofs ---------------------------
(***************************************************************************)
(* Theorems about ChatSync, for any messages, page size and number of      *)
(* edits: its types, that an unsend is final, and that only a page of      *)
(* older messages ever lists a message twice.                              *)
(*                                                                         *)
(* The argument: a message is put in the order once, so a page, which      *)
(* takes messages at different places of it, has each once, whatever was   *)
(* stored when it was read.  An event adds a message to the list only if   *)
(* it is not there, and the newest page replaces the list.                 *)
(***************************************************************************)
EXTENDS ChatSync, FiniteSetTheorems, TLAPS

\* A leaf is for the SMT solver, which is given time, unless it names another prover.
USE SMTT(60)

USE DEF server, client

-----------------------------------------------------------------------------
(* Subsequences *)

\* The positions up to one of them are as many as its place says: another one
\* for every place.
LEMMA NthIsThere ==
  ASSUME NEW n \in Nat, NEW S \in SUBSET (1 .. n), NEW k \in 1 .. Cardinality(S)
  PROVE  Nth(S, k) \in S /\ Cardinality({j \in S : j <= Nth(S, k)}) = k
<1> DEFINE upto(i) == {j \in S : j <= i}
           place == [i \in S |-> Cardinality(upto(i))]
           c == Cardinality(S)
<1>1. IsFiniteSet(S) /\ c \in Nat /\ S \subseteq Nat
  <2>1. IsFiniteSet(1 .. n)
    BY FS_Interval
  <2>2. IsFiniteSet(S) /\ c \in Nat
    BY Zenon, <2>1, FS_Subset, FS_CardinalityType
  <2> QED
    BY <2>2
<1>2. \A i \in S : IsFiniteSet(upto(i)) /\ Cardinality(upto(i)) \in 1 .. c
  <2> TAKE i \in S
  <2>1. upto(i) \in SUBSET S /\ i \in upto(i)
    BY <1>1
  <2>2. IsFiniteSet(upto(i)) /\ Cardinality(upto(i)) <= c /\ Cardinality(upto(i)) \in Nat
    BY <1>1, <2>1, FS_Subset, FS_CardinalityType
  <2>3. Cardinality(upto(i)) # 0
    BY <2>1, <2>2, FS_EmptySet
  <2> QED
    BY <1>1, <2>2, <2>3
<1>3. \A i, j \in S : place[i] = place[j] => i = j
  <2>1. ASSUME NEW i \in S, NEW j \in S, place[i] = place[j], i < j PROVE FALSE
    <3>0. i \in Nat /\ j \in Nat /\ i < j
      BY <1>1, <2>1
    <3>1. upto(i) \in SUBSET upto(j) /\ j \in upto(j) /\ j \notin upto(i)
      <4>1. \A m \in S : m \in Nat
        BY <1>1
      <4>2. \A m \in S : m <= i => m <= j
        BY <3>0, <4>1
      <4>3. j <= j /\ ~(j <= i)
        BY <3>0
      <4> QED
        BY Zenon, <4>2, <4>3
    <3>2. Cardinality(upto(j)) = Cardinality(upto(i))
      BY <2>1
    <3>3. IsFiniteSet(upto(j))
      BY <1>2
    <3> HIDE DEF upto
    <3> QED
      BY <3>1, <3>2, <3>3, FS_Subset
  <2> TAKE i, j \in S
  <2>2. i < j \/ j < i \/ i = j
    BY <1>1
  <2> QED
    BY <2>1, <2>2
<1>4. place \in Injection(S, 1 .. c)
  BY Zenon, <1>2, <1>3 DEF Injection, IsInjective
<1>5. place \in Surjection(S, 1 .. c)
  <2>1. IsFiniteSet(1 .. c) /\ Cardinality(1 .. c) = c
    BY <1>1, FS_Interval
  <2> QED
    BY <1>4, <2>1, FS_Injection
<1>6. \E i \in S : Cardinality(upto(i)) = k
  BY Zenon, <1>5 DEF Surjection
<1> QED
  BY Zenon, <1>6 DEF Nth

\* What is taken are elements of the sequence, each once.
LEMMA TakenFrom ==
  ASSUME NEW T, NEW s \in Seq(T), NEW S \in SUBSET DOMAIN s
  PROVE  /\ At(s, S) \in Seq(T)
         /\ Len(At(s, S)) = Cardinality(S)
         /\ \A k \in DOMAIN At(s, S) : Nth(S, k) \in S /\ At(s, S)[k] = s[Nth(S, k)]
         /\ \A k, l \in DOMAIN At(s, S) : Nth(S, k) = Nth(S, l) => k = l
<1>1. Len(s) \in Nat /\ S \in SUBSET (1 .. Len(s)) /\ DOMAIN s = 1 .. Len(s)
  OBVIOUS
<1>2. Cardinality(S) \in Nat
  <2>1. IsFiniteSet(1 .. Len(s))
    BY <1>1, FS_Interval
  <2> QED
    BY <1>1, <2>1, FS_Subset, FS_CardinalityType
<1>3. \A k \in 1 .. Cardinality(S) : Nth(S, k) \in S
  BY Zenon, <1>1, NthIsThere
<1>4. \A k, l \in 1 .. Cardinality(S) : Nth(S, k) = Nth(S, l) => k = l
  <2> TAKE k, l \in 1 .. Cardinality(S)
  <2>1. Cardinality({j \in S : j <= Nth(S, k)}) = k
    BY Zenon, <1>1, NthIsThere
  <2>2. Cardinality({j \in S : j <= Nth(S, l)}) = l
    BY Zenon, <1>1, NthIsThere
  <2> QED
    BY <2>1, <2>2
<1>5. \A k \in 1 .. Cardinality(S) : s[Nth(S, k)] \in T
  BY <1>1, <1>3
<1>6. /\ At(s, S) \in Seq(T)
      /\ Len(At(s, S)) = Cardinality(S)
      /\ DOMAIN At(s, S) = 1 .. Cardinality(S)
  BY <1>2, <1>5 DEF At
<1> QED
  BY Zenon, <1>3, <1>4, <1>6 DEF At
-----------------------------------------------------------------------------
(* The server *)

\* The server has its types at first.
LEMMA ServerInit == Init => ServerTypeOK
BY MaxEditsIsNatural DEF Init, ServerTypeOK, Row, Texts

\* Nothing the client does touches the server's state, except that publishing
\* takes an event out of the outbox.
LEMMA ClientSteps ==
  ASSUME ServerTypeOK,
         \/ \E e \in outbox : Publish(e)
         \/ ReceiveFrame
         \/ ReadPreview
         \/ \E p \in pending : Apply(p)
         \/ \E s \in Slots : \/ Open(s) \/ AskOlder(s) \/ ReadPage(s)
                             \/ ApplyNewest(s) \/ ApplyOlder(s) \/ FailLoad(s) \/ Reconnect(s)
         \/ Connect
         \/ Disconnect
  PROVE  /\ UNCHANGED server
         /\ outbox' \subseteq outbox
<1>1. CASE \E e \in outbox : Publish(e)
  BY <1>1 DEF Publish
<1>2. CASE ReceiveFrame \/ ReadPreview
  BY <1>2 DEF ReceiveFrame, ReadPreview
<1>3. CASE \E p \in pending : Apply(p)
  BY <1>3 DEF Apply
<1>4. CASE \E s \in Slots : Open(s) \/ AskOlder(s) \/ ReadPage(s) \/ FailLoad(s) \/ Reconnect(s)
  BY ZenonT(120), <1>4 DEF Open, AskOlder, ReadPage, FailLoad, Reconnect
<1>5. CASE \E s \in Slots : ApplyNewest(s) \/ ApplyOlder(s)
  BY <1>5 DEF ApplyNewest, ApplyOlder, Finish
<1>6. CASE Connect \/ Disconnect
  BY <1>6 DEF Connect, Disconnect
<1> QED
  BY <1>1, <1>2, <1>3, <1>4, <1>5, <1>6

\* Every step keeps the types of the server's state and, on each row, the
\* deletion mark: only a send writes it anew, and only on a row not yet stored.
LEMMA ServerStep ==
  ASSUME ServerTypeOK, [Next]_vars
  PROVE  /\ ServerTypeOK'
         /\ \A m \in Messages : rows[m].deleted => rows'[m].deleted
<1>1. ASSUME NEW m \in Messages, StartSend(m)
      PROVE  /\ ServerTypeOK'
             /\ \A n \in Messages : rows[n].deleted => rows'[n].deleted
  <2>1. rows' \in [Messages -> Row] /\ \A n \in Messages : rows[n].deleted => rows'[n].deleted
    BY <1>1 DEF StartSend, ServerTypeOK, Row
  <2>2. order' \in Seq(Messages)
    BY <1>1 DEF StartSend, ServerTypeOK
  <2> QED
    BY <1>1, <2>1, <2>2 DEF StartSend, ServerTypeOK
<1>2. ASSUME NEW m \in Messages, CommitSend(m)
      PROVE  /\ ServerTypeOK'
             /\ \A n \in Messages : rows[n].deleted => rows'[n].deleted
  <2>1. 1 \in Texts
    BY MaxEditsIsNatural DEF Texts
  <2>2. rows' \in [Messages -> Row] /\ \A n \in Messages : rows[n].deleted => rows'[n].deleted
    BY ZenonT(120), <1>2, <2>1 DEF CommitSend, ServerTypeOK, Row
  <2>3. outbox' \in SUBSET Event
    BY <1>2, <2>1 DEF CommitSend, ServerTypeOK, Event
  <2> QED
    BY <1>2, <2>2, <2>3 DEF CommitSend, ServerTypeOK
<1>3. ASSUME NEW m \in Messages, ReadForEdit(m)
      PROVE  /\ ServerTypeOK'
             /\ \A n \in Messages : rows[n].deleted => rows'[n].deleted
  <2>1. edits + 1 \in 0..MaxEdits /\ edits + 2 \in Texts
    BY <1>3, MaxEditsIsNatural DEF ReadForEdit, ServerTypeOK, Texts
  <2> QED
    BY <1>3, <2>1 DEF ReadForEdit, ServerTypeOK
<1>4. ASSUME NEW e \in editing, CommitEdit(e)
      PROVE  /\ ServerTypeOK'
             /\ \A n \in Messages : rows[n].deleted => rows'[n].deleted
  <2>1. e.id \in Messages /\ e.text \in Texts
    BY <1>4 DEF ServerTypeOK
  <2>2. rows' \in [Messages -> Row] /\ \A n \in Messages : rows[n].deleted => rows'[n].deleted
    BY <1>4, <2>1 DEF CommitEdit, ServerTypeOK, Row
  <2>3. outbox' \in SUBSET Event /\ editing' \in SUBSET [id : Messages, text : Texts]
    BY <1>4, <2>1 DEF CommitEdit, ServerTypeOK, Event
  <2> QED
    BY <1>4, <2>2, <2>3 DEF CommitEdit, ServerTypeOK
<1>5. ASSUME NEW m \in Messages, Unsend(m)
      PROVE  /\ ServerTypeOK'
             /\ \A n \in Messages : rows[n].deleted => rows'[n].deleted
  <2>1. 0 \in Texts
    BY MaxEditsIsNatural DEF Texts
  <2>2. rows' \in [Messages -> Row] /\ \A n \in Messages : rows[n].deleted => rows'[n].deleted
    BY ZenonT(120), <1>5, <2>1 DEF Unsend, ServerTypeOK, Row
  <2>3. outbox' \in SUBSET Event
    BY <1>5, <2>1 DEF Unsend, ServerTypeOK, Event
  <2> QED
    BY <1>5, <2>2, <2>3 DEF Unsend, ServerTypeOK
<1>6. ASSUME UNCHANGED server, outbox' \subseteq outbox
      PROVE  /\ ServerTypeOK'
             /\ \A n \in Messages : rows[n].deleted => rows'[n].deleted
  BY <1>6 DEF ServerTypeOK
<1>7. CASE UNCHANGED vars
  BY <1>6, <1>7 DEF vars
<1> QED
  BY <1>1, <1>2, <1>3, <1>4, <1>5, <1>6, <1>7, ClientSteps DEF Next

-----------------------------------------------------------------------------
(* What the server answers *)

\* A message is put in the order once, when its row is made.
OrderedOnce ==
  /\ \A i, j \in DOMAIN order : order[i] = order[j] => i = j
  /\ \A i \in DOMAIN order : rows[order[i]].state # "none"

LEMMA OrderStep ==
  ASSUME ServerTypeOK, OrderedOnce, [Next]_vars
  PROVE  OrderedOnce'
<1>1. order \in Seq(Messages) /\ rows \in [Messages -> Row]
  BY DEF ServerTypeOK
<1>2. \A i \in DOMAIN order : order[i] \in Messages
  BY <1>1
<1>3. ASSUME NEW m \in Messages, StartSend(m)
      PROVE  OrderedOnce'
  <2>1. rows[m].state = "none" /\ order' = Append(order, m)
    BY <1>3 DEF StartSend
  <2>2. \A n \in Messages : rows'[n].state = IF n = m THEN "sending" ELSE rows[n].state
    BY <1>1, <1>3 DEF StartSend, Row
  <2>3. \A i \in DOMAIN order : order[i] # m
    BY <2>1 DEF OrderedOnce
  <2>4. /\ DOMAIN order' = 1 .. (Len(order) + 1) /\ DOMAIN order = 1 .. Len(order)
        /\ Len(order) \in Nat
        /\ \A i \in 1 .. Len(order) : order'[i] = order[i]
        /\ order'[Len(order) + 1] = m
    BY <1>1, <2>1
  <2>5. \A i \in DOMAIN order' : i \in DOMAIN order \/ i = Len(order) + 1
    BY <2>4
  <2>6. \A i, j \in DOMAIN order' : order'[i] = order'[j] => i = j
    BY <2>3, <2>4, <2>5 DEF OrderedOnce
  <2>7. \A i \in DOMAIN order' : rows'[order'[i]].state # "none"
    BY <1>2, <2>2, <2>4, <2>5 DEF OrderedOnce
  <2> QED
    BY <2>6, <2>7 DEF OrderedOnce
<1>4. ASSUME order' = order,
             \A n \in Messages : rows'[n].state = rows[n].state \/ rows'[n].state = "stored"
      PROVE  OrderedOnce'
  BY <1>2, <1>4 DEF OrderedOnce
<1>5. ASSUME NEW m \in Messages, CommitSend(m) \/ ReadForEdit(m) \/ Unsend(m)
      PROVE  OrderedOnce'
  <2>1. order' = order
    BY <1>5 DEF CommitSend, ReadForEdit, Unsend
  <2>2. \A n \in Messages : rows'[n].state = rows[n].state \/ rows'[n].state = "stored"
    BY <1>1, <1>5 DEF CommitSend, ReadForEdit, Unsend, Row
  <2> QED
    BY <1>4, <2>1, <2>2
<1>6. ASSUME NEW e \in editing, CommitEdit(e)
      PROVE  OrderedOnce'
  <2>1. order' = order
    BY <1>6 DEF CommitEdit
  <2>2. \A n \in Messages : rows'[n].state = rows[n].state
    BY <1>1, <1>6 DEF CommitEdit, Row
  <2> QED
    BY <1>4, <2>1, <2>2
<1>7. CASE UNCHANGED server
  BY <1>7 DEF OrderedOnce
<1> QED
  BY <1>3, <1>5, <1>6, <1>7, ClientSteps DEF Next, vars

\* A sequence that has nothing twice.
Once(h) == \A i, j \in DOMAIN h : h[i] = h[j] => i = j

LEMMA HistoryIsOnce ==
  ASSUME ServerTypeOK, OrderedOnce, NEW before
  PROVE  History(before) \in Seq(Messages) /\ Once(History(before))
<1> DEFINE stored == {i \in DOMAIN order : rows[order[i]].state = "stored"}
           cut == {i \in stored : order[i] = before}
           S == {i \in stored : \A j \in cut : i < j}
<1>1. order \in Seq(Messages) /\ S \in SUBSET DOMAIN order
  BY DEF ServerTypeOK
<1>2. History(before) = At(order, S)
  BY DEF History
<1> HIDE DEF S
<1>3. /\ At(order, S) \in Seq(Messages)
      /\ \A k \in DOMAIN At(order, S) : Nth(S, k) \in S /\ At(order, S)[k] = order[Nth(S, k)]
      /\ \A k, l \in DOMAIN At(order, S) : Nth(S, k) = Nth(S, l) => k = l
  BY <1>1, TakenFrom
<1>4. Once(At(order, S))
  BY <1>1, <1>3 DEF Once, OrderedOnce
<1> QED
  BY <1>2, <1>3, <1>4

LEMMA NewestIsOnce ==
  ASSUME NEW h \in Seq(Messages), Once(h)
  PROVE  /\ Newest(h) \in Seq(Messages) /\ Once(Newest(h))
         /\ Len(Newest(h)) <= PageSize
         /\ h # <<>> => Newest(h)[1] \in Messages /\ Newest(h)[Len(Newest(h))] \in Messages
<1> DEFINE n == Len(h)
           a == IF n > PageSize THEN n - PageSize + 1 ELSE 1
<1>1. n \in Nat /\ a \in 1 .. n + 1 /\ n - a + 1 <= PageSize /\ PageSize \in Nat \ {0}
      /\ (n > 0 => a <= n)
  BY PageSizeIsPositive
<1>2. Newest(h) = SubSeq(h, a, n)
  BY DEF Newest
<1> HIDE DEF a
<1>3. \A i \in a .. n : h[i] \in Messages
  BY <1>1
<1>4. /\ SubSeq(h, a, n) \in Seq(Messages) /\ Len(SubSeq(h, a, n)) = n - a + 1
      /\ DOMAIN SubSeq(h, a, n) = 1 .. (n - a + 1)
      /\ \A i \in 1 .. (n - a + 1) : SubSeq(h, a, n)[i] = h[a + i - 1]
  BY <1>1, <1>3
<1>5. Once(SubSeq(h, a, n))
  <2> SUFFICES ASSUME NEW i \in 1 .. (n - a + 1), NEW j \in 1 .. (n - a + 1),
                      SubSeq(h, a, n)[i] = SubSeq(h, a, n)[j]
               PROVE  i = j
    BY Zenon, <1>4 DEF Once
  <2>1. h[a + i - 1] = h[a + j - 1]
    BY <1>4
  <2>2. a + i - 1 \in DOMAIN h /\ a + j - 1 \in DOMAIN h
    BY <1>1
  <2>3. a + i - 1 = a + j - 1
    BY <2>1, <2>2 DEF Once
  <2> QED
    BY <1>1, <2>3
<1>6. ASSUME h # <<>>
      PROVE  /\ SubSeq(h, a, n)[1] \in Messages
             /\ SubSeq(h, a, n)[Len(SubSeq(h, a, n))] \in Messages
  <2>1. n > 0
    BY <1>6
  <2>2. n - a + 1 \in 1 .. (n - a + 1) /\ 1 \in 1 .. (n - a + 1)
    BY <1>1, <2>1
  <2> QED
    BY <1>4, <2>2
<1> QED
  BY <1>1, <1>2, <1>4, <1>5, <1>6

LEMMA PageIsOnce ==
  ASSUME ServerTypeOK, OrderedOnce, NEW before
  PROVE  /\ PageBefore(before).page \in Seq(Entry)
         /\ Len(PageBefore(before).page) <= PageSize
         /\ Distinct(PageBefore(before).page)
         /\ PageBefore(before).next \in Messages \cup {NoMessage}
<1> DEFINE h == History(before)
           p == Newest(h)
           t == [i \in DOMAIN p |-> [id |-> p[i], deleted |-> rows[p[i]].deleted]]
<1>1. h \in Seq(Messages) /\ Once(h)
  BY HistoryIsOnce
<1> HIDE DEF h
<1>2. /\ p \in Seq(Messages) /\ Once(p) /\ Len(p) <= PageSize
      /\ h # <<>> => p[1] \in Messages
  BY <1>1, NewestIsOnce
<1>3. /\ PageBefore(before).page = t
      /\ PageBefore(before).next = IF Len(h) > PageSize THEN p[1] ELSE NoMessage
  BY DEF PageBefore, h
<1> HIDE DEF p
<1>4. \A i \in DOMAIN p : /\ [id |-> p[i], deleted |-> rows[p[i]].deleted] \in Entry
                          /\ t[i].id = p[i]
  <2> TAKE i \in DOMAIN p
  <2>1. p[i] \in Messages
    BY <1>2
  <2> QED
    BY <2>1 DEF ServerTypeOK, Row, Entry
<1>5. t \in Seq(Entry) /\ Len(t) = Len(p) /\ DOMAIN t = DOMAIN p
  BY <1>2, <1>4
<1> HIDE DEF t
<1>6. Distinct(t)
  BY Zenon, <1>2, <1>4, <1>5 DEF Distinct, Once
<1>7. PageBefore(before).next \in Messages \cup {NoMessage}
  <2>1. Len(h) > PageSize => h # <<>>
    BY <1>1, PageSizeIsPositive
  <2> QED
    BY <1>2, <1>3, <2>1
<1> QED
  BY <1>2, <1>3, <1>5, <1>6, <1>7

-----------------------------------------------------------------------------
(* The client *)

\* A page under way is one the server answered.
Paged(r) == r \in Load /\ Len(r.page) <= PageSize /\ Distinct(r.page)

ClientHolds ==
  /\ socket \in {"new", "open", "down"}
  /\ frames \in Seq(Event)
  /\ pending \in SUBSET [event : Answer, via : {"socket", "answer"}]
  /\ list \in Seq(Entry)
  /\ texts \in [Messages -> Texts]
  /\ cursor \in Messages \cup {NoMessage}
  /\ load \in [Slots -> Load]
  /\ \A s \in Slots : Paged(load[s])
  /\ loadingOlder \in Slots \cup {NoSlot}
  /\ synced \in BOOLEAN

IInv ==
  /\ ServerTypeOK
  /\ OrderedOnce
  /\ ClientHolds

\* The step that may list a message twice: a page of older ones is put before
\* the list.
OlderIsPut == \E s \in Slots : load[s].before # NoMessage /\ load[s].pc = "read" /\ load'[s].pc = "idle"
ListedOnce == Distinct(list) /\ ~Distinct(list') => OlderIsPut

LEMMA NoLoadHolds == NoLoad \in Load /\ Paged(NoLoad)
<1>1. [m \in Messages |-> 0] \in [Messages -> Texts]
  BY MaxEditsIsNatural DEF Texts
<1>2. <<>> \in Seq(Entry) /\ Len(<<>>) = 0
  OBVIOUS
<1>3. NoLoad \in Load /\ NoLoad.page = <<>>
  BY <1>1, <1>2 DEF NoLoad, Load
<1> QED
  BY <1>2, <1>3, PageSizeIsPositive DEF Paged, Distinct

\* A page is asked for.
LEMMA AskHolds ==
  ASSUME ClientHolds, NEW s \in Slots, NEW before \in Messages \cup {NoMessage},
         NEW resync \in BOOLEAN
  PROVE  /\ Ask(s, before, resync) \in [Slots -> Load]
         /\ \A q \in Slots : Paged(Ask(s, before, resync)[q])
<1> DEFINE r == [NoLoad EXCEPT !.pc = "asked", !.before = before, !.resync = resync]
<1>1. r \in Load /\ r.page = NoLoad.page
  <2>1. [NoLoad EXCEPT !.pc = "asked"] \in Load
    BY NoLoadHolds DEF Load
  <2>2. [[NoLoad EXCEPT !.pc = "asked"] EXCEPT !.before = before] \in Load
    BY Zenon, <2>1 DEF Load
  <2>3. [[[NoLoad EXCEPT !.pc = "asked"] EXCEPT !.before = before] EXCEPT !.resync = resync] \in Load
    BY Zenon, <2>2 DEF Load
  <2>4. r \in Load
    BY <2>3
  <2>5. r.page = NoLoad.page
    BY NoLoadHolds DEF Load
  <2> QED
    BY <2>4, <2>5
<1> HIDE DEF r
<1>2. Paged(r)
  BY <1>1, NoLoadHolds DEF Paged
<1>3. Ask(s, before, resync) = [load EXCEPT ![s] = r]
  BY DEF Ask, r
<1> QED
  BY <1>1, <1>2, <1>3 DEF ClientHolds

\* A step that leaves the client's stores alone.
LEMMA StoresRest ==
  ASSUME ClientHolds, UNCHANGED client,
         socket' \in {"new", "open", "down"}, frames' \in Seq(Event),
         pending' \in SUBSET [event : Answer, via : {"socket", "answer"}],
         load' \in [Slots -> Load], \A s \in Slots : Paged(load'[s]),
         loadingOlder' \in Slots \cup {NoSlot}, synced' \in BOOLEAN
  PROVE  ClientHolds' /\ ListedOnce
BY DEF ClientHolds, ListedOnce

LEMMA PublishStep ==
  ASSUME ServerTypeOK, ClientHolds, NEW e \in outbox, Publish(e)
  PROVE  ClientHolds' /\ ListedOnce
<1>1. e \in Event /\ e \in Answer
  BY DEF ServerTypeOK, Event, Answer
<1>2. frames' \in Seq(Event)
  BY <1>1 DEF ClientHolds, Publish
<1>3. pending' \in SUBSET [event : Answer, via : {"socket", "answer"}]
  <2>1. [event |-> e, via |-> "answer"] \in [event : Answer, via : {"socket", "answer"}]
    BY <1>1
  <2> QED
    BY <2>1 DEF ClientHolds, Publish
<1>4. UNCHANGED <<client, socket, load, loadingOlder, synced>>
  BY DEF Publish
<1> QED
  BY <1>2, <1>3, <1>4, StoresRest DEF ClientHolds

\* An event or an answer, shown.
LEMMA ShowHolds ==
  ASSUME ClientHolds, NEW e \in Answer, ShowEvent(e)
  PROVE  /\ list' \in Seq(Entry) /\ texts' \in [Messages -> Texts]
         /\ cursor' \in Messages \cup {NoMessage}
         /\ ListedOnce
<1>1. e.id \in Messages /\ e.text \in Texts
  BY DEF Answer
<1>2. list \in Seq(Entry) /\ list' = ListAfter(e)
  BY DEF ClientHolds, ShowEvent
<1>3. texts' \in [Messages -> Texts] /\ cursor' \in Messages \cup {NoMessage}
  BY <1>1 DEF ClientHolds, ShowEvent
<1>4. CASE e.kind = "new" /\ ~Listed(e.id)
  <2> DEFINE n == [id |-> e.id, deleted |-> FALSE]
  <2>1. list' = Append(list, n)
    BY <1>2, <1>4 DEF ListAfter
  <2>2. n \in Entry /\ n.id = e.id
    BY <1>1 DEF Entry
  <2> HIDE DEF n
  <2>3. /\ list' \in Seq(Entry) /\ DOMAIN list' = 1 .. Len(list) + 1
        /\ DOMAIN list = 1 .. Len(list) /\ Len(list) \in Nat
        /\ \A i \in 1 .. Len(list) : list'[i] = list[i]
        /\ list'[Len(list) + 1] = n
    BY <1>2, <2>1, <2>2
  <2>4. \A i \in DOMAIN list : list[i].id # n.id
    BY <1>4, <2>2 DEF Listed
  <2>5. \A i \in DOMAIN list' : i \in DOMAIN list \/ i = Len(list) + 1
    BY <2>3
  <2>6. Distinct(list) => Distinct(list')
    BY <2>3, <2>4, <2>5 DEF Distinct
  <2> QED
    BY <1>3, <2>3, <2>6 DEF ListedOnce
<1>5. CASE e.kind \in {"edit", "delete"}
  <2> DEFINE n(i) == IF list[i].id = e.id
                     THEN [list[i] EXCEPT !.deleted = e.kind = "delete"] ELSE list[i]
  <2>1. list' = [i \in DOMAIN list |-> n(i)]
    <3>1. ~(e.kind = "new" /\ ~Listed(e.id))
      BY <1>5
    <3> QED
      BY <1>2, <1>5, <3>1 DEF ListAfter, Marking
  <2>2. \A i \in DOMAIN list : n(i) \in Entry /\ n(i).id = list[i].id
    <3> TAKE i \in DOMAIN list
    <3>1. list[i] \in Entry /\ (e.kind = "delete") \in BOOLEAN
      BY <1>2
    <3> QED
      BY Zenon, <3>1 DEF Entry
  <2> HIDE DEF n
  <2>3. list' \in Seq(Entry) /\ DOMAIN list' = DOMAIN list /\ \A i \in DOMAIN list : list'[i] = n(i)
    BY <1>2, <2>1, <2>2
  <2>4. Distinct(list) => Distinct(list')
    BY <2>2, <2>3 DEF Distinct
  <2> QED
    BY <1>3, <2>3, <2>4 DEF ListedOnce
<1>6. CASE ~(e.kind = "new" /\ ~Listed(e.id)) /\ e.kind \notin {"edit", "delete"}
  <2>1. list' = list
    BY <1>2, <1>6 DEF ListAfter
  <2> QED
    BY <1>2, <1>3, <2>1 DEF ListedOnce
<1> QED
  BY <1>4, <1>5, <1>6

LEMMA ReceiveFrameStep ==
  ASSUME ClientHolds, ReceiveFrame
  PROVE  ClientHolds' /\ ListedOnce
<1>1. PICK e \in Event : e = Head(frames)
  BY DEF ReceiveFrame, ClientHolds
<1>2. frames' \in Seq(Event)
  BY DEF ReceiveFrame, ClientHolds
<1>3. e \in Answer
  BY DEF Event, Answer
<1>4. UNCHANGED <<socket, load, loadingOlder, synced>>
  BY DEF ReceiveFrame
<1>5. CASE ShowEvent(e) /\ UNCHANGED pending
  <2>1. /\ list' \in Seq(Entry) /\ texts' \in [Messages -> Texts]
        /\ cursor' \in Messages \cup {NoMessage} /\ ListedOnce
    BY <1>3, <1>5, ShowHolds
  <2> QED
    BY <1>2, <1>4, <1>5, <2>1 DEF ClientHolds
<1>6. CASE pending' = pending \cup {[event |-> e, via |-> "socket"]} /\ UNCHANGED client
  <2>1. pending' \in SUBSET [event : Answer, via : {"socket", "answer"}]
    BY <1>3, <1>6 DEF ClientHolds
  <2> QED
    BY <1>2, <1>4, <1>6, <2>1, StoresRest DEF ClientHolds
<1> QED
  BY <1>1, <1>5, <1>6 DEF ReceiveFrame

LEMMA ReadPreviewStep ==
  ASSUME ServerTypeOK, OrderedOnce, ClientHolds, ReadPreview
  PROVE  ClientHolds' /\ ListedOnce
<1> DEFINE h == History(NoMessage)
           p == Newest(h)
           m == p[Len(p)]
           a == [kind |-> "preview", id |-> m, text |-> Shown(m)]
<1>1. h \in Seq(Messages) /\ Once(h)
  BY HistoryIsOnce
<1>2. h # <<>>
  <2>1. p # <<>>
    BY DEF ReadPreview
  <2>2. ASSUME h = <<>> PROVE p = <<>>
    BY <2>2, PageSizeIsPositive DEF Newest
  <2> QED
    BY <2>1, <2>2
<1>3. m \in Messages
  <2> HIDE DEF h
  <2> QED
    BY <1>1, <1>2, NewestIsOnce
<1>4. pending' = pending \cup {[event |-> a, via |-> "answer"]}
  BY DEF ReadPreview
<1> HIDE DEF m
<1>5. a \in Answer
  BY <1>3, MaxEditsIsNatural DEF Answer, Shown, ServerTypeOK, Row, Texts
<1> HIDE DEF a
<1>6. pending' \in SUBSET [event : Answer, via : {"socket", "answer"}]
  BY <1>4, <1>5 DEF ClientHolds
<1> QED
  BY <1>6, StoresRest DEF ReadPreview, ClientHolds

LEMMA ApplyStep ==
  ASSUME ClientHolds, NEW p \in pending, Apply(p)
  PROVE  ClientHolds' /\ ListedOnce
<1>1. p.event \in Answer
  BY DEF ClientHolds
<1>2. /\ list' \in Seq(Entry) /\ texts' \in [Messages -> Texts]
      /\ cursor' \in Messages \cup {NoMessage} /\ ListedOnce
  BY <1>1, ShowHolds DEF Apply
<1> QED
  BY <1>2 DEF Apply, ClientHolds

LEMMA AskStep ==
  ASSUME ClientHolds, NEW s \in Slots, Open(s) \/ AskOlder(s) \/ Reconnect(s)
  PROVE  ClientHolds' /\ ListedOnce
<1>1. load' \in [Slots -> Load] /\ \A q \in Slots : Paged(load'[q])
  <2>1. CASE Open(s)
    BY Zenon, <2>1, AskHolds DEF Open
  <2>2. CASE AskOlder(s)
    BY Zenon, <2>2, AskHolds DEF AskOlder, ClientHolds
  <2>3. CASE Reconnect(s)
    BY Zenon, <2>3, AskHolds DEF Reconnect
  <2> QED
    BY <2>1, <2>2, <2>3
<1> QED
  BY Zenon, <1>1, StoresRest DEF Open, AskOlder, Reconnect, ClientHolds

LEMMA ReadPageStep ==
  ASSUME ServerTypeOK, OrderedOnce, ClientHolds, NEW s \in Slots, ReadPage(s)
  PROVE  ClientHolds' /\ ListedOnce
<1> DEFINE b == load[s].before
           t == [m \in Messages |-> Shown(m)]
           r == [load[s] EXCEPT !.pc = "read", !.page = PageBefore(b).page,
                                !.next = PageBefore(b).next, !.texts = t]
<1>1. load[s] \in Load /\ load \in [Slots -> Load]
  BY DEF ClientHolds
<1>2. PICK page \in Seq(Entry), next \in Messages \cup {NoMessage} :
        /\ page = PageBefore(b).page /\ next = PageBefore(b).next
        /\ Len(page) <= PageSize /\ Distinct(page)
  BY PageIsOnce
<1>3. t \in [Messages -> Texts]
  BY MaxEditsIsNatural DEF Shown, ServerTypeOK, Row, Texts
<1>4. load' = [load EXCEPT ![s] = r]
  BY Zenon DEF ReadPage
<1> HIDE DEF t
<1>5. r = [load[s] EXCEPT !.pc = "read", !.page = page, !.next = next, !.texts = t]
  BY <1>2
<1> HIDE DEF r, b
<1>6. r \in Load
  <2>1. [load[s] EXCEPT !.pc = "read"] \in Load
    BY Zenon, <1>1 DEF Load
  <2>2. [[load[s] EXCEPT !.pc = "read"] EXCEPT !.page = page] \in Load
    BY Zenon, <2>1 DEF Load
  <2>3. [[[load[s] EXCEPT !.pc = "read"] EXCEPT !.page = page] EXCEPT !.next = next] \in Load
    BY Zenon, <2>2 DEF Load
  <2>4. [[[[load[s] EXCEPT !.pc = "read"] EXCEPT !.page = page] EXCEPT !.next = next]
           EXCEPT !.texts = t] \in Load
    BY Zenon, <1>3, <2>3 DEF Load
  <2> QED
    BY <1>5, <2>4
<1>7. r.page = page
  BY <1>1, <1>5 DEF Load
<1>8. Paged(r)
  BY <1>2, <1>6, <1>7 DEF Paged
<1>9. load' \in [Slots -> Load] /\ \A q \in Slots : Paged(load'[q])
  BY <1>1, <1>4, <1>6, <1>8 DEF ClientHolds
<1> QED
  BY Zenon, <1>9, StoresRest DEF ReadPage, ClientHolds

\* A page is shown: the fetch is over.
LEMMA FinishHolds ==
  ASSUME ClientHolds, NEW s \in Slots, Finish(s)
  PROVE  /\ load' \in [Slots -> Load] /\ \A q \in Slots : Paged(load'[q])
         /\ load'[s].pc = "idle"
         /\ texts' \in [Messages -> Texts] /\ cursor' \in Messages \cup {NoMessage}
<1>1. load[s] \in Load
  BY DEF ClientHolds
<1>2. load[s].next \in Messages \cup {NoMessage} /\ load[s].texts \in [Messages -> Texts]
  BY <1>1 DEF Load
<1>3. load' \in [Slots -> Load] /\ \A q \in Slots : Paged(load'[q])
  BY NoLoadHolds DEF ClientHolds, Finish
<1>4. load'[s].pc = "idle"
  BY DEF ClientHolds, Finish, NoLoad
<1>5. texts' \in [Messages -> Texts]
  BY <1>2 DEF ClientHolds, Finish
<1> QED
  BY <1>2, <1>3, <1>4, <1>5 DEF Finish

LEMMA ApplyNewestStep ==
  ASSUME ClientHolds, NEW s \in Slots, ApplyNewest(s)
  PROVE  ClientHolds' /\ ListedOnce
<1>1. /\ load' \in [Slots -> Load] /\ \A q \in Slots : Paged(load'[q])
      /\ texts' \in [Messages -> Texts] /\ cursor' \in Messages \cup {NoMessage}
  BY FinishHolds DEF ApplyNewest
<1>2. list' \in Seq(Entry) /\ Distinct(list')
  BY DEF ClientHolds, Paged, Load, ApplyNewest
<1>3. synced' \in BOOLEAN
  BY DEF ClientHolds, Load, ApplyNewest
<1> QED
  BY <1>1, <1>2, <1>3 DEF ApplyNewest, Finish, ClientHolds, ListedOnce

LEMMA ApplyOlderStep ==
  ASSUME ClientHolds, NEW s \in Slots, ApplyOlder(s)
  PROVE  ClientHolds' /\ ListedOnce
<1>1. /\ load' \in [Slots -> Load] /\ \A q \in Slots : Paged(load'[q])
      /\ load'[s].pc = "idle"
      /\ texts' \in [Messages -> Texts] /\ cursor' \in Messages \cup {NoMessage}
  BY FinishHolds DEF ApplyOlder
<1>2. list' \in Seq(Entry)
  <2>1. load[s].page \in Seq(Entry) /\ list \in Seq(Entry)
    BY DEF ClientHolds, Load
  <2> QED
    BY <2>1 DEF ApplyOlder
<1>3. OlderIsPut
  BY <1>1 DEF ApplyOlder, OlderIsPut
<1> QED
  BY <1>1, <1>2, <1>3 DEF ApplyOlder, Finish, ClientHolds, ListedOnce

LEMMA FailLoadStep ==
  ASSUME ClientHolds, NEW s \in Slots, FailLoad(s)
  PROVE  ClientHolds' /\ ListedOnce
<1>1. load' \in [Slots -> Load] /\ \A q \in Slots : Paged(load'[q])
  BY NoLoadHolds DEF ClientHolds, FailLoad
<1> QED
  BY <1>1, StoresRest DEF FailLoad, ClientHolds

LEMMA SocketStep ==
  ASSUME ClientHolds, Connect \/ Disconnect
  PROVE  ClientHolds' /\ ListedOnce
<1>1. load' \in [Slots -> Load] /\ \A q \in Slots : Paged(load'[q])
  <2>1. CASE Connect
    BY <2>1 DEF Connect, ClientHolds
  <2>2. CASE Disconnect
    <3> DEFINE r(q) == [load[q] EXCEPT !.resync = FALSE]
    <3>1. \A q \in Slots : r(q) \in Load /\ r(q).page = load[q].page
      <4> TAKE q \in Slots
      <4>1. load[q] \in Load
        BY DEF ClientHolds
      <4> QED
        BY Zenon, <4>1 DEF Load
    <3>2. load' = [q \in Slots |-> r(q)]
      BY <2>2 DEF Disconnect
    <3> HIDE DEF r
    <3> QED
      BY <3>1, <3>2 DEF ClientHolds, Paged
  <2> QED
    BY <2>1, <2>2
<1>2. frames' \in Seq(Event)
  <2>1. frames' = frames \/ frames' = <<>>
    BY DEF Connect, Disconnect
  <2>2. frames \in Seq(Event) /\ <<>> \in Seq(Event)
    BY DEF ClientHolds
  <2> QED
    BY Zenon, <2>1, <2>2
<1> QED
  BY Zenon, <1>1, <1>2, StoresRest DEF Connect, Disconnect, ClientHolds

\* What the server does by itself is not seen.
LEMMA ClientUnseeing ==
  ASSUME ClientHolds,
         UNCHANGED <<socket, frames, pending, client, load, loadingOlder, synced>>
  PROVE  ClientHolds' /\ ListedOnce
BY DEF ClientHolds, ListedOnce

LEMMA ClientStep ==
  ASSUME IInv, [Next]_vars
  PROVE  ClientHolds' /\ ListedOnce
<1>1. ServerTypeOK /\ OrderedOnce /\ ClientHolds
  BY DEF IInv
<1>2. CASE \E m \in Messages : StartSend(m) \/ CommitSend(m) \/ ReadForEdit(m) \/ Unsend(m)
  BY <1>1, <1>2, ClientUnseeing DEF StartSend, CommitSend, ReadForEdit, Unsend
<1>3. CASE \E e \in editing : CommitEdit(e)
  BY <1>1, <1>3, ClientUnseeing DEF CommitEdit
<1>4. CASE UNCHANGED vars
  BY <1>1, <1>4, ClientUnseeing DEF vars
<1> QED
  BY <1>1, <1>2, <1>3, <1>4, PublishStep, ReceiveFrameStep, ReadPreviewStep, ApplyStep, AskStep,
     ReadPageStep, ApplyNewestStep, ApplyOlderStep, FailLoadStep, SocketStep DEF Next

-----------------------------------------------------------------------------
(* The theorems *)

LEMMA InitInv == Init => IInv
<1> SUFFICES ASSUME Init PROVE IInv
  OBVIOUS
<1>1. ClientHolds
  <2>1. 0 \in Texts
    BY MaxEditsIsNatural DEF Texts
  <2>2. load \in [Slots -> Load] /\ \A s \in Slots : Paged(load[s])
    BY NoLoadHolds DEF Init
  <2>3. frames \in Seq(Event) /\ list \in Seq(Entry)
    BY DEF Init
  <2> QED
    BY Zenon, <2>1, <2>2, <2>3 DEF Init, ClientHolds
<1>2. OrderedOnce
  BY DEF Init, OrderedOnce
<1> QED
  BY <1>1, <1>2, ServerInit DEF IInv

LEMMA StepInv == IInv /\ [Next]_vars => IInv'
<1>1. IInv /\ [Next]_vars => ServerTypeOK' /\ OrderedOnce' /\ ClientHolds'
  BY ServerStep, OrderStep, ClientStep DEF IInv
<1> QED
  BY <1>1 DEF IInv

LEMMA Invariance == Spec => []IInv
BY InitInv, StepInv, PTL DEF Spec

\* The state of the server always has its types.
THEOREM ServerTypes == Spec => []ServerTypeOK
<1>1. ServerTypeOK /\ [Next]_vars => ServerTypeOK'
  BY ServerStep
<1> QED
  BY ServerInit, <1>1, PTL DEF Spec

\* An unsent message stays unsent in the database, whatever edits were under
\* way when it was unsent (edit_message, unsend_message).
THEOREM UnsendSticks == Spec => UnsendIsFinal
<1>1. ServerTypeOK /\ [Next]_vars => [\A m \in Messages : rows[m].deleted => rows'[m].deleted]_vars
  BY ServerStep
<1> QED
  BY ServerTypes, <1>1, PTL DEF Spec, UnsendIsFinal

\* The server's state and the client's always have their types; a page the
\* server answers with is never longer than PAGE_SIZE (get_messages).
THEOREM TypeCorrect == Spec => []TypeOK
<1>1. IInv => TypeOK
  BY DEF IInv, ClientHolds, Paged, TypeOK, ClientTypeOK
<1> QED
  BY <1>1, Invariance, PTL

\* Whatever order an own send's answer, its echo, other events and pages come
\* in, no step lists a message a second time but the one that puts a page of
\* older messages before the list (handleWsEvent, appendSent, loadOlder).
THEOREM NothingTwice == Spec => OnlyPagingDuplicates
<1>1. IInv /\ [Next]_vars =>
        [Distinct(list) /\ ~Distinct(list') =>
           \E s \in Slots : load[s].before # NoMessage /\ load[s].pc = "read"
                            /\ load'[s].pc = "idle"]_vars
  BY ClientStep DEF ListedOnce, OlderIsPut
<1> QED
  BY <1>1, Invariance, PTL DEF Spec, OnlyPagingDuplicates
=============================================================================
