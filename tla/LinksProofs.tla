---------------------------- MODULE LinksProofs -----------------------------
(***************************************************************************)
(* Theorems about secret links.  First the owner's side, Links, and in the *)
(* second part the guest's, GuestThread.                                   *)
(*                                                                         *)
(* Links, for any finite set of threads and any number of tasks: its       *)
(* types, with the buttons that are off while something is awaited, and    *)
(* that keys and messages are those of the thread on screen.               *)
(*                                                                         *)
(* The argument: a page is unmounted with all its tasks, or changes thread *)
(* with nothing under way, unless crossed holds.  So a task that is still  *)
(* heard is of the thread on screen (Own), what it sealed it sealed with   *)
(* the key in the page's ref, which is that thread's, and what a load      *)
(* brings are posts of that thread.  A button that is off has exactly one  *)
(* task that will turn it on again, and nothing else does (Counts).        *)
(*                                                                         *)
(* A step is proved from what it does to one task: Advances, Begins and    *)
(* EndsUnseen keep the invariant when a task takes a step, starts or ends. *)
(***************************************************************************)
EXTENDS Links, GuestThread, FiniteSetTheorems, TLAPS

\* A leaf is for the SMT solver, which is given time, unless it names another prover.
USE SMTT(60)

Writes == {"send", "image", "file", "place"}
OfThread(r) == r.kind = "load" \/ r.kind \in Writes

\* S has one element if c holds, and none otherwise.
Unique(S, c) == IF c THEN \E s \in S : S = {s} ELSE S = {}
Waiting(why, f) == {s \in Slots : Awaits(why, f[s])}
\* The button for why is off on page p.
Off(why, p) ==
  /\ p.at # None
  /\ (why = "send" /\ p.sending) \/ (why = "place" /\ p.locating)
Counts(p, f) == \A why \in {"send", "place"} : Unique(Waiting(why, f), Off(why, p))

\* A task that is heard is one that a page like the one on screen begins.
HeardAt(r, at) == r.live =>
  /\ OfThread(r) => at # None
  /\ r.kind \in {"list", "create", "row"} => at = None

\* A task that is heard is of the thread on screen; whether heard or not, it keeps to
\* the keys and the posts of its own thread.
Own(r, ps, at) ==
  /\ r.live /\ OfThread(r) => r.of = at
  /\ r.kind \in Writes => r.keys = IF r.step = "locating" THEN {} ELSE {r.of}
  /\ r.kind = "load" =>
       /\ \A i \in DOMAIN r.got : r.got[i] \in DOMAIN ps /\ ps[r.got[i]].thread = r.of
       /\ r.step = "opened" => r.under = r.of

\* What holds of a task while at is on screen; c is crossed.
TaskOK(r, ps, at, c) ==
  /\ Fits(r) /\ HeardAt(r, at)
  /\ r.kind = "load" /\ r.step = "opened" => r.under \in Threads
  /\ ~c => Own(r, ps, at)

\* The page of a thread holds its key and shows its posts.
OwnPage(p, ps) == p.at # None =>
  /\ p.key \in {p.at, None}
  /\ \A i \in DOMAIN p.list :
       /\ p.list[i].post \in DOMAIN ps
       /\ p.list[i].under = p.at /\ ps[p.list[i].post].thread = p.at

PageOK(p, ps, c) == (p \in Thread \/ p \in List) /\ (~c => OwnPage(p, ps))
PostsOK(ps, c) ==
  /\ ps \in Seq(Post) /\ Len(ps) <= MaxPosts
  /\ ~c => \A i \in DOMAIN ps : ps[i].keys = {ps[i].thread}

Rest == /\ link \in [Threads -> {"none", "live", "gone"}]
        /\ bells \in Nat /\ bells <= Len(posts)
        /\ crossed \in BOOLEAN
\* Every task.
Tasks == /\ DOMAIN task = Slots
         /\ \A s \in Slots : TaskOK(task[s], posts, page.at, crossed)

\* The inductive invariant.
IInv == /\ Rest /\ PostsOK(posts, crossed) /\ PageOK(page, posts, crossed)
        /\ Tasks /\ Counts(page, task)

-----------------------------------------------------------------------------
\* An idle slot satisfies everything, and nothing waits for it.
LEMMA IdleIsOK == \A ps, at, c : TaskOK(Idle, ps, at, c)
BY DEF TaskOK, Fits, HeardAt, Own, Idle, OfThread, Writes

LEMMA IdleWaits == \A why : ~Awaits(why, Idle)
BY DEF Awaits, Idle

\* What is changed at one slot.
LEMMA WaitingAfter ==
  ASSUME NEW f, DOMAIN f = Slots, NEW s \in Slots, NEW r, NEW why
  PROVE  Waiting(why, [f EXCEPT ![s] = r]) =
           IF Awaits(why, r) THEN Waiting(why, f) \cup {s} ELSE Waiting(why, f) \ {s}
<1> DEFINE g == [f EXCEPT ![s] = r]
<1>1. g[s] = r /\ \A k \in Slots \ {s} : g[k] = f[k]
  OBVIOUS
<1> HIDE DEF g
<1> QED
  BY <1>1 DEF Waiting, g

\* A task is what it was but for being heard.
LEMMA WithLive ==
  ASSUME NEW r, Fits(r), NEW b \in BOOLEAN, b => r.live
  PROVE  LET q == [r EXCEPT !.live = b]
         IN /\ Fits(q) /\ q.kind = r.kind /\ (q.live <=> b)
            /\ r.kind \in Writes => q.keys = r.keys
            /\ r.kind # "idle" => q.of = r.of /\ q.step = r.step
            /\ r.kind = "load" => q.got = r.got /\ q.under = r.under /\ q.then = r.then
<1>1. CASE r = Idle
  <2>1. Idle \in [kind : {"idle"}, live : {FALSE}] /\ ~Idle.live /\ Idle.kind = "idle"
    BY DEF Idle
  <2>2. [Idle EXCEPT !.live = b] \in [kind : {"idle"}, live : {FALSE}]
    BY Zenon, <1>1, <2>1
  <2>3. ASSUME NEW q \in [kind : {"idle"}, live : {FALSE}] PROVE q = Idle
    BY Zenon DEF Idle
  <2>4. [r EXCEPT !.live = b] = Idle
    BY Zenon, <1>1, <2>2, <2>3
  <2> QED
    BY <1>1, <2>1, <2>4 DEF Fits, Writes
<1>2. CASE r \in Writing
  BY <1>2 DEF Writing, Fits, Writes
<1>3. CASE r \in Request
  BY <1>3 DEF Request, Fits, Writes
<1>4. CASE r \in Load
  BY <1>4 DEF Load, Fits, Writes
<1> QED
  BY <1>1, <1>2, <1>3, <1>4 DEF Fits

\* A task that is heard no more, or as before, is as well formed as it was.
LEMMA WithLiveIsOK ==
  ASSUME NEW r, NEW ps, NEW at, NEW c, TaskOK(r, ps, at, c), NEW b \in BOOLEAN, b => r.live,
         NEW at2, b => at2 = at
  PROVE  /\ TaskOK([r EXCEPT !.live = b], ps, at2, c)
         /\ [r EXCEPT !.live = b].live <=> b
         /\ [r EXCEPT !.live = b].kind = r.kind
         /\ b => \A why : Awaits(why, [r EXCEPT !.live = b]) <=> Awaits(why, r)
<1> DEFINE q == [r EXCEPT !.live = b]
<1>1. Fits(r)
  BY DEF TaskOK
<1>2. /\ Fits(q) /\ q.kind = r.kind /\ (q.live <=> b)
      /\ r.kind \in Writes => q.keys = r.keys
      /\ r.kind # "idle" => q.of = r.of /\ q.step = r.step
      /\ r.kind = "load" => q.got = r.got /\ q.under = r.under /\ q.then = r.then
  BY <1>1, WithLive
<1> HIDE DEF q
<1>3. ASSUME r.kind = "idle" PROVE TaskOK(q, ps, at2, c)
  BY <1>2, <1>3 DEF TaskOK, HeardAt, Own, OfThread, Writes
<1>4. ASSUME r.kind # "idle" PROVE TaskOK(q, ps, at2, c)
  BY <1>2, <1>4 DEF TaskOK, HeardAt, Own, OfThread
<1>5. b => \A why : Awaits(why, q) <=> Awaits(why, r)
  BY <1>2 DEF Awaits
<1> QED
  BY <1>2, <1>3, <1>4, <1>5 DEF q

\* What an unmounted page leaves behind.
LEMMA UnheardIsOK ==
  ASSUME NEW f, DOMAIN f = Slots, NEW ps, NEW at, NEW c, NEW at2,
         \A k \in Slots : TaskOK(f[k], ps, at, c)
  PROVE  /\ DOMAIN Unheard(f) = Slots
         /\ \A k \in Slots : TaskOK(Unheard(f)[k], ps, at2, c)
         /\ \A why : Waiting(why, Unheard(f)) = {}
<1>1. DOMAIN Unheard(f) = Slots
  BY DEF Unheard
<1>2. ASSUME NEW k \in Slots PROVE TaskOK(Unheard(f)[k], ps, at2, c) /\ ~Unheard(f)[k].live
  <2>1. Unheard(f)[k] = [f[k] EXCEPT !.live = FALSE]
    BY DEF Unheard
  <2>2. PICK r : r = f[k]
    OBVIOUS
  <2>3. TaskOK(r, ps, at, c)
    BY <2>2
  <2>4. TaskOK([r EXCEPT !.live = FALSE], ps, at2, c) /\ ~[r EXCEPT !.live = FALSE].live
    BY Zenon, <2>3, WithLiveIsOK
  <2> QED
    BY <2>1, <2>2, <2>4
<1>3. \A why : Waiting(why, Unheard(f)) = {}
  BY <1>2 DEF Waiting, Awaits
<1> QED
  BY <1>1, <1>2, <1>3

\* A post that is added disturbs nothing.
LEMMA PostedIsOK ==
  ASSUME NEW ps \in Seq(Post), NEW p \in Post, NEW r, NEW at, NEW c, TaskOK(r, ps, at, c)
  PROVE  TaskOK(r, Append(ps, p), at, c)
<1>1. \A i \in DOMAIN ps : i \in DOMAIN Append(ps, p) /\ Append(ps, p)[i] = ps[i]
  OBVIOUS
<1> QED
  BY <1>1 DEF TaskOK, Own

-----------------------------------------------------------------------------
\* One task takes a step, or one more starts.
LEMMA BecomesOK ==
  ASSUME NEW ps, NEW at, NEW c, DOMAIN task = Slots,
         \A k \in Slots : TaskOK(task[k], ps, at, c),
         NEW s \in Slots, NEW r, TaskOK(r, ps, at, c), Becomes(s, r)
  PROVE  DOMAIN task' = Slots /\ \A k \in Slots : TaskOK(task'[k], ps, at, c)
<1>1. task' = [task EXCEPT ![s] = r]
  BY DEF Becomes
<1>2. DOMAIN task' = Slots
  BY <1>1
<1>3. task'[s] = r /\ \A k \in Slots \ {s} : task'[k] = task[k]
  BY <1>1
<1> QED
  BY <1>2, <1>3

LEMMA StartsOK ==
  ASSUME NEW ps, NEW at, NEW c, NEW f, DOMAIN f = Slots,
         \A k \in Slots : TaskOK(f[k], ps, at, c),
         NEW r, TaskOK(r, ps, at, c), Starts(r, f)
  PROVE  DOMAIN task' = Slots /\ \A k \in Slots : TaskOK(task'[k], ps, at, c)
<1>1. PICK s \in Slots : task' = [f EXCEPT ![s] = r]
  BY Zenon DEF Starts
<1>2. DOMAIN task' = Slots
  BY <1>1
<1>3. task'[s] = r /\ \A k \in Slots \ {s} : task'[k] = f[k]
  BY <1>1
<1> QED
  BY <1>2, <1>3

\* Who waits for a button after a step.
LEMMA BecomesWaiting ==
  ASSUME DOMAIN task = Slots, NEW s \in Slots, NEW r, Becomes(s, r), NEW why
  PROVE  Waiting(why, task') =
           IF Awaits(why, r) THEN Waiting(why, task) \cup {s} ELSE Waiting(why, task) \ {s}
<1>1. task' = [task EXCEPT ![s] = r]
  BY DEF Becomes
<1> QED
  BY ZenonT(120), <1>1, WaitingAfter

\* A task that takes a step turns a button on again, or leaves it as it is.
LEMMA BecomesCounts ==
  ASSUME DOMAIN task = Slots, NEW s \in Slots, NEW r, Becomes(s, r),
         NEW p, NEW q, Counts(p, task),
         \A why \in {"send", "place"} :
           \/ (Awaits(why, r) <=> Awaits(why, task[s])) /\ (Off(why, p) <=> Off(why, q))
           \/ Awaits(why, task[s]) /\ ~Awaits(why, r) /\ ~Off(why, q)
  PROVE  Counts(q, task')
<1> SUFFICES ASSUME NEW why \in {"send", "place"}
             PROVE  Unique(Waiting(why, task'), Off(why, q))
  BY DEF Counts
<1>1. Unique(Waiting(why, task), Off(why, p))
  BY DEF Counts
<1>2. Waiting(why, task') =
        IF Awaits(why, r) THEN Waiting(why, task) \cup {s} ELSE Waiting(why, task) \ {s}
  BY BecomesWaiting
<1>3. s \in Waiting(why, task) <=> Awaits(why, task[s])
  BY DEF Waiting
<1>4. CASE (Awaits(why, r) <=> Awaits(why, task[s])) /\ (Off(why, p) <=> Off(why, q))
  <2>1. Waiting(why, task') = Waiting(why, task)
    BY <1>2, <1>3, <1>4
  <2> QED
    BY <2>1, <1>1, <1>4 DEF Unique
<1>5. CASE Awaits(why, task[s]) /\ ~Awaits(why, r) /\ ~Off(why, q)
  <2>1. Waiting(why, task) = {s}
    BY <1>1, <1>3, <1>5 DEF Unique
  <2>2. Waiting(why, task') = {}
    BY <1>2, <1>5, <2>1
  <2> QED
    BY <2>2, <1>5 DEF Unique
<1> QED
  BY <1>4, <1>5

\* A task that starts turns a button off, or leaves it as it is.
LEMMA StartsCounts ==
  ASSUME NEW f, DOMAIN f = Slots, NEW r, Starts(r, f),
         NEW p, NEW q, Counts(p, f),
         \A why \in {"send", "place"} :
           \/ ~Awaits(why, r) /\ (Off(why, p) <=> Off(why, q))
           \/ Awaits(why, r) /\ ~Off(why, p) /\ Off(why, q)
  PROVE  Counts(q, task')
<1> SUFFICES ASSUME NEW why \in {"send", "place"}
             PROVE  Unique(Waiting(why, task'), Off(why, q))
  BY DEF Counts
<1>1. PICK s \in Slots : f[s] = Idle /\ task' = [f EXCEPT ![s] = r]
  BY Zenon DEF Starts
<1>2. Unique(Waiting(why, f), Off(why, p))
  BY DEF Counts
<1>3. Waiting(why, task') =
        IF Awaits(why, r) THEN Waiting(why, f) \cup {s} ELSE Waiting(why, f) \ {s}
  BY ZenonT(120), <1>1, WaitingAfter
<1>4. s \notin Waiting(why, f)
  BY <1>1, IdleWaits DEF Waiting
<1>5. CASE ~Awaits(why, r) /\ (Off(why, p) <=> Off(why, q))
  <2>1. Waiting(why, task') = Waiting(why, f)
    BY <1>3, <1>4, <1>5
  <2> QED
    BY <2>1, <1>2, <1>5 DEF Unique
<1>6. CASE Awaits(why, r) /\ ~Off(why, p) /\ Off(why, q)
  <2>1. Waiting(why, f) = {}
    BY <1>2, <1>6 DEF Unique
  <2>2. Waiting(why, task') = {s}
    BY <1>3, <1>6, <2>1
  <2> QED
    BY <2>2, <1>6 DEF Unique
<1> QED
  BY <1>5, <1>6

-----------------------------------------------------------------------------
(* Subsequences *)

\* The positions up to one of them are as many as its place says: another one
\* for every place.
LEMMA NthIsThere ==
  ASSUME NEW n \in Nat, NEW S \in SUBSET (1 .. n), NEW k \in 1 .. Cardinality(S)
  PROVE  Nth(S, k) \in S /\ Cardinality({j \in S : j <= Nth(S, k)}) = k
<1> DEFINE upto(i) == {j \in S : j <= i}
           place == [i \in S |-> Cardinality(upto(i))]
           c == Cardinality(S)
<1>1. IsFiniteSet(S) /\ c \in Nat /\ S \subseteq Nat
  <2>1. IsFiniteSet(1 .. n)
    BY FS_Interval
  <2>2. IsFiniteSet(S) /\ c \in Nat
    BY Zenon, <2>1, FS_Subset, FS_CardinalityType
  <2> QED
    BY <2>2
<1>2. \A i \in S : IsFiniteSet(upto(i)) /\ Cardinality(upto(i)) \in 1 .. c
  <2> TAKE i \in S
  <2>1. upto(i) \in SUBSET S /\ i \in upto(i)
    BY <1>1
  <2>2. IsFiniteSet(upto(i)) /\ Cardinality(upto(i)) <= c /\ Cardinality(upto(i)) \in Nat
    BY <1>1, <2>1, FS_Subset, FS_CardinalityType
  <2>3. Cardinality(upto(i)) # 0
    BY <2>1, <2>2, FS_EmptySet
  <2> QED
    BY <1>1, <2>2, <2>3
<1>3. \A i, j \in S : place[i] = place[j] => i = j
  <2>1. ASSUME NEW i \in S, NEW j \in S, place[i] = place[j], i < j PROVE FALSE
    <3>0. i \in Nat /\ j \in Nat /\ i < j
      BY <1>1, <2>1
    <3>1. upto(i) \in SUBSET upto(j) /\ j \in upto(j) /\ j \notin upto(i)
      <4>1. \A m \in S : m \in Nat
        BY <1>1
      <4>2. \A m \in S : m <= i => m <= j
        BY <3>0, <4>1
      <4>3. j <= j /\ ~(j <= i)
        BY <3>0
      <4> QED
        BY Zenon, <4>2, <4>3
    <3>2. Cardinality(upto(j)) = Cardinality(upto(i))
      BY <2>1
    <3>3. IsFiniteSet(upto(j))
      BY <1>2
    <3> HIDE DEF upto
    <3> QED
      BY <3>1, <3>2, <3>3, FS_Subset
  <2> TAKE i, j \in S
  <2>2. i < j \/ j < i \/ i = j
    BY <1>1
  <2> QED
    BY <2>1, <2>2
<1>4. place \in Injection(S, 1 .. c)
  BY Zenon, <1>2, <1>3 DEF Injection, IsInjective
<1>5. place \in Surjection(S, 1 .. c)
  <2>1. IsFiniteSet(1 .. c) /\ Cardinality(1 .. c) = c
    BY <1>1, FS_Interval
  <2> QED
    BY <1>4, <2>1, FS_Injection
<1>6. \E i \in S : Cardinality(upto(i)) = k
  BY Zenon, <1>5 DEF Surjection
<1> QED
  BY Zenon, <1>6 DEF Nth

\* What is taken are elements of the sequence, each once.
LEMMA TakenFrom ==
  ASSUME NEW T, NEW s \in Seq(T), NEW S \in SUBSET DOMAIN s
  PROVE  /\ At(s, S) \in Seq(T)
         /\ Len(At(s, S)) = Cardinality(S)
         /\ \A k \in DOMAIN At(s, S) : Nth(S, k) \in S /\ At(s, S)[k] = s[Nth(S, k)]
         /\ \A k, l \in DOMAIN At(s, S) : Nth(S, k) = Nth(S, l) => k = l
<1>1. Len(s) \in Nat /\ S \in SUBSET (1 .. Len(s)) /\ DOMAIN s = 1 .. Len(s)
  OBVIOUS
<1>2. Cardinality(S) \in Nat
  <2>1. IsFiniteSet(1 .. Len(s))
    BY <1>1, FS_Interval
  <2> QED
    BY <1>1, <2>1, FS_Subset, FS_CardinalityType
<1>3. \A k \in 1 .. Cardinality(S) : Nth(S, k) \in S
  BY Zenon, <1>1, NthIsThere
<1>4. \A k, l \in 1 .. Cardinality(S) : Nth(S, k) = Nth(S, l) => k = l
  <2> TAKE k, l \in 1 .. Cardinality(S)
  <2>1. Cardinality({j \in S : j <= Nth(S, k)}) = k
    BY Zenon, <1>1, NthIsThere
  <2>2. Cardinality({j \in S : j <= Nth(S, l)}) = l
    BY Zenon, <1>1, NthIsThere
  <2> QED
    BY <2>1, <2>2
<1>5. \A k \in 1 .. Cardinality(S) : s[Nth(S, k)] \in T
  BY <1>1, <1>3
<1>6. /\ At(s, S) \in Seq(T)
      /\ Len(At(s, S)) = Cardinality(S)
      /\ DOMAIN At(s, S) = 1 .. Cardinality(S)
  BY <1>2, <1>5 DEF At
<1> QED
  BY Zenon, <1>3, <1>4, <1>6 DEF At

\* A sequence by its length, domain and elements.
LEMMA SeqIs ==
  ASSUME NEW T, NEW g \in Seq(T)
  PROVE  Len(g) \in Nat /\ DOMAIN g = 1 .. Len(g) /\ \A i \in DOMAIN g : g[i] \in T
OBVIOUS

\* What a load is served are posts of its thread.
LEMMA AfterIs ==
  ASSUME NEW t, NEW m, posts \in Seq(Post), Len(posts) <= MaxPosts
  PROVE  /\ After(t, m) \in Seq(1 .. MaxPosts)
         /\ \A k \in DOMAIN After(t, m) :
              After(t, m)[k] \in DOMAIN posts /\ posts[After(t, m)[k]].thread = t
<1> DEFINE q == [i \in DOMAIN posts |-> i]
           S == {i \in DOMAIN posts : posts[i].thread = t /\ i > m}
<1>1. CASE m # 0 /\ posts[m].thread # t
  BY <1>1 DEF After
<1>2. CASE ~(m # 0 /\ posts[m].thread # t)
  <2>1. q \in Seq(1 .. MaxPosts) /\ DOMAIN q = DOMAIN posts
    <3>1. Len(posts) \in Nat /\ DOMAIN posts = 1 .. Len(posts)
      OBVIOUS
    <3>2. \A i \in 1 .. Len(posts) : i \in 1 .. MaxPosts
      BY <3>1, BoundsAreNumbers
    <3>3. q = [i \in 1 .. Len(posts) |-> i]
      BY <3>1
    <3> HIDE DEF q
    <3> QED
      BY <3>1, <3>2, <3>3
  <2>2. S \in SUBSET DOMAIN q /\ \A i \in S : q[i] = i /\ i \in DOMAIN posts /\ posts[i].thread = t
    BY <2>1
  <2>3. After(t, m) = At(q, S)
    BY <1>2 DEF After
  <2> HIDE DEF q, S
  <2>4. At(q, S) \in Seq(1 .. MaxPosts)
    BY <2>1, <2>2, TakenFrom
  <2>5. \A k \in DOMAIN At(q, S) : Nth(S, k) \in S /\ At(q, S)[k] = q[Nth(S, k)]
    BY <2>1, <2>2, TakenFrom
  <2>6. \A k \in DOMAIN At(q, S) : At(q, S)[k] \in DOMAIN posts /\ posts[At(q, S)[k]].thread = t
    BY <2>2, <2>5
  <2> QED
    BY <2>3, <2>4, <2>6
<1> QED
  BY <1>1, <1>2

\* mergeDecoded leaves what was shown and adds what was loaded.
LEMMA MergeIs ==
  ASSUME NEW prev \in Seq(Shown), NEW next \in Seq(Shown)
  PROVE  /\ Merge(prev, next) \in Seq(Shown)
         /\ \A k \in DOMAIN Merge(prev, next) :
              \/ k \in DOMAIN prev /\ Merge(prev, next)[k] = prev[k]
              \/ \E i \in DOMAIN next : Merge(prev, next)[k] = next[i]
<1> DEFINE S == {k \in DOMAIN next : \A i \in DOMAIN prev : prev[i].post # next[k].post}
           a == At(next, S)
<1>1. Len(prev) \in Nat /\ S \in SUBSET DOMAIN next
  OBVIOUS
<1>2. Merge(prev, next) = prev \o a
  BY DEF Merge
<1> HIDE DEF S
<1>3. \A k \in DOMAIN a : \E i \in DOMAIN next : a[k] = next[i]
  <2>1. \A k \in DOMAIN At(next, S) : Nth(S, k) \in S /\ At(next, S)[k] = next[Nth(S, k)]
    BY <1>1, TakenFrom
  <2> QED
    BY <1>1, <2>1
<1>4. a \in Seq(Shown)
  BY <1>1, TakenFrom
<1> HIDE DEF a
<1>5. prev \o a \in Seq(Shown)
  BY <1>4
<1>6. ASSUME NEW k \in DOMAIN (prev \o a)
      PROVE  \/ k \in DOMAIN prev /\ (prev \o a)[k] = prev[k]
             \/ \E i \in DOMAIN a : (prev \o a)[k] = a[i]
  <2>0. Len(a) \in Nat /\ DOMAIN a = 1 .. Len(a) /\ DOMAIN prev = 1 .. Len(prev)
    BY <1>4
  <2>1. k \in 1 .. Len(prev) + Len(a)
    BY <1>4
  <2>2. CASE k <= Len(prev)
    BY <1>1, <2>0, <2>1, <2>2, <1>4
  <2>3. CASE k > Len(prev)
    <3>1. k - Len(prev) \in DOMAIN a
      BY <1>1, <2>0, <2>1, <2>3
    <3>2. (prev \o a)[k] = a[k - Len(prev)]
      BY <1>1, <2>0, <2>1, <2>3, <1>4
    <3> QED
      BY <3>1, <3>2
  <2> QED
    BY <1>1, <2>1, <2>2, <2>3
<1> QED
  BY <1>2, <1>3, <1>5, <1>6

-----------------------------------------------------------------------------
(* What a page is after a change *)

\* What is on screen is a thread or the list.
LEMMA PageIs ==
  ASSUME NEW p, p \in Thread \/ p \in List
  PROVE  (p.at = None => p \in List) /\ (p.at # None => p \in Thread)
BY NoneIsNoThread DEF Thread, List

LEMMA OnListIs == OnList \in List /\ OnList.at = None
BY DEF OnList, List

\* The page of a thread, just mounted.
LEMMA BlankIs ==
  ASSUME NEW t \in Threads
  PROVE  /\ Blank(t) \in Thread /\ Blank(t).at = t /\ Blank(t).key = None
         /\ Blank(t).list = <<>> /\ ~Blank(t).sending /\ ~Blank(t).locating
<1>1. 0 \in 0 .. MaxPosts /\ <<>> \in Seq(Shown)
  BY BoundsAreNumbers
<1> QED
  BY <1>1 DEF Blank, Thread, Opt

\* A page of a thread that differs in one field.
LEMMA WithSending ==
  ASSUME NEW p \in Thread, NEW b \in BOOLEAN
  PROVE  LET q == [p EXCEPT !.sending = b]
         IN q \in Thread /\ q.at = p.at /\ q.key = p.key /\ q.list = p.list /\ q.last = p.last
            /\ q.sending = b /\ q.locating = p.locating
BY Zenon DEF Thread

LEMMA WithLocating ==
  ASSUME NEW p \in Thread, NEW b \in BOOLEAN
  PROVE  LET q == [p EXCEPT !.locating = b]
         IN q \in Thread /\ q.at = p.at /\ q.key = p.key /\ q.list = p.list /\ q.last = p.last
            /\ q.locating = b /\ q.sending = p.sending
BY Zenon DEF Thread

LEMMA WithKey ==
  ASSUME NEW p \in Thread, NEW k \in Opt(Threads)
  PROVE  LET q == [p EXCEPT !.key = k]
         IN q \in Thread /\ q.at = p.at /\ q.key = k /\ q.list = p.list /\ q.last = p.last
            /\ q.sending = p.sending /\ q.locating = p.locating
BY DEF Thread

LEMMA WithLast ==
  ASSUME NEW p \in Thread, NEW n \in 0 .. MaxPosts
  PROVE  LET q == [p EXCEPT !.last = n]
         IN q \in Thread /\ q.at = p.at /\ q.key = p.key /\ q.list = p.list
            /\ q.sending = p.sending /\ q.locating = p.locating
BY DEF Thread

LEMMA WithList ==
  ASSUME NEW p \in Thread, NEW e \in Seq(Shown)
  PROVE  LET q == [p EXCEPT !.list = e]
         IN q \in Thread /\ q.at = p.at /\ q.key = p.key /\ q.list = e
            /\ q.sending = p.sending /\ q.locating = p.locating
BY DEF Thread

\* A button is on again.
LEMMA FreedIs ==
  ASSUME NEW p \in Thread, NEW why
  PROVE  /\ Freed(p, why) \in Thread /\ Freed(p, why).at = p.at /\ Freed(p, why).key = p.key
         /\ Freed(p, why).list = p.list
         /\ Off("send", Freed(p, why)) <=> Off("send", p) /\ why # "send"
         /\ Off("place", Freed(p, why)) <=> Off("place", p) /\ why # "place"
<1> DEFINE a == [p EXCEPT !.sending = p.sending /\ why # "send"]
<1>0. p.sending \in BOOLEAN /\ p.locating \in BOOLEAN
  BY DEF Thread
<1>1. a \in Thread /\ a.at = p.at /\ a.key = p.key /\ a.list = p.list
      /\ a.sending = (p.sending /\ why # "send") /\ a.locating = p.locating
  BY ZenonT(120), <1>0, WithSending
<1> HIDE DEF a
<1> DEFINE b == [a EXCEPT !.locating = p.locating /\ why # "place"]
<1>2. b \in Thread /\ b.at = a.at /\ b.key = a.key /\ b.list = a.list
      /\ b.locating = (p.locating /\ why # "place") /\ b.sending = a.sending
  BY ZenonT(120), <1>0, <1>1, WithLocating
<1>3. b = Freed(p, why)
  BY DEF a, b, Freed
<1> QED
  BY Zenon, <1>0, <1>1, <1>2, <1>3 DEF Off

\* A list that differs in one field.
LEMMA ListIs ==
  ASSUME NEW p \in List
  PROVE  /\ \A G \in SUBSET Threads :
              [p EXCEPT !.guests = G] \in List /\ [p EXCEPT !.guests = G].at = None
         /\ \A sh \in {"closed", "open", "busy", "made"} :
              [p EXCEPT !.sheet = sh] \in List /\ [p EXCEPT !.sheet = sh].at = None
BY DEF List

-----------------------------------------------------------------------------
(* What a task is *)

\* What a task is follows from its why.
LEMMA TaskIs ==
  ASSUME NEW r, Fits(r)
  PROVE  /\ r.kind = "load" => r \in Load
         /\ r.kind \in Writes => r \in Writing
         /\ r.kind \in {"list", "create", "row", "page"} => r \in Request
BY DEF Fits, Idle, Writing, Request, Load, Writes

\* Tasks that begin.
LEMMA AskLoadIs ==
  ASSUME NEW t \in Threads, NEW m \in 0 .. MaxPosts, NEW then \in {"nothing", "send", "place"},
         NEW b \in BOOLEAN, NEW ps, NEW at, NEW c, b => at # None /\ (~c => t = at)
  PROVE  /\ TaskOK(AskLoad(t, m, then, b), ps, at, c)
         /\ \A why \in {"send", "place"} : Awaits(why, AskLoad(t, m, then, b)) <=> b /\ then = why
<1> DEFINE r == AskLoad(t, m, then, b)
<1>1. /\ r.kind = "load" /\ r.live = b /\ r.of = t /\ r.then = then
      /\ r.got = <<>> /\ r.step = "asked"
  BY DEF AskLoad
<1>2. r \in Load
  <2>1. <<>> \in Seq(1 .. MaxPosts)
    OBVIOUS
  <2> QED
    BY <2>1 DEF AskLoad, Load, Opt
<1> HIDE DEF r
<1>3. Fits(r)
  BY <1>1, <1>2 DEF Fits
<1>4. HeardAt(r, at)
  BY <1>1 DEF HeardAt, OfThread
<1>5. ~c => Own(r, ps, at)
  BY <1>1 DEF Own, OfThread, Writes
<1>6. TaskOK(r, ps, at, c)
  BY <1>1, <1>3, <1>4, <1>5 DEF TaskOK
<1>7. \A why \in {"send", "place"} : Awaits(why, r) <=> b /\ then = why
  BY <1>1 DEF Awaits
<1> QED
  BY <1>6, <1>7 DEF r

LEMMA AskIs ==
  ASSUME NEW k \in {"list", "create", "row", "page"}, NEW t \in Opt(Threads),
         NEW ps, NEW at, NEW c, k # "page" => at = None
  PROVE  /\ TaskOK([AskList EXCEPT !.kind = k, !.of = t], ps, at, c)
         /\ \A why \in {"send", "place"} : ~Awaits(why, [AskList EXCEPT !.kind = k, !.of = t])
<1> DEFINE a == [AskList EXCEPT !.kind = k]
<1>0. a \in Request /\ a.kind = k
  BY Zenon DEF AskList, Request, Opt
<1> HIDE DEF a
<1> DEFINE r == [a EXCEPT !.of = t]
<1>2. r \in Request /\ r.kind = k
  BY <1>0 DEF Request
<1>1. r = [AskList EXCEPT !.kind = k, !.of = t]
  BY DEF a
<1> HIDE DEF r
<1>3. TaskOK(r, ps, at, c)
  BY <1>2 DEF TaskOK, Fits, HeardAt, Own, OfThread, Writes
<1>4. \A why \in {"send", "place"} : ~Awaits(why, r)
  BY <1>2 DEF Awaits
<1> QED
  BY <1>1, <1>3, <1>4

LEMMA AskListIs ==
  ASSUME NEW ps, NEW at, NEW c, at = None
  PROVE  /\ TaskOK(AskList, ps, at, c)
         /\ \A why \in {"send", "place"} : ~Awaits(why, AskList)
<1>1. AskList \in Request /\ AskList.kind = "list"
  BY DEF Request, AskList, Opt
<1>2. TaskOK(AskList, ps, at, c)
  BY <1>1 DEF TaskOK, Fits, HeardAt, Own, OfThread, Writes
<1>3. \A why \in {"send", "place"} : ~Awaits(why, AskList)
  BY <1>1 DEF Awaits
<1> QED
  BY <1>2, <1>3

LEMMA AskCreateIs ==
  ASSUME NEW ps, NEW at, NEW c, at = None
  PROVE  /\ TaskOK([AskList EXCEPT !.kind = "create"], ps, at, c)
         /\ \A why \in {"send", "place"} : ~Awaits(why, [AskList EXCEPT !.kind = "create"])
<1> DEFINE r == [AskList EXCEPT !.kind = "create"]
<1>1. r \in Request /\ r.kind = "create"
  BY Zenon DEF Request, AskList, Opt
<1> HIDE DEF r
<1>2. TaskOK(r, ps, at, c)
  BY <1>1 DEF TaskOK, Fits, HeardAt, Own, OfThread, Writes
<1>3. \A why \in {"send", "place"} : ~Awaits(why, r)
  BY <1>1 DEF Awaits
<1> QED
  BY <1>2, <1>3 DEF r

-----------------------------------------------------------------------------
(* Steps that change no thread, no post and no history *)

\* A task takes a step.
LEMMA Advances ==
  ASSUME IInv, NEW s \in Slots, NEW r, Becomes(s, r), Rest', crossed' = crossed, posts' = posts,
         PageOK(page', posts, crossed), page'.at = page.at,
         TaskOK(r, posts, page.at, crossed),
         \A why \in {"send", "place"} :
           \/ (Awaits(why, r) <=> Awaits(why, task[s])) /\ (Off(why, page) <=> Off(why, page'))
           \/ Awaits(why, task[s]) /\ ~Awaits(why, r) /\ ~Off(why, page')
  PROVE  IInv'
<1>1. DOMAIN task = Slots /\ \A k \in Slots : TaskOK(task[k], posts, page.at, crossed)
  BY DEF IInv, Tasks
<1>2. DOMAIN task' = Slots /\ \A k \in Slots : TaskOK(task'[k], posts, page.at, crossed)
  BY <1>1, BecomesOK
<1>3. Tasks'
  BY <1>2 DEF Tasks
<1>4. Counts(page, task)
  BY DEF IInv
<1>5. Counts(page', task')
  BY <1>1, <1>4, BecomesCounts
<1>6. PostsOK(posts', crossed')
  BY DEF IInv
<1> QED
  BY <1>3, <1>5, <1>6 DEF IInv

\* A task begins.
LEMMA Begins ==
  ASSUME IInv, NEW r, Starts(r, task), Rest', crossed' = crossed, posts' = posts,
         PageOK(page', posts, crossed), page'.at = page.at,
         TaskOK(r, posts, page.at, crossed),
         \A why \in {"send", "place"} :
           \/ ~Awaits(why, r) /\ (Off(why, page) <=> Off(why, page'))
           \/ Awaits(why, r) /\ ~Off(why, page) /\ Off(why, page')
  PROVE  IInv'
<1>1. DOMAIN task = Slots /\ \A k \in Slots : TaskOK(task[k], posts, page.at, crossed)
  BY DEF IInv, Tasks
<1>2. DOMAIN task' = Slots /\ \A k \in Slots : TaskOK(task'[k], posts, page.at, crossed)
  BY <1>1, StartsOK
<1>3. Tasks'
  BY <1>2 DEF Tasks
<1>4. Counts(page, task)
  BY DEF IInv
<1>5. Counts(page', task')
  BY <1>1, <1>4, StartsCounts
<1>6. PostsOK(posts', crossed')
  BY DEF IInv
<1> QED
  BY <1>3, <1>5, <1>6 DEF IInv

\* The parts of the invariant, and what each task is.
LEMMA IsThere ==
  ASSUME IInv
  PROVE  /\ Rest /\ PostsOK(posts, crossed) /\ PageOK(page, posts, crossed) /\ Counts(page, task)
         /\ DOMAIN task = Slots
         /\ \A s \in Slots : /\ TaskOK(task[s], posts, page.at, crossed)
                             /\ task[s].kind = "load" => task[s] \in Load
                             /\ task[s].kind \in Writes => task[s] \in Writing
                             /\ task[s].kind \in {"list", "create", "row", "page"}
                                  => task[s] \in Request
         /\ page.at = None => page \in List
         /\ page.at # None => page \in Thread
BY TaskIs, PageIs DEF IInv, Tasks, TaskOK, PageOK

\* A step that ends an unheard task, or one no button waits for.
LEMMA EndsUnseen ==
  ASSUME IInv, NEW s \in Slots, Ends(s), Rest', UNCHANGED <<posts, page, crossed>>,
         \A why \in {"send", "place"} : ~Awaits(why, task[s])
  PROVE  IInv'
<1>1. PageOK(page, posts, crossed)
  BY DEF IInv
<1> QED
  BY <1>1, Advances, IdleIsOK, IdleWaits DEF Ends

-----------------------------------------------------------------------------
(* The actions *)

\* The server answers with the posts of the thread that was asked for.
LEMMA LoadServedStep == ASSUME IInv, NEW s \in Slots, LoadServed(s) PROVE IInv'
<1> DEFINE r == task[s]
<1>1. /\ r.kind = "load" /\ r.step = "asked" /\ r \in Load /\ TaskOK(r, posts, page.at, crossed)
      /\ UNCHANGED <<posts, page, crossed>> /\ Rest' /\ PageOK(page, posts, crossed)
      /\ posts \in Seq(Post) /\ Len(posts) <= MaxPosts
  BY IsThere DEF LoadServed, Rest, PostsOK
<1>2. CASE ~r.live
  <2>1. Ends(s)
    BY <1>2 DEF LoadServed
  <2>2. \A why \in {"send", "place"} : ~Awaits(why, r)
    BY <1>2 DEF Awaits
  <2> QED
    BY <1>1, <2>1, <2>2, EndsUnseen
<1>3. CASE r.live
  <2> DEFINE brought == After(r.of, r.after)
  <2>1. Becomes(s, [r EXCEPT !.step = "served", !.got = brought])
    BY <1>3 DEF LoadServed
  <2>2. /\ brought \in Seq(1 .. MaxPosts)
        /\ \A i \in DOMAIN brought : brought[i] \in DOMAIN posts /\ posts[brought[i]].thread = r.of
    BY <1>1, AfterIs
  <2> HIDE DEF brought
  <2> DEFINE a == [r EXCEPT !.step = "served"]
             q == [a EXCEPT !.got = brought]
  <2>3. /\ a \in Load /\ a.step = "served" /\ a.kind = "load"
        /\ a.live = r.live /\ a.of = r.of /\ a.then = r.then
    BY <1>1 DEF Load
  <2> HIDE DEF a
  <2>4. /\ q \in Load /\ q.step = "served" /\ q.kind = "load"
        /\ q.live = r.live /\ q.of = r.of /\ q.then = r.then
        /\ q.got = brought
    BY <2>2, <2>3 DEF Load
  <2>5. q = [r EXCEPT !.step = "served", !.got = brought]
    BY DEF a
  <2> HIDE DEF q
  <2>6. TaskOK(q, posts, page.at, crossed)
    BY <1>1, <2>2, <2>4 DEF TaskOK, Fits, HeardAt, Own, OfThread, Writes
  <2>7. \A why \in {"send", "place"} : Awaits(why, q) <=> Awaits(why, r)
    BY <1>1, <2>4 DEF Awaits
  <2> QED
    BY <1>1, <2>1, <2>5, <2>6, <2>7, Advances
<1> QED
  BY <1>2, <1>3

\* Nobody on the list waits for a button of a thread's page.
LEMMA NobodyWaits ==
  ASSUME NEW f, NEW ps, NEW at, NEW c, at = None, \A k \in Slots : TaskOK(f[k], ps, at, c),
         NEW why \in {"send", "place"}
  PROVE  Waiting(why, f) = {}
<1>1. ASSUME NEW k \in Slots, Awaits(why, f[k]) PROVE FALSE
  <2>1. HeardAt(f[k], at)
    BY DEF TaskOK
  <2>2. f[k].live /\ OfThread(f[k])
    BY <1>1 DEF Awaits, OfThread, Writes
  <2> QED
    BY <2>1, <2>2 DEF HeardAt
<1> QED
  BY <1>1 DEF Waiting

\* The list comes on screen, and loads.
LEMMA ListReturns ==
  ASSUME IInv, NEW f, DOMAIN f = Slots, \A k \in Slots : TaskOK(f[k], posts, page.at, crossed),
         page' = OnList, Starts(AskList, Unheard(f)), Rest', UNCHANGED <<posts, crossed>>
  PROVE  IInv'
<1> DEFINE u == Unheard(f)
<1>1. /\ DOMAIN u = Slots /\ \A k \in Slots : TaskOK(u[k], posts, None, crossed)
      /\ \A why : Waiting(why, u) = {}
  BY Zenon, UnheardIsOK
<1> HIDE DEF u
<1>2. Starts(AskList, u)
  BY DEF u
<1>3. /\ TaskOK(AskList, posts, None, crossed)
      /\ \A why \in {"send", "place"} : ~Awaits(why, AskList)
  BY AskListIs
<1>4. DOMAIN task' = Slots /\ \A k \in Slots : TaskOK(task'[k], posts, None, crossed)
  BY <1>1, <1>2, <1>3, StartsOK
<1>5. page' \in List /\ page'.at = None
  BY OnListIs
<1>6. Tasks'
  BY <1>4, <1>5 DEF Tasks
<1>7. \A why \in {"send", "place"} : ~Off(why, page')
  BY <1>5 DEF Off
<1>8. Counts(page', u)
  BY <1>1, <1>7 DEF Counts, Unique
<1>9. Counts(page', task')
  BY <1>1, <1>2, <1>3, <1>8, StartsCounts
<1>10. PageOK(page', posts', crossed')
  BY <1>5 DEF PageOK, OwnPage
<1> QED
  BY <1>6, <1>9, <1>10 DEF IInv, PostsOK

\* navigate("/").
LEMMA ToListStep ==
  ASSUME IInv, NEW f, DOMAIN f = Slots, \A k \in Slots : TaskOK(f[k], posts, page.at, crossed),
         ToList(f), Rest', UNCHANGED <<posts, crossed>>
  PROVE  IInv'
<1>1. CASE page.at = None
  <2>1. task' = f /\ page' = page
    BY <1>1 DEF ToList
  <2>2. Counts(page', task')
    BY <1>1, <2>1, NobodyWaits DEF Counts, Unique, Off
  <2> QED
    BY <2>1, <2>2 DEF IInv, Tasks, PostsOK, PageOK
<1>2. CASE page.at # None
  BY <1>2, ListReturns DEF ToList
<1> QED
  BY <1>1, <1>2

\* A task that has ended.
LEMMA WithoutOne ==
  ASSUME IInv, NEW s \in Slots
  PROVE  /\ DOMAIN [task EXCEPT ![s] = Idle] = Slots
         /\ \A k \in Slots : TaskOK([task EXCEPT ![s] = Idle][k], posts, page.at, crossed)
<1> DEFINE g == [task EXCEPT ![s] = Idle]
<1>1. DOMAIN task = Slots /\ \A k \in Slots : TaskOK(task[k], posts, page.at, crossed)
  BY IsThere
<1>2. DOMAIN g = Slots /\ \A k \in Slots : g[k] = IF k = s THEN Idle ELSE task[k]
  BY <1>1
<1> HIDE DEF g
<1>3. \A k \in Slots : TaskOK(g[k], posts, page.at, crossed)
  BY <1>1, <1>2, IdleIsOK
<1> QED
  BY <1>2, <1>3 DEF g

\* A page that is mounted hears nothing of what was under way.
LEMMA OpenStep == ASSUME IInv, NEW t \in Threads, Open(t) PROVE IInv'
<1> DEFINE u == Unheard(task)
           r == AskLoad(t, 0, "nothing", TRUE)
<1>0. t # None /\ 0 \in 0 .. MaxPosts /\ t \in Threads
  BY NoneIsNoThread, BoundsAreNumbers
<1>1. /\ DOMAIN u = Slots /\ \A k \in Slots : TaskOK(u[k], posts, t, crossed)
      /\ \A why : Waiting(why, u) = {}
  BY Zenon, IsThere, UnheardIsOK
<1>2. /\ TaskOK(r, posts, t, crossed)
      /\ \A why \in {"send", "place"} : ~Awaits(why, r)
  <2>1. /\ TaskOK(r, posts, t, crossed)
        /\ \A why \in {"send", "place"} : Awaits(why, r) <=> TRUE /\ "nothing" = why
    BY Zenon, <1>0, AskLoadIs
  <2> QED
    BY Zenon, <2>1
<1> HIDE DEF u, r
<1>3. Starts(r, u) /\ page' = Blank(t) /\ UNCHANGED <<link, posts, bells, crossed>>
  BY Zenon DEF Open, u, r
<1>4. /\ page' \in Thread /\ page'.at = t /\ page'.key = None
      /\ page'.list = <<>> /\ ~page'.sending /\ ~page'.locating
  BY <1>3, BlankIs
<1>5. DOMAIN task' = Slots /\ \A k \in Slots : TaskOK(task'[k], posts, t, crossed)
  BY <1>1, <1>2, <1>3, StartsOK
<1>6. Tasks'
  BY <1>3, <1>4, <1>5 DEF Tasks
<1>7. \A why \in {"send", "place"} : ~Off(why, page')
  BY <1>4 DEF Off
<1>8. Counts(page', u)
  BY <1>1, <1>7 DEF Counts, Unique
<1>9. Counts(page', task')
  BY <1>1, <1>2, <1>3, <1>8, StartsCounts
<1>10. PageOK(page', posts', crossed')
  BY <1>4 DEF PageOK, OwnPage
<1> QED
  BY <1>3, <1>6, <1>9, <1>10 DEF IInv, PostsOK, Rest

\* Without the key, the cursor and the list, a page holds nothing of its last thread;
\* if it hears something still, crossed holds.
LEMMA JumpStep == ASSUME IInv, NEW t \in Threads, Jump(t) PROVE IInv'
<1> DEFINE r == AskLoad(t, 0, "nothing", TRUE)
<1>0. t # None /\ 0 \in 0 .. MaxPosts /\ t \in Threads
  BY NoneIsNoThread, BoundsAreNumbers
<1>2. /\ TaskOK(r, posts, t, crossed')
      /\ \A why \in {"send", "place"} : ~Awaits(why, r)
  <2>1. /\ TaskOK(r, posts, t, crossed')
        /\ \A why \in {"send", "place"} : Awaits(why, r) <=> TRUE /\ "nothing" = why
    BY Zenon, <1>0, AskLoadIs
  <2> QED
    BY Zenon, <2>1
<1> HIDE DEF r
<1>3. /\ Starts(r, task) /\ page.at # None /\ UNCHANGED <<link, posts, bells>>
      /\ page' = [page EXCEPT !.at = t, !.key = None, !.last = 0, !.list = <<>>]
      /\ crossed' = (crossed \/ \E s \in Slots : task[s].live)
  BY Zenon DEF Jump, r
<1>4. /\ page \in Thread /\ Rest /\ DOMAIN task = Slots /\ Counts(page, task)
      /\ \A k \in Slots : TaskOK(task[k], posts, page.at, crossed)
  BY <1>3, IsThere
<1>5. /\ page' \in Thread /\ page'.at = t /\ page'.key = None /\ page'.list = <<>>
      /\ page'.sending = page.sending /\ page'.locating = page.locating
  <2> DEFINE a == [page EXCEPT !.at = t]
  <2>1. a \in Thread /\ a.at = t /\ a.sending = page.sending /\ a.locating = page.locating
    BY <1>4 DEF Thread
  <2> HIDE DEF a
  <2>2. None \in Opt(Threads) /\ <<>> \in Seq(Shown)
    BY DEF Opt
  <2> DEFINE b == [a EXCEPT !.key = None]
  <2>3. /\ b \in Thread /\ b.at = t /\ b.key = None
        /\ b.sending = page.sending /\ b.locating = page.locating
    BY <2>1, <2>2, WithKey
  <2> HIDE DEF b
  <2> DEFINE d == [b EXCEPT !.last = 0]
  <2>6. d \in Thread /\ d.at = b.at /\ d.key = b.key
        /\ d.sending = b.sending /\ d.locating = b.locating
    BY <1>0, <2>3 DEF Thread
  <2> HIDE DEF d
  <2> DEFINE q == [d EXCEPT !.list = <<>>]
  <2>4. q \in Thread /\ q.at = t /\ q.key = None /\ q.list = <<>>
        /\ q.sending = page.sending /\ q.locating = page.locating
    BY Zenon, <2>2, <2>3, <2>6 DEF Thread
  <2>5. q = page'
    BY <1>3 DEF a, b, d
  <2> QED
    BY Zenon, <2>4, <2>5
<1>6. \A k \in Slots : TaskOK(task[k], posts, t, crossed')
  <2> TAKE k \in Slots
  <2>1. TaskOK(task[k], posts, page.at, crossed)
    BY <1>4
  <2>2. HeardAt(task[k], t)
    BY <1>0, <1>3, <2>1 DEF TaskOK, HeardAt
  <2>3. ~crossed' => Own(task[k], posts, t)
    BY Zenon, <1>3, <2>1 DEF TaskOK, Own
  <2> QED
    BY <2>1, <2>2, <2>3 DEF TaskOK
<1>7. DOMAIN task' = Slots /\ \A k \in Slots : TaskOK(task'[k], posts, t, crossed')
  BY <1>2, <1>3, <1>4, <1>6, StartsOK
<1>8. Tasks'
  BY <1>3, <1>5, <1>7 DEF Tasks
<1>9. \A why \in {"send", "place"} : Off(why, page) <=> Off(why, page')
  BY <1>0, <1>3, <1>5 DEF Off
<1>10. Counts(page', task')
  BY <1>2, <1>3, <1>4, <1>9, StartsCounts
<1>11. PageOK(page', posts', crossed')
  BY <1>5 DEF PageOK, OwnPage
<1>12. Rest'
  BY <1>3, <1>4 DEF Rest
<1> QED
  BY Zenon, <1>3, <1>8, <1>10, <1>11, <1>12 DEF IInv, PostsOK

LEMMA LeaveStep == ASSUME IInv, Leave PROVE IInv'
<1>1. /\ DOMAIN task = Slots /\ \A k \in Slots : TaskOK(task[k], posts, page.at, crossed)
      /\ Rest /\ ToList(task) /\ UNCHANGED <<link, posts, bells, crossed>>
  BY IsThere DEF Leave
<1>2. Rest'
  BY <1>1 DEF Rest
<1> QED
  BY <1>1, <1>2, ToListStep

LEMMA LoadFailsStep == ASSUME IInv, NEW s \in Slots, LoadFails(s) PROVE IInv'
<1> DEFINE g == [task EXCEPT ![s] = Idle]
<1>1. DOMAIN g = Slots /\ \A k \in Slots : TaskOK(g[k], posts, page.at, crossed)
  BY WithoutOne
<1>2. ToList(g) /\ UNCHANGED <<link, posts, bells, crossed>> /\ Rest
  BY IsThere DEF LoadFails
<1> HIDE DEF g
<1>3. Rest'
  BY <1>2 DEF Rest
<1> QED
  BY <1>1, <1>2, <1>3, ToListStep

\* The key is that of the page, or of the thread that was loaded: the same, unless
\* crossed.
LEMMA LoadOpensStep == ASSUME IInv, NEW s \in Slots, LoadOpens(s) PROVE IInv'
<1> DEFINE r == task[s]
<1>1. /\ r.kind = "load" /\ r.step = "served"
      /\ r \in Load /\ TaskOK(r, posts, page.at, crossed)
      /\ UNCHANGED <<link, posts, bells, crossed>> /\ Rest' /\ PageOK(page, posts, crossed)
  BY IsThere DEF LoadOpens, Rest
<1>2. CASE ~r.live
  <2>1. Ends(s) /\ page' = page
    BY <1>2 DEF LoadOpens
  <2>2. \A why \in {"send", "place"} : ~Awaits(why, r)
    BY <1>2 DEF Awaits
  <2> QED
    BY <1>1, <2>1, <2>2, EndsUnseen
<1>3. CASE r.live
  <2> DEFINE key == IF page.key = None THEN r.of ELSE page.key
  <2>1. /\ Becomes(s, [r EXCEPT !.step = "opened", !.under = key])
        /\ page' = [page EXCEPT !.key = key]
    BY <1>3 DEF LoadOpens
  <2>2. page.at # None /\ page \in Thread
    BY <1>1, <1>3, IsThere DEF TaskOK, HeardAt, OfThread
  <2>3. key \in Threads /\ key \in Opt(Threads) /\ r.of \in Threads
    BY <1>1, <2>2 DEF Load, Thread, Opt
  <2>4. ~crossed => key = page.at /\ r.of = page.at
    BY <1>1, <1>3, <2>2 DEF TaskOK, Own, OfThread, PageOK, OwnPage
  <2> HIDE DEF key
  <2>5. /\ page' \in Thread /\ page'.at = page.at /\ page'.key = key /\ page'.list = page.list
        /\ page'.sending = page.sending /\ page'.locating = page.locating
    BY <2>1, <2>2, <2>3, WithKey
  <2>6. PageOK(page', posts, crossed)
    BY <1>1, <2>2, <2>4, <2>5 DEF PageOK, OwnPage
  <2> DEFINE a == [r EXCEPT !.step = "opened"]
             q == [a EXCEPT !.under = key]
  <2>7. /\ a \in Load /\ a.step = "opened" /\ a.kind = "load"
        /\ a.live = r.live /\ a.of = r.of /\ a.then = r.then
        /\ a.got = r.got
    BY <1>1 DEF Load
  <2> HIDE DEF a
  <2>8. /\ q \in Load /\ q.step = "opened" /\ q.kind = "load"
        /\ q.live = r.live /\ q.of = r.of /\ q.then = r.then
        /\ q.got = r.got /\ q.under = key
    BY <2>3, <2>7 DEF Load
  <2>9. q = [r EXCEPT !.step = "opened", !.under = key]
    BY DEF a
  <2> HIDE DEF q
  <2>10. TaskOK(q, posts, page.at, crossed)
    BY <1>1, <2>3, <2>4, <2>8 DEF TaskOK, Fits, HeardAt, Own, OfThread, Writes
  <2>11. \A why \in {"send", "place"} :
           (Awaits(why, q) <=> Awaits(why, r)) /\ (Off(why, page) <=> Off(why, page'))
    BY <1>1, <2>5, <2>8 DEF Awaits, Off
  <2> QED
    BY <1>1, <2>1, <2>5, <2>6, <2>9, <2>10, <2>11, Advances
<1> QED
  BY <1>2, <1>3

\* What is shown was fetched and opened for this thread.
LEMMA LoadShowsStep == ASSUME IInv, NEW s \in Slots, LoadShows(s) PROVE IInv'
<1> DEFINE r == task[s]
           out == [i \in DOMAIN r.got |-> [post |-> r.got[i], under |-> r.under]]
<1>1. /\ r.kind = "load" /\ r.step = "opened"
      /\ r \in Load /\ TaskOK(r, posts, page.at, crossed)
      /\ UNCHANGED <<link, posts, bells, crossed>> /\ Rest' /\ PageOK(page, posts, crossed)
      /\ Ends(s)
  BY IsThere DEF LoadShows, Rest
<1>2. CASE ~r.live
  <2>1. page' = page
    BY <1>2 DEF LoadShows
  <2>2. \A why \in {"send", "place"} : ~Awaits(why, r)
    BY <1>2 DEF Awaits
  <2> QED
    BY <1>1, <2>1, <2>2, EndsUnseen
<1>3. CASE r.live
  <2> DEFINE n == IF out = <<>> THEN page.last ELSE out[Len(out)].post
             e == IF r.after = 0 THEN out ELSE Merge(page.list, out)
  <2>1. page' = Freed([page EXCEPT !.last = n, !.list = e], r.then)
    BY <1>3 DEF LoadShows
  <2>2. page.at # None /\ page \in Thread
    BY <1>1, <1>3, IsThere DEF TaskOK, HeardAt, OfThread
  <2>3. /\ r.got \in Seq(1 .. MaxPosts) /\ r.under \in Opt(Threads)
        /\ r.then \in {"nothing", "send", "place"}
    BY <1>1 DEF Load
  <2>4. r.under \in Threads
    BY <1>1 DEF TaskOK
  <2>5. out \in Seq(Shown) /\ DOMAIN out = DOMAIN r.got
        /\ \A i \in DOMAIN out : out[i].post = r.got[i] /\ out[i].under = r.under
    <3>1. /\ Len(r.got) \in Nat /\ DOMAIN r.got = 1 .. Len(r.got)
          /\ \A i \in DOMAIN r.got : r.got[i] \in 1 .. MaxPosts
      BY Zenon, <2>3, SeqIs
    <3>2. out = [i \in 1 .. Len(r.got) |-> [post |-> r.got[i], under |-> r.under]]
      BY <3>1
    <3>3. \A i \in 1 .. Len(r.got) : [post |-> r.got[i], under |-> r.under] \in Shown
      BY <2>4, <3>1 DEF Shown
    <3> QED
      BY <3>1, <3>2, <3>3
  <2> HIDE DEF out
  <2>6. n \in 0 .. MaxPosts
    <3>1. CASE out = <<>>
      BY <2>2, <3>1 DEF Thread
    <3>2. CASE out # <<>>
      <4>1. Len(out) \in DOMAIN out /\ out[Len(out)] \in Shown
        BY <2>5, <3>2
      <4>2. \A z \in Shown : z.post \in 0 .. MaxPosts
        BY BoundsAreNumbers DEF Shown
      <4> QED
        BY <3>2, <4>1, <4>2
    <3> QED
      BY <3>1, <3>2
  <2>7. page.list \in Seq(Shown)
    BY <2>2 DEF Thread
  <2>8. /\ e \in Seq(Shown)
        /\ \A k \in DOMAIN e : \/ k \in DOMAIN page.list /\ e[k] = page.list[k]
                               \/ \E i \in DOMAIN out : e[k] = out[i]
    BY <2>5, <2>7, MergeIs
  <2> HIDE DEF n, e
  <2> DEFINE d == [page EXCEPT !.last = n]
             p == [d EXCEPT !.list = e]
  <2>d. /\ d \in Thread /\ d.at = page.at /\ d.key = page.key
        /\ d.sending = page.sending /\ d.locating = page.locating
    BY <2>2, <2>6, WithLast
  <2> HIDE DEF d
  <2>9. /\ p \in Thread /\ p.at = page.at /\ p.key = page.key /\ p.list = e
        /\ p.sending = page.sending /\ p.locating = page.locating
    BY <2>8, <2>d, WithList
  <2>a. p = [page EXCEPT !.last = n, !.list = e]
    BY DEF d
  <2> HIDE DEF p
  <2>10. page' = Freed(p, r.then)
    BY <2>1, <2>a
  <2>11. /\ page' \in Thread /\ page'.at = p.at /\ page'.key = p.key /\ page'.list = p.list
         /\ Off("send", page') <=> Off("send", p) /\ r.then # "send"
         /\ Off("place", page') <=> Off("place", p) /\ r.then # "place"
    BY <2>9, <2>10, FreedIs
  <2>12. ~crossed => \A i \in DOMAIN out :
            /\ out[i].post \in DOMAIN posts /\ out[i].under = page.at
            /\ posts[out[i].post].thread = page.at
    BY <1>1, <1>3, <2>5 DEF TaskOK, Own, OfThread
  <2>13. ~crossed => page.key \in {page.at, None} /\ \A i \in DOMAIN page.list :
            /\ page.list[i].post \in DOMAIN posts /\ page.list[i].under = page.at
            /\ posts[page.list[i].post].thread = page.at
    BY <1>1, <2>2 DEF PageOK, OwnPage
  <2>14. ~crossed => OwnPage(page', posts)
    BY <2>8, <2>9, <2>11, <2>12, <2>13 DEF OwnPage
  <2>15. PageOK(page', posts, crossed)
    BY <2>11, <2>14 DEF PageOK
  <2>16. \A why \in {"send", "place"} :
           \/ (Awaits(why, Idle) <=> Awaits(why, r)) /\ (Off(why, page) <=> Off(why, page'))
           \/ Awaits(why, r) /\ ~Awaits(why, Idle) /\ ~Off(why, page')
    <3> TAKE why \in {"send", "place"}
    <3>1. ~Awaits(why, Idle)
      BY IdleWaits
    <3>2. Awaits(why, r) <=> r.then = why
      BY <1>1, <1>3 DEF Awaits
    <3>3. Off(why, p) <=> Off(why, page)
      BY <2>9 DEF Off
    <3>4. Off(why, page') <=> Off(why, p) /\ r.then # why
      BY <2>11
    <3> QED
      BY <3>1, <3>2, <3>3, <3>4
  <2>17. Becomes(s, Idle) /\ TaskOK(Idle, posts, page.at, crossed) /\ page'.at = page.at
    BY <1>1, <2>9, <2>11, IdleIsOK DEF Ends
  <2> QED
    BY <1>1, <2>15, <2>16, <2>17, Advances
<1> QED
  BY <1>2, <1>3

\* A task that writes, and what is on screen then.
LEMMA WrittenIs ==
  ASSUME IInv, HasKey, NEW k \in Writes, NEW step \in {"named", "locating", "sealed"},
         NEW keys, keys = IF step = "locating" THEN {} ELSE {page.key}
  PROVE  /\ TaskOK(Written(k, step, keys), posts, page.at, crossed)
         /\ \A why \in {"send", "place"} : Awaits(why, Written(k, step, keys)) <=> k = why
<1> DEFINE r == Written(k, step, keys)
<1>1. /\ page \in Thread /\ page.at # None /\ page.key # None /\ PageOK(page, posts, crossed)
  BY IsThere DEF HasKey
<1>2. page.at \in Threads /\ page.key \in Threads /\ keys \in SUBSET Threads
  BY <1>1 DEF Thread, Opt
<1>3. /\ r.kind = k /\ r.live /\ r.of = page.at /\ r.step = step /\ r.keys = keys
  BY DEF Written
<1>4. r \in Writing
  BY <1>2 DEF Written, Writing, Writes
<1> HIDE DEF r
<1>5. ~crossed => page.key = page.at
  BY <1>1 DEF PageOK, OwnPage
<1>6. k # "load" /\ k \notin {"list", "create", "row"}
  BY DEF Writes
<1>7. TaskOK(r, posts, page.at, crossed)
  BY <1>1, <1>3, <1>4, <1>5, <1>6 DEF TaskOK, Fits, HeardAt, Own, OfThread
<1>8. \A why \in {"send", "place"} : Awaits(why, r) <=> k = why
  BY <1>3, <1>6 DEF Awaits
<1> QED
  BY <1>7, <1>8 DEF r

LEMMA SendStep == ASSUME IInv, Send PROVE IInv'
<1> DEFINE r == Written("send", "sealed", {page.key})
<1>1. /\ HasKey /\ ~page.sending /\ page' = [page EXCEPT !.sending = TRUE]
      /\ Starts(r, task) /\ UNCHANGED <<link, posts, bells, crossed>>
  BY DEF Send
<1>2. page \in Thread /\ page.at # None /\ PageOK(page, posts, crossed) /\ Rest
  BY <1>1, IsThere DEF HasKey
<1>3. /\ TaskOK(r, posts, page.at, crossed)
      /\ \A why \in {"send", "place"} : Awaits(why, r) <=> "send" = why
  BY <1>1, WrittenIs DEF Writes
<1> HIDE DEF r
<1>4. /\ page' \in Thread /\ page'.at = page.at
      /\ page'.key = page.key /\ page'.list = page.list
      /\ page'.sending = TRUE /\ page'.locating = page.locating
  BY Zenon, <1>1, <1>2, WithSending
<1>5. PageOK(page', posts, crossed) /\ Rest'
  BY <1>1, <1>2, <1>4 DEF PageOK, OwnPage, Rest
<1>6. \A why \in {"send", "place"} :
        \/ ~Awaits(why, r) /\ (Off(why, page) <=> Off(why, page'))
        \/ Awaits(why, r) /\ ~Off(why, page) /\ Off(why, page')
  BY <1>1, <1>2, <1>3, <1>4 DEF Off
<1> QED
  BY Zenon, <1>1, <1>3, <1>4, <1>5, <1>6, Begins

LEMMA ShareLocationStep == ASSUME IInv, ShareLocation PROVE IInv'
<1> DEFINE r == Written("place", "locating", {})
<1>1. /\ HasKey /\ ~page.locating /\ page' = [page EXCEPT !.locating = TRUE]
      /\ Starts(r, task) /\ UNCHANGED <<link, posts, bells, crossed>>
  BY DEF ShareLocation
<1>2. page \in Thread /\ page.at # None /\ PageOK(page, posts, crossed) /\ Rest
  BY <1>1, IsThere DEF HasKey
<1>3. /\ TaskOK(r, posts, page.at, crossed)
      /\ \A why \in {"send", "place"} : Awaits(why, r) <=> "place" = why
  BY <1>1, WrittenIs DEF Writes
<1> HIDE DEF r
<1>4. /\ page' \in Thread /\ page'.at = page.at
      /\ page'.key = page.key /\ page'.list = page.list
      /\ page'.locating = TRUE /\ page'.sending = page.sending
  BY Zenon, <1>1, <1>2, WithLocating
<1>5. PageOK(page', posts, crossed) /\ Rest'
  BY <1>1, <1>2, <1>4 DEF PageOK, OwnPage, Rest
<1>6. \A why \in {"send", "place"} :
        \/ ~Awaits(why, r) /\ (Off(why, page) <=> Off(why, page'))
        \/ Awaits(why, r) /\ ~Off(why, page) /\ Off(why, page')
  BY <1>1, <1>2, <1>3, <1>4 DEF Off
<1> QED
  BY Zenon, <1>1, <1>3, <1>4, <1>5, <1>6, Begins

LEMMA PickStep == ASSUME IInv, PickImage \/ PickFile PROVE IInv'
<1>1. PICK k \in {"image", "file"}, step \in {"named", "sealed"} :
        Starts(Written(k, step, {page.key}), task)
  BY DEF PickImage, PickFile
<1> DEFINE r == Written(k, step, {page.key})
<1>2. HasKey /\ UNCHANGED <<link, posts, bells, page, crossed>>
  BY DEF PickImage, PickFile
<1>3. /\ TaskOK(r, posts, page.at, crossed)
      /\ \A why \in {"send", "place"} : Awaits(why, r) <=> k = why
  BY <1>2, WrittenIs DEF Writes
<1>4. Starts(r, task)
  BY <1>1
<1> HIDE DEF r
<1>5. PageOK(page, posts, crossed) /\ Rest
  BY IsThere
<1>6. Rest'
  BY <1>2, <1>5 DEF Rest
<1>7. \A why \in {"send", "place"} : ~Awaits(why, r)
  BY <1>3
<1> QED
  BY <1>2, <1>3, <1>4, <1>5, <1>6, <1>7, Begins

\* A task of the page with the key it finds in the ref.
LEMMA SealedIs ==
  ASSUME IInv, NEW s \in Slots, task[s].kind \in Writes, KeyOf(task[s]) # None,
         NEW keys \in SUBSET Threads,
         ~crossed => keys = {task[s].of}
  PROVE  /\ TaskOK([task[s] EXCEPT !.step = "sealed", !.keys = keys], posts, page.at, crossed)
         /\ \A why \in {"send", "place"} :
              Awaits(why, [task[s] EXCEPT !.step = "sealed", !.keys = keys]) <=> Awaits(why, task[s])
<1>1. PICK r : r = task[s]
  OBVIOUS
<1>2. r \in Writing /\ TaskOK(r, posts, page.at, crossed) /\ r.kind \in Writes
  BY <1>1, IsThere
<1> DEFINE a == [r EXCEPT !.step = "sealed"]
           q == [a EXCEPT !.keys = keys]
<1>3. a \in Writing /\ a.kind = r.kind /\ a.live = r.live /\ a.of = r.of /\ a.step = "sealed"
  BY <1>2 DEF Writing
<1> HIDE DEF a
<1>4. q \in Writing /\ q.kind = r.kind /\ q.live = r.live /\ q.of = r.of /\ q.step = "sealed"
      /\ q.keys = keys
  BY <1>3 DEF Writing
<1>5. q = [task[s] EXCEPT !.step = "sealed", !.keys = keys]
  BY <1>1 DEF a
<1> HIDE DEF q
<1>6. q.kind # "load"
  BY <1>2, <1>4 DEF Writes
<1>7. TaskOK(q, posts, page.at, crossed)
  BY <1>1, <1>2, <1>4, <1>6 DEF TaskOK, Fits, HeardAt, Own, OfThread
<1>8. \A why \in {"send", "place"} : Awaits(why, q) <=> Awaits(why, r)
  BY <1>2, <1>4, <1>6 DEF Awaits
<1> QED
  BY <1>1, <1>5, <1>7, <1>8

\* The key in the ref is that of the thread the task is of.
LEMMA KeyIs ==
  ASSUME IInv, NEW s \in Slots, task[s].kind \in Writes, KeyOf(task[s]) # None
  PROVE  /\ page.key \in Threads
         /\ ~crossed => page.key = task[s].of
<1>1. task[s].live /\ page.key # None
  BY DEF KeyOf
<1>2. TaskOK(task[s], posts, page.at, crossed) /\ PageOK(page, posts, crossed)
  BY IsThere
<1>3. page.at # None /\ (~crossed => task[s].of = page.at)
  BY <1>1, <1>2 DEF TaskOK, HeardAt, Own, OfThread
<1>4. page \in Thread
  BY <1>3, IsThere
<1> QED
  BY <1>1, <1>2, <1>3, <1>4 DEF PageOK, OwnPage, Thread, Opt

LEMMA FileSealedStep == ASSUME IInv, NEW s \in Slots, FileSealed(s) PROVE IInv'
<1>1. /\ task[s].kind = "file" /\ task[s].step = "named"
      /\ UNCHANGED <<link, posts, bells, page, crossed>>
      /\ task[s].kind \in Writes
  BY DEF FileSealed, Writes
<1>2. /\ task[s] \in Writing /\ TaskOK(task[s], posts, page.at, crossed) /\ Rest
      /\ PageOK(page, posts, crossed)
  BY <1>1, IsThere
<1>3. Rest'
  BY <1>1, <1>2 DEF Rest
<1>4. CASE KeyOf(task[s]) = None
  <2>1. Ends(s)
    BY <1>4 DEF FileSealed
  <2>2. \A why \in {"send", "place"} : ~Awaits(why, task[s])
    BY <1>1 DEF Awaits
  <2> QED
    BY <1>1, <1>3, <2>1, <2>2, EndsUnseen
<1>5. CASE KeyOf(task[s]) # None
  <2> DEFINE keys == task[s].keys \cup {page.key}
             q == [task[s] EXCEPT !.step = "sealed", !.keys = keys]
  <2>1. Becomes(s, q)
    BY <1>5 DEF FileSealed
  <2>2. page.key \in Threads /\ (~crossed => page.key = task[s].of)
    BY <1>1, <1>5, KeyIs
  <2>3. keys \in SUBSET Threads
    BY <1>2, <2>2 DEF Writing
  <2>4. ~crossed => task[s].keys = {task[s].of}
    BY <1>1, <1>2 DEF TaskOK, Own
  <2>5. ~crossed => keys = {task[s].of}
    BY <2>2, <2>4
  <2> HIDE DEF keys
  <2>6. /\ TaskOK(q, posts, page.at, crossed)
        /\ \A why \in {"send", "place"} : Awaits(why, q) <=> Awaits(why, task[s])
    BY Zenon, <1>1, <1>5, <2>3, <2>5, SealedIs
  <2> HIDE DEF q
  <2> QED
    BY <1>1, <1>2, <1>3, <2>1, <2>6, Advances
<1> QED
  BY <1>4, <1>5

LEMMA LocatedStep == ASSUME IInv, NEW s \in Slots, Located(s) PROVE IInv'
<1> DEFINE q == [task[s] EXCEPT !.step = "sealed", !.keys = {page.key}]
<1>1. /\ task[s].kind \in Writes /\ UNCHANGED <<link, posts, bells, page, crossed>>
      /\ KeyOf(task[s]) # None /\ Becomes(s, q)
  BY DEF Located, Writes
<1>2. Rest /\ PageOK(page, posts, crossed)
  BY IsThere
<1>3. Rest'
  BY <1>1, <1>2 DEF Rest
<1>4. page.key \in Threads /\ (~crossed => page.key = task[s].of)
  BY <1>1, KeyIs
<1>5. {page.key} \in SUBSET Threads /\ (~crossed => {page.key} = {task[s].of})
  BY <1>4
<1>6. /\ TaskOK(q, posts, page.at, crossed)
      /\ \A why \in {"send", "place"} : Awaits(why, q) <=> Awaits(why, task[s])
  BY Zenon, <1>1, <1>5, SealedIs
<1> HIDE DEF q
<1> QED
  BY <1>1, <1>2, <1>3, <1>6, Advances

\* A task that writes ends, and with it what waited for it.
LEMMA WriteEnds ==
  ASSUME IInv, NEW s \in Slots, task[s].kind \in Writes, Ends(s),
         UNCHANGED <<link, posts, bells, crossed>>,
         page' = IF task[s].live THEN Freed(page, task[s].kind) ELSE page
  PROVE  IInv'
<1> DEFINE r == task[s]
<1>1. /\ r \in Writing /\ TaskOK(r, posts, page.at, crossed)
      /\ Rest /\ PageOK(page, posts, crossed)
  BY IsThere
<1>2. Rest'
  BY <1>1 DEF Rest
<1>3. CASE ~r.live
  <2>1. \A why \in {"send", "place"} : ~Awaits(why, r)
    BY <1>3 DEF Awaits
  <2> QED
    BY <1>2, <1>3, <2>1, EndsUnseen
<1>4. CASE r.live
  <2>1. page.at # None /\ page \in Thread
    BY <1>1, <1>4, IsThere DEF TaskOK, HeardAt, OfThread
  <2>2. page' = Freed(page, r.kind)
    BY <1>4
  <2>3. /\ page' \in Thread /\ page'.at = page.at
        /\ page'.key = page.key /\ page'.list = page.list
        /\ Off("send", page') <=> Off("send", page) /\ r.kind # "send"
        /\ Off("place", page') <=> Off("place", page) /\ r.kind # "place"
    BY <2>1, <2>2, FreedIs
  <2>4. PageOK(page', posts, crossed)
    BY <1>1, <2>1, <2>3 DEF PageOK, OwnPage
  <2>5. \A why \in {"send", "place"} :
           \/ (Awaits(why, Idle) <=> Awaits(why, r)) /\ (Off(why, page) <=> Off(why, page'))
           \/ Awaits(why, r) /\ ~Awaits(why, Idle) /\ ~Off(why, page')
    <3> TAKE why \in {"send", "place"}
    <3>1. ~Awaits(why, Idle)
      BY IdleWaits
    <3>2. Awaits(why, r) <=> r.kind = why
      BY <1>4 DEF Awaits, Writes
    <3>3. Off(why, page') <=> Off(why, page) /\ r.kind # why
      BY <2>3
    <3> QED
      BY <3>1, <3>2, <3>3
  <2>6. Becomes(s, Idle) /\ TaskOK(Idle, posts, page.at, crossed)
    BY IdleIsOK DEF Ends
  <2> QED
    BY <1>2, <2>3, <2>4, <2>5, <2>6, Advances
<1> QED
  BY <1>3, <1>4

LEMMA NotLocatedStep == ASSUME IInv, NEW s \in Slots, NotLocated(s) PROVE IInv'
BY WriteEnds DEF NotLocated, Writes

LEMMA WriteFailsStep == ASSUME IInv, NEW s \in Slots, WriteFails(s) PROVE IInv'
BY WriteEnds DEF WriteFails, Writes

\* What a new message leaves as it was.
LEMMA Posted ==
  ASSUME IInv, NEW p \in Post, Len(posts) < MaxPosts, posts' = Append(posts, p),
         ~crossed => p.keys = {p.thread}, UNCHANGED <<page, crossed>>
  PROVE  /\ PostsOK(posts', crossed) /\ PageOK(page, posts', crossed)
         /\ \A k \in Slots : TaskOK(task[k], posts', page.at, crossed)
         /\ Len(posts') = Len(posts) + 1
<1>1. /\ posts \in Seq(Post) /\ Len(posts) \in Nat
      /\ ~crossed => \A i \in DOMAIN posts : posts[i].keys = {posts[i].thread}
  BY IsThere DEF PostsOK
<1>2. /\ posts' \in Seq(Post) /\ Len(posts') = Len(posts) + 1
      /\ DOMAIN posts' = 1 .. Len(posts) + 1
      /\ \A i \in DOMAIN posts : i \in DOMAIN posts' /\ posts'[i] = posts[i]
      /\ posts'[Len(posts) + 1] = p /\ DOMAIN posts = 1 .. Len(posts)
  BY <1>1
<1>3. Len(posts') <= MaxPosts
  BY <1>1, <1>2, BoundsAreNumbers
<1>4. ~crossed => \A i \in DOMAIN posts' : posts'[i].keys = {posts'[i].thread}
  <2> SUFFICES ASSUME ~crossed, NEW i \in DOMAIN posts' PROVE posts'[i].keys = {posts'[i].thread}
    OBVIOUS
  <2>1. i \in DOMAIN posts \/ i = Len(posts) + 1
    BY <1>1, <1>2
  <2> QED
    BY <1>1, <1>2, <2>1
<1>5. PageOK(page, posts', crossed)
  BY <1>2, IsThere DEF PageOK, OwnPage
<1>6. \A k \in Slots : TaskOK(task[k], posts', page.at, crossed)
  BY <1>1, IsThere, PostedIsOK
<1> QED
  BY <1>2, <1>3, <1>4, <1>5, <1>6 DEF PostsOK

\* With a message more, one task takes its next step.
LEMMA PostedBy ==
  ASSUME IInv, NEW p \in Post, Len(posts) < MaxPosts, posts' = Append(posts, p),
         ~crossed => p.keys = {p.thread}, UNCHANGED <<bells, page, crossed>>,
         link' \in [Threads -> {"none", "live", "gone"}],
         NEW s \in Slots, NEW r, Becomes(s, r), TaskOK(r, posts', page.at, crossed),
         \A why \in {"send", "place"} : Awaits(why, r) <=> Awaits(why, task[s])
  PROVE  IInv'
<1>1. /\ PostsOK(posts', crossed) /\ PageOK(page, posts', crossed)
      /\ \A k \in Slots : TaskOK(task[k], posts', page.at, crossed)
      /\ Len(posts') = Len(posts) + 1
  BY Posted
<1>2. /\ DOMAIN task = Slots /\ Counts(page, task) /\ Rest /\ Len(posts) \in Nat
  BY IsThere DEF PostsOK
<1>3. DOMAIN task' = Slots /\ \A k \in Slots : TaskOK(task'[k], posts', page.at, crossed)
  BY <1>1, <1>2, BecomesOK
<1>4. Counts(page, task')
  BY <1>2, BecomesCounts
<1>5. Rest'
  BY <1>1, <1>2 DEF Rest
<1> QED
  BY <1>1, <1>3, <1>4, <1>5 DEF IInv, Tasks

\* What is stored was sealed with the key of the thread it goes to.
LEMMA StoredStep == ASSUME IInv, NEW s \in Slots, Stored(s) PROVE IInv'
<1>1. PICK r : r = task[s]
  OBVIOUS
<1> DEFINE p == [thread |-> r.of, by |-> "host", keys |-> r.keys]
           q == [r EXCEPT !.step = "stored"]
<1>2. /\ r.kind \in Writes /\ r.step = "sealed" /\ Len(posts) < MaxPosts
      /\ posts' = Append(posts, p) /\ Becomes(s, q) /\ UNCHANGED <<link, bells, page, crossed>>
  BY <1>1 DEF Stored, Writes
<1>3. r \in Writing /\ TaskOK(r, posts, page.at, crossed) /\ Rest /\ posts \in Seq(Post)
  BY <1>1, <1>2, IsThere DEF PostsOK
<1>4. p \in Post /\ p.thread = r.of /\ p.keys = r.keys
  BY <1>3 DEF Writing, Post
<1>5. ~crossed => p.keys = {p.thread}
  BY <1>2, <1>3, <1>4 DEF TaskOK, Own
<1> HIDE DEF p
<1>6. q \in Writing /\ q.kind = r.kind /\ q.live = r.live /\ q.of = r.of /\ q.step = "stored"
      /\ q.keys = r.keys
  BY <1>3 DEF Writing
<1> HIDE DEF q
<1>7. q.kind # "load"
  BY <1>2, <1>6 DEF Writes
<1>8. TaskOK(q, posts, page.at, crossed)
  BY <1>2, <1>3, <1>6, <1>7 DEF TaskOK, Fits, HeardAt, Own, OfThread
<1>9. TaskOK(q, posts', page.at, crossed)
  BY <1>2, <1>3, <1>4, <1>8, PostedIsOK
<1>10. \A why \in {"send", "place"} : Awaits(why, q) <=> Awaits(why, task[s])
  BY <1>1, <1>2, <1>6, <1>7 DEF Awaits, Writes
<1>11. link' \in [Threads -> {"none", "live", "gone"}]
  BY <1>2, <1>3 DEF Rest
<1> QED
  BY <1>2, <1>4, <1>5, <1>9, <1>10, <1>11, PostedBy

\* The load that follows waits in its place.
LEMMA FollowStep == ASSUME IInv, NEW s \in Slots, Follow(s) PROVE IInv'
<1>1. PICK r : r = task[s]
  OBVIOUS
<1> DEFINE then == IF r.kind \in {"send", "place"} THEN r.kind ELSE "nothing"
           q == AskLoad(r.of, LastOf(r), then, r.live)
<1>2. /\ r.kind \in Writes /\ r.step = "stored"
      /\ Becomes(s, q) /\ UNCHANGED <<link, posts, bells, page, crossed>>
  BY <1>1 DEF Follow, Writes
<1>3. /\ r \in Writing /\ TaskOK(r, posts, page.at, crossed)
      /\ Rest /\ PageOK(page, posts, crossed)
      /\ page.at # None => page \in Thread
  BY <1>1, <1>2, IsThere
<1>4. r.live => page.at # None /\ (~crossed => r.of = page.at)
  BY <1>2, <1>3 DEF TaskOK, HeardAt, Own, OfThread
<1>5. LastOf(r) \in 0 .. MaxPosts
  <2>1. 0 \in 0 .. MaxPosts
    BY BoundsAreNumbers
  <2> QED
    BY <1>3, <1>4, <2>1 DEF LastOf, Thread
<1>6. r.of \in Threads /\ r.live \in BOOLEAN /\ then \in {"nothing", "send", "place"}
  BY <1>3 DEF Writing
<1>7. /\ TaskOK(q, posts, page.at, crossed)
      /\ \A why \in {"send", "place"} : Awaits(why, q) <=> r.live /\ then = why
  <2> HIDE DEF then
  <2> QED
    BY <1>4, <1>5, <1>6, AskLoadIs
<1>8. \A why \in {"send", "place"} : Awaits(why, r) <=> r.live /\ then = why
  BY <1>2 DEF Awaits, Writes
<1>9. Rest'
  BY <1>2, <1>3 DEF Rest
<1> HIDE DEF q, then
<1> QED
  BY <1>1, <1>2, <1>3, <1>7, <1>8, <1>9, Advances

-----------------------------------------------------------------------------
(* The list and the sheet *)

LEMMA ListServedStep == ASSUME IInv, NEW s \in Slots, ListServed(s) PROVE IInv'
<1>1. PICK r : r = task[s]
  OBVIOUS
<1> DEFINE G == {t \in Threads : link[t] = "live"}
           a == [r EXCEPT !.step = "served"]
           q == [a EXCEPT !.got = G]
<1>2. r.kind = "list" /\ UNCHANGED <<link, posts, bells, page, crossed>>
  BY <1>1 DEF ListServed
<1>3. Becomes(s, q)
  BY <1>1 DEF ListServed
<1>4. /\ r \in Request /\ TaskOK(r, posts, page.at, crossed)
      /\ Rest /\ PageOK(page, posts, crossed)
  BY <1>1, <1>2, IsThere
<1>5. a \in Request /\ a.kind = "list" /\ a.live = r.live
  BY <1>2, <1>4 DEF Request
<1>6. G \in SUBSET Threads
  OBVIOUS
<1> HIDE DEF a, G
<1>7. q \in Request /\ q.kind = "list" /\ q.live = r.live
  BY <1>5, <1>6 DEF Request
<1> HIDE DEF q
<1>8. TaskOK(q, posts, page.at, crossed)
  BY <1>2, <1>4, <1>7 DEF TaskOK, Fits, HeardAt, Own, OfThread, Writes
<1>9. \A why \in {"send", "place"} : ~Awaits(why, q) /\ ~Awaits(why, r)
  BY <1>2, <1>7 DEF Awaits
<1>10. Rest'
  BY <1>2, <1>4 DEF Rest
<1> QED
  BY <1>1, <1>2, <1>3, <1>4, <1>8, <1>9, <1>10, Advances

\* A change of the list or of its sheet.
LEMMA ListChanges ==
  ASSUME IInv, page.at = None, NEW p \in List, p.at = None
  PROVE  /\ PageOK(p, posts, crossed)
         /\ \A why \in {"send", "place"} : ~Off(why, page) /\ ~Off(why, p)
BY DEF PageOK, OwnPage, Off

\* A task of the list ends.
LEMMA RequestEnds ==
  ASSUME IInv, NEW s \in Slots, task[s].kind \in {"list", "create", "row"}, Ends(s),
         UNCHANGED <<link, posts, bells, crossed>>,
         \/ page' = page
         \/ task[s].live /\ (page \in List /\ page.at = None => page' \in List /\ page'.at = None)
  PROVE  IInv'
<1>1. Rest /\ TaskOK(task[s], posts, page.at, crossed) /\ PageOK(page, posts, crossed)
  BY IsThere
<1>2. Rest'
  BY <1>1 DEF Rest
<1>3. \A why \in {"send", "place"} : ~Awaits(why, task[s])
  BY DEF Awaits
<1>4. CASE page' = page
  BY <1>2, <1>3, <1>4, EndsUnseen
<1>5. CASE page' # page
  <2>1. page.at = None
    BY <1>1, <1>5 DEF TaskOK, HeardAt
  <2>2. page' \in List /\ page'.at = None
    BY <1>5, <2>1, IsThere
  <2>3. /\ PageOK(page', posts, crossed)
        /\ \A why \in {"send", "place"} : ~Off(why, page) /\ ~Off(why, page')
    BY <2>1, <2>2, ListChanges
  <2>4. Becomes(s, Idle) /\ TaskOK(Idle, posts, page.at, crossed)
    BY IdleIsOK DEF Ends
  <2> QED
    BY <1>2, <1>3, <2>1, <2>2, <2>3, <2>4, IdleWaits, Advances
<1> QED
  BY <1>4, <1>5

LEMMA ListArrivesStep == ASSUME IInv, NEW s \in Slots, ListArrives(s) PROVE IInv'
<1>1. PICK r : r = task[s]
  OBVIOUS
<1>2. /\ r.kind = "list" /\ Ends(s) /\ UNCHANGED <<link, posts, bells, crossed>>
      /\ page' = IF r.live THEN [page EXCEPT !.guests = r.got] ELSE page
  BY <1>1 DEF ListArrives
<1>3. r.got \in SUBSET Threads
  BY <1>1, <1>2, IsThere DEF Request
<1>4. \/ page' = page
      \/ r.live /\ (page \in List /\ page.at = None => page' \in List /\ page'.at = None)
  BY Zenon, <1>2, <1>3, ListIs
<1> QED
  BY <1>1, <1>2, <1>4, RequestEnds

\* The sheet hears the end of its request.
LEMMA CreateEndsStep ==
  ASSUME IInv, NEW s \in Slots, NEW sheet \in {"made", "open"},
         task[s].kind = "create", CreateEnds(s, sheet)
  PROVE  IInv'
<1>1. PICK r : r = task[s]
  OBVIOUS
<1>2. /\ r.kind = "create" /\ Ends(s) /\ UNCHANGED <<link, posts, bells, crossed>>
      /\ page' = IF r.live THEN [page EXCEPT !.sheet = sheet] ELSE page
  BY <1>1 DEF CreateEnds
<1>3. \/ page' = page
      \/ r.live /\ (page \in List /\ page.at = None => page' \in List /\ page'.at = None)
  BY Zenon, <1>2, ListIs
<1> QED
  BY <1>1, <1>2, <1>3, RequestEnds

LEMMA OpenSheetStep == ASSUME IInv, OpenSheet PROVE IInv'
<1>1. /\ page.at = None /\ page' = [page EXCEPT !.sheet = "open"]
      /\ UNCHANGED <<link, posts, bells, task, crossed>>
  BY DEF OpenSheet
<1>2. page' \in List /\ page'.at = None
  BY Zenon, <1>1, IsThere, ListIs
<1>3. /\ PageOK(page', posts, crossed)
      /\ \A why \in {"send", "place"} : ~Off(why, page) /\ ~Off(why, page')
  BY Zenon, <1>1, <1>2, ListChanges
<1>4. Counts(page', task)
  BY <1>3, IsThere DEF Counts, Unique
<1> QED
  BY <1>1, <1>2, <1>3, <1>4 DEF IInv, Rest, PostsOK, Tasks

\* The request of a closed sheet goes on unheard.
LEMMA CloseSheetStep == ASSUME IInv, CloseSheet PROVE IInv'
<1> DEFINE f == [s \in Slots |-> [task[s] EXCEPT !.live = task[s].live /\ task[s].kind # "create"]]
<1>1. /\ page.at = None /\ page' = [page EXCEPT !.sheet = "closed"]
      /\ Starts(AskList, f) /\ UNCHANGED <<link, posts, bells, crossed>>
  BY DEF CloseSheet
<1>2. page' \in List /\ page'.at = None
  BY Zenon, <1>1, IsThere, ListIs
<1>3. /\ PageOK(page', posts, crossed)
      /\ \A why \in {"send", "place"} : ~Off(why, page')
  BY Zenon, <1>1, <1>2, ListChanges
<1>4. ASSUME NEW k \in Slots PROVE TaskOK(f[k], posts, None, crossed)
  <2>1. PICK r : r = task[k]
    OBVIOUS
  <2>2. TaskOK(r, posts, None, crossed)
    BY <1>1, <2>1, IsThere
  <2>3. PICK b \in BOOLEAN : b <=> r.live /\ r.kind # "create"
    BY Zenon
  <2>4. (r.live /\ r.kind # "create") = b
    BY <2>3, Zenon
  <2>5. TaskOK([r EXCEPT !.live = b], posts, None, crossed)
    BY <2>2, <2>3, WithLiveIsOK
  <2>6. f[k] = [r EXCEPT !.live = b]
    BY <2>1, <2>4
  <2> QED
    BY <2>5, <2>6
<1>5. DOMAIN f = Slots
  OBVIOUS
<1> HIDE DEF f
<1>6. Counts(page', f)
  BY <1>3, <1>4, NobodyWaits DEF Counts, Unique
<1>7. /\ TaskOK(AskList, posts, None, crossed)
      /\ \A why \in {"send", "place"} : ~Awaits(why, AskList)
  BY AskListIs
<1>8. DOMAIN task' = Slots /\ \A k \in Slots : TaskOK(task'[k], posts, None, crossed)
  BY <1>1, <1>4, <1>5, <1>7, StartsOK
<1>9. Counts(page', task')
  BY <1>1, <1>5, <1>6, <1>7, StartsCounts
<1>10. Tasks'
  BY <1>1, <1>2, <1>8 DEF Tasks
<1> QED
  BY <1>1, <1>3, <1>9, <1>10, IsThere DEF IInv, Rest, PostsOK

LEMMA CreateStep == ASSUME IInv, Create PROVE IInv'
<1> DEFINE r == [AskList EXCEPT !.kind = "create"]
<1>1. /\ page.at = None /\ page' = [page EXCEPT !.sheet = "busy"]
      /\ Starts(r, task) /\ UNCHANGED <<link, posts, bells, crossed>>
  BY DEF Create
<1>2. /\ TaskOK(r, posts, page.at, crossed)
      /\ \A why \in {"send", "place"} : ~Awaits(why, r)
  BY <1>1, AskCreateIs
<1> HIDE DEF r
<1>3. page' \in List /\ page'.at = None
  BY Zenon, <1>1, IsThere, ListIs
<1>4. /\ PageOK(page', posts, crossed)
      /\ \A why \in {"send", "place"} : ~Off(why, page) /\ ~Off(why, page')
  BY Zenon, <1>1, <1>3, ListChanges
<1>5. Rest'
  BY <1>1, IsThere DEF Rest
<1> QED
  BY <1>1, <1>2, <1>3, <1>4, <1>5, Begins

\* A request that was served.
LEMMA ServedIs ==
  ASSUME IInv, NEW s \in Slots, task[s].kind \in {"create", "row", "page"}
  PROVE  /\ TaskOK([task[s] EXCEPT !.step = "served"], posts, page.at, crossed)
         /\ \A why \in {"send", "place"} :
              Awaits(why, [task[s] EXCEPT !.step = "served"]) <=> Awaits(why, task[s])
<1>1. PICK r : r = task[s]
  OBVIOUS
<1> DEFINE q == [r EXCEPT !.step = "served"]
<1>2. /\ r \in Request /\ TaskOK(r, posts, page.at, crossed)
      /\ r.kind \in {"create", "row", "page"}
  BY <1>1, IsThere
<1>3. q \in Request /\ q.kind = r.kind /\ q.live = r.live
  BY <1>2 DEF Request
<1> HIDE DEF q
<1>4. TaskOK(q, posts, page.at, crossed)
  BY <1>2, <1>3 DEF TaskOK, Fits, HeardAt, Own, OfThread, Writes
<1>5. \A why \in {"send", "place"} : ~Awaits(why, q) /\ ~Awaits(why, r)
  BY <1>2, <1>3 DEF Awaits
<1> QED
  BY <1>1, <1>4, <1>5 DEF q

LEMMA CreateServedStep ==
  ASSUME IInv, NEW s \in Slots, NEW t \in Threads, CreateServed(s, t)
  PROVE  IInv'
<1> DEFINE q == [task[s] EXCEPT !.step = "served"]
           p == FirstOf(t)
<1>1. /\ task[s].kind = "create" /\ Len(posts) < MaxPosts
      /\ link' = [link EXCEPT ![t] = "live"] /\ posts' = Append(posts, p)
      /\ Becomes(s, q) /\ UNCHANGED <<bells, page, crossed>>
  BY DEF CreateServed
<1>2. p \in Post /\ p.keys = {p.thread}
  BY DEF FirstOf, Post
<1>3. /\ TaskOK(q, posts, page.at, crossed)
      /\ \A why \in {"send", "place"} : Awaits(why, q) <=> Awaits(why, task[s])
  BY <1>1, ServedIs
<1> HIDE DEF q, p
<1>4. posts \in Seq(Post) /\ Rest
  BY IsThere DEF PostsOK
<1>5. TaskOK(q, posts', page.at, crossed)
  BY <1>1, <1>2, <1>3, <1>4, PostedIsOK
<1>6. link' \in [Threads -> {"none", "live", "gone"}]
  BY <1>1, <1>4 DEF Rest
<1> QED
  BY <1>1, <1>2, <1>3, <1>5, <1>6, PostedBy

LEMMA GuestRepliesStep == ASSUME IInv, NEW t \in Threads, GuestReplies(t) PROVE IInv'
<1> DEFINE p == [thread |-> t, by |-> "guest", keys |-> {t}]
<1>1. /\ Len(posts) < MaxPosts /\ posts' = Append(posts, p) /\ bells' = bells + 1
      /\ UNCHANGED <<link, page, task, crossed>>
  BY DEF GuestReplies
<1>2. p \in Post /\ p.keys = {p.thread}
  BY DEF Post
<1> HIDE DEF p
<1>3. /\ PostsOK(posts', crossed) /\ PageOK(page, posts', crossed)
      /\ \A k \in Slots : TaskOK(task[k], posts', page.at, crossed)
      /\ Len(posts') = Len(posts) + 1
  BY <1>1, <1>2, Posted
<1>4. Rest /\ Len(posts) \in Nat /\ DOMAIN task = Slots /\ Counts(page, task)
  BY IsThere DEF PostsOK
<1>5. Rest'
  BY <1>1, <1>3, <1>4 DEF Rest
<1> QED
  BY <1>1, <1>3, <1>4, <1>5 DEF IInv, Tasks

LEMMA DeleteStep == ASSUME IInv, Revoke \/ \E t \in Threads : RevokeRow(t) PROVE IInv'
<1>1. PICK k \in {"row", "page"}, t \in Opt(Threads) :
        Starts([AskList EXCEPT !.kind = k, !.of = t], task) /\ (k # "page" => page.at = None)
  <2>1. CASE Revoke
    <3>1. /\ page.at \in Opt(Threads)
          /\ Starts([AskList EXCEPT !.kind = "page", !.of = page.at], task)
      BY <2>1, IsThere DEF Revoke, Delete, Thread, Opt
    <3> QED
      BY Zenon, <3>1
  <2>2. ASSUME NEW t \in Threads, RevokeRow(t)
        PROVE  /\ t \in Opt(Threads) /\ page.at = None
               /\ Starts([AskList EXCEPT !.kind = "row", !.of = t], task)
    BY Zenon, <2>2 DEF RevokeRow, Delete, Opt
  <2> QED
    BY ZenonT(120), <2>1, <2>2
<1> DEFINE r == [AskList EXCEPT !.kind = k, !.of = t]
<1>2. Starts(r, task) /\ UNCHANGED <<link, posts, bells, page, crossed>>
  BY <1>1 DEF Revoke, RevokeRow
<1>3. /\ TaskOK(r, posts, page.at, crossed)
      /\ \A why \in {"send", "place"} : ~Awaits(why, r)
  BY Zenon, <1>1, AskIs
<1> HIDE DEF r
<1>4. Rest /\ PageOK(page, posts, crossed)
  BY IsThere
<1>5. Rest'
  BY <1>2, <1>4 DEF Rest
<1> QED
  BY <1>2, <1>3, <1>4, <1>5, Begins

LEMMA RevokeServedStep == ASSUME IInv, NEW s \in Slots, RevokeServed(s) PROVE IInv'
<1> DEFINE q == [task[s] EXCEPT !.step = "served"]
<1>1. /\ task[s].kind \in {"row", "page"} /\ link' = [link EXCEPT ![task[s].of] = "gone"]
      /\ Becomes(s, q) /\ UNCHANGED <<posts, bells, page, crossed>>
  BY DEF RevokeServed
<1>2. /\ TaskOK(q, posts, page.at, crossed)
      /\ \A why \in {"send", "place"} : Awaits(why, q) <=> Awaits(why, task[s])
  BY <1>1, ServedIs
<1> HIDE DEF q
<1>3. Rest /\ PageOK(page, posts, crossed)
  BY IsThere
<1>4. Rest'
  BY Zenon, <1>1, <1>3 DEF Rest
<1> QED
  BY <1>1, <1>2, <1>3, <1>4, Advances

LEMMA RevokeEndsStep == ASSUME IInv, NEW s \in Slots, RevokeEnds(s) PROVE IInv'
<1>1. PICK r : r = task[s]
  OBVIOUS
<1>2. UNCHANGED <<link, posts, bells, crossed>>
  BY DEF RevokeEnds
<1>3. CASE /\ r.kind = "row" /\ Ends(s)
           /\ page' = IF r.live THEN [page EXCEPT !.guests = page.guests \ {r.of}] ELSE page
  <2>1. page \in List => page.guests \ {r.of} \in SUBSET Threads
    BY DEF List
  <2>2. \/ page' = page
        \/ r.live /\ (page \in List /\ page.at = None => page' \in List /\ page'.at = None)
    BY Zenon, <1>3, <2>1, ListIs
  <2> QED
    BY <1>1, <1>2, <1>3, <2>2, RequestEnds
<1>4. CASE page' = OnList /\ Starts(AskList, Unheard([task EXCEPT ![s] = Idle]))
  <2> DEFINE g == [task EXCEPT ![s] = Idle]
  <2>1. DOMAIN g = Slots /\ \A k \in Slots : TaskOK(g[k], posts, page.at, crossed)
    BY WithoutOne
  <2>2. page' = OnList /\ Starts(AskList, Unheard(g))
    BY <1>4
  <2> HIDE DEF g
  <2>3. Rest'
    BY <1>2, IsThere DEF Rest
  <2> QED
    BY <1>2, <2>1, <2>2, <2>3, ListReturns
<1> QED
  BY <1>1, <1>3, <1>4 DEF RevokeEnds

LEMMA SweptStep == ASSUME IInv, NEW t \in Threads, Swept(t) PROVE IInv'
<1>1. link' = [link EXCEPT ![t] = "gone"] /\ UNCHANGED <<posts, bells, page, task, crossed>>
  BY DEF Swept
<1>2. Rest'
  BY <1>1, IsThere DEF Rest
<1> QED
  BY <1>1, <1>2 DEF IInv, PostsOK, Tasks

LEMMA MissStep == ASSUME IInv, Miss PROVE IInv'
<1>1. bells > 0 /\ bells' = bells - 1 /\ UNCHANGED <<link, posts, page, task, crossed>>
  BY DEF Miss
<1>2. Rest /\ Len(posts) \in Nat
  BY IsThere DEF PostsOK
<1>3. Rest'
  BY <1>1, <1>2 DEF Rest
<1> QED
  BY <1>1, <1>3 DEF IInv, PostsOK, Tasks

LEMMA HearStep == ASSUME IInv, Hear PROVE IInv'
<1>1. PICK r : r = IF page.at = None THEN AskList ELSE AskLoad(page.at, page.last, "nothing", TRUE)
  BY Zenon
<1>2. /\ bells > 0 /\ bells' = bells - 1 /\ UNCHANGED <<link, posts, page, crossed>>
      /\ Starts(r, task)
  BY Zenon, <1>1 DEF Hear
<1>3. Rest /\ Len(posts) \in Nat /\ PageOK(page, posts, crossed)
  BY IsThere DEF PostsOK
<1>4. Rest'
  BY <1>2, <1>3 DEF Rest
<1>5. /\ TaskOK(r, posts, page.at, crossed)
      /\ \A why \in {"send", "place"} : ~Awaits(why, r)
  <2>1. CASE page.at = None
    BY <1>1, <2>1, AskListIs
  <2>2. CASE page.at # None
    <3>1. page.at \in Threads /\ page.last \in 0 .. MaxPosts
      BY <2>2, IsThere DEF Thread
    <3>2. /\ TaskOK(r, posts, page.at, crossed)
          /\ \A why \in {"send", "place"} : Awaits(why, r) <=> TRUE /\ "nothing" = why
      BY Zenon, <1>1, <2>2, <3>1, AskLoadIs
    <3> QED
      BY <3>2
  <2> QED
    BY <2>1, <2>2
<1> QED
  BY <1>2, <1>3, <1>4, <1>5, Begins

-----------------------------------------------------------------------------
(* Induction *)

\* The first messages of the links made before.
LEMMA FirstPosts ==
  ASSUME NEW T \in SUBSET Threads
  PROVE  LET ps == SetToSeq({FirstOf(t) : t \in T})
         IN ps \in Seq({FirstOf(t) : t \in T}) /\ Len(ps) <= MaxPosts
<1> DEFINE S == {FirstOf(t) : t \in T}
           first == [t \in T |-> FirstOf(t)]
<1>1. IsFiniteSet(Threads) /\ Cardinality(Threads) <= MaxPosts /\ Cardinality(Threads) \in Nat
  BY ThreadsFit, FS_CardinalityType
<1>2. IsFiniteSet(T) /\ Cardinality(T) <= Cardinality(Threads) /\ Cardinality(T) \in Nat
  BY <1>1, FS_Subset, FS_CardinalityType
<1>3. first \in Surjection(T, S)
  BY DEF Surjection
<1> HIDE DEF S, first
<1>4. IsFiniteSet(S) /\ Cardinality(S) <= Cardinality(T)
  BY <1>2, <1>3, FS_Surjection
<1>5. Cardinality(S) \in Nat /\ ExistsBijection(1 .. Cardinality(S), S)
  BY <1>4, FS_CardinalityType
<1>6. \E f \in [1 .. Cardinality(S) -> S] : IsInjective(f)
  BY <1>5 DEF ExistsBijection, Bijection, Injection
<1>7. SetToSeq(S) \in [1 .. Cardinality(S) -> S]
  BY <1>6 DEF SetToSeq
<1>8. SetToSeq(S) \in Seq(S) /\ Len(SetToSeq(S)) = Cardinality(S)
  <2>1. \A f \in [1 .. Cardinality(S) -> S] : f \in Seq(S) /\ Len(f) = Cardinality(S)
    BY <1>5
  <2> QED
    BY <1>7, <2>1
<1>9. Cardinality(S) <= MaxPosts
  BY <1>1, <1>2, <1>4, <1>5, BoundsAreNumbers
<1> QED
  BY <1>8, <1>9 DEF S

\* IInv holds at the start.
LEMMA InitInv == Init => IInv
<1> SUFFICES ASSUME Init PROVE IInv
  OBVIOUS
<1>1. PICK T \in SUBSET Threads :
        /\ link = [t \in Threads |-> IF t \in T THEN "live" ELSE "none"]
        /\ posts = SetToSeq({FirstOf(t) : t \in T})
  BY Zenon DEF Init
<1>2. posts \in Seq({FirstOf(t) : t \in T}) /\ Len(posts) <= MaxPosts
  BY <1>1, FirstPosts
<1>3. \A p \in {FirstOf(t) : t \in T} : p \in Post /\ p.keys = {p.thread}
  BY DEF FirstOf, Post
<1>4. posts \in Seq(Post) /\ \A i \in DOMAIN posts : posts[i].keys = {posts[i].thread}
  BY <1>2, <1>3
<1>5. PostsOK(posts, crossed)
  BY <1>2, <1>4 DEF PostsOK
<1>6. Rest
  <2>1. Len(posts) \in Nat
    BY <1>4
  <2>2. link \in [Threads -> {"none", "live", "gone"}]
    BY <1>1
  <2>3. bells = 0 /\ crossed = FALSE
    BY DEF Init
  <2>4. bells \in Nat /\ bells <= Len(posts)
    BY <2>1, <2>3
  <2>5. crossed \in BOOLEAN
    BY Zenon, <2>3
  <2> QED
    BY <2>2, <2>4, <2>5 DEF Rest
<1>7. page = OnList /\ page \in List /\ page.at = None
  BY OnListIs DEF Init
<1>8. PageOK(page, posts, crossed)
  BY <1>7 DEF PageOK, OwnPage
<1>9. task = [s \in Slots |-> IF s = 1 THEN AskList ELSE Idle]
  BY DEF Init
<1>10. DOMAIN task = Slots /\ \A s \in Slots : task[s] = AskList \/ task[s] = Idle
  BY <1>9
<1>11. TaskOK(AskList, posts, None, crossed) /\ TaskOK(Idle, posts, None, crossed)
  BY AskListIs, IdleIsOK
<1>12. Tasks
  BY <1>7, <1>10, <1>11 DEF Tasks
<1>13. Counts(page, task)
  <2>1. \A k \in Slots : TaskOK(task[k], posts, page.at, crossed)
    BY <1>12 DEF Tasks
  <2> QED
    BY <1>7, <2>1, NobodyWaits DEF Counts, Unique, Off
<1> QED
  BY <1>5, <1>6, <1>8, <1>12, <1>13 DEF IInv

\* Every step of a task keeps it.
LEMMA AdvanceStep == ASSUME IInv, NEW s \in Slots, Advance(s) PROVE IInv'
<1>1. CASE LoadServed(s) \/ LoadFails(s) \/ LoadOpens(s) \/ LoadShows(s)
  BY <1>1, LoadServedStep, LoadFailsStep, LoadOpensStep, LoadShowsStep
<1>2. CASE FileSealed(s) \/ Located(s) \/ NotLocated(s)
  BY <1>2, FileSealedStep, LocatedStep, NotLocatedStep
<1>3. CASE Stored(s) \/ Follow(s) \/ WriteFails(s)
  BY <1>3, StoredStep, FollowStep, WriteFailsStep
<1>4. CASE ListServed(s) \/ ListArrives(s) \/ \E t \in Threads : CreateServed(s, t)
  BY <1>4, ListServedStep, ListArrivesStep, CreateServedStep
<1>5. CASE CreateDone(s) \/ CreateFails(s)
  BY <1>5, CreateEndsStep DEF CreateDone, CreateFails
<1>6. CASE RevokeServed(s) \/ RevokeEnds(s)
  BY <1>6, RevokeServedStep, RevokeEndsStep
<1> QED
  BY <1>1, <1>2, <1>3, <1>4, <1>5, <1>6 DEF Advance

\* So does every step.
LEMMA StepInv == IInv /\ [Next]_vars => IInv'
<1> SUFFICES ASSUME IInv, [Next]_vars PROVE IInv'
  OBVIOUS
<1>1. CASE \E t \in Threads : Open(t) \/ Jump(t) \/ Swept(t) \/ GuestReplies(t)
  BY <1>1, OpenStep, JumpStep, SweptStep, GuestRepliesStep
<1>2. CASE Revoke \/ \E t \in Threads : RevokeRow(t)
  BY <1>2, DeleteStep
<1>3. CASE Leave \/ Send \/ PickImage \/ PickFile \/ ShareLocation
  BY <1>3, LeaveStep, SendStep, PickStep, ShareLocationStep
<1>4. CASE OpenSheet \/ CloseSheet \/ Create \/ Hear \/ Miss
  BY <1>4, OpenSheetStep, CloseSheetStep, CreateStep, HearStep, MissStep
<1>5. CASE \E s \in Slots : Advance(s)
  BY <1>5, AdvanceStep
<1>6. CASE UNCHANGED vars
  BY <1>6 DEF vars, IInv, Rest, PostsOK, PageOK, Tasks
<1> QED
  BY <1>1, <1>2, <1>3, <1>4, <1>5, <1>6 DEF Next

\* IInv always holds.
LEMMA Invariance == Spec => []IInv
BY InitInv, StepInv, PTL DEF Spec

\* Every state of Links has its types, and the send button or that of the place is off
\* just while one task that will turn it on again is under way and heard: it
\* never stays off, nor comes on early (the finally blocks of SecretLinkThread.tsx).
THEOREM TypeCorrect == Spec => []TypeOK
<1>1. IInv => TypeOK
  <2> SUFFICES ASSUME IInv PROVE TypeOK
    OBVIOUS
  <2>1. /\ Rest /\ PostsOK(posts, crossed) /\ PageOK(page, posts, crossed) /\ Counts(page, task)
        /\ DOMAIN task = Slots /\ \A s \in Slots : TaskOK(task[s], posts, page.at, crossed)
    BY IsThere
  <2>2. bells \in 0 .. MaxPosts
    BY <2>1, BoundsAreNumbers DEF Rest, PostsOK
  <2>3. ASSUME NEW why \in {"send", "place"}
        PROVE  Cardinality({s \in Slots : Awaits(why, task[s])})
                 = IF Off(why, page) THEN 1 ELSE 0
    <3>1. Unique(Waiting(why, task), Off(why, page))
      BY <2>1 DEF Counts
    <3>2. Cardinality(Waiting(why, task)) = IF Off(why, page) THEN 1 ELSE 0
      BY Zenon, <3>1, FS_EmptySet, FS_Singleton DEF Unique
    <3> QED
      BY <3>2 DEF Waiting
  <2>4. ASSUME NEW why \in {"send", "place"}
        PROVE  Cardinality({s \in Slots : Awaits(why, task[s])})
                 = IF /\ page.at # None
                      /\ (why = "send" /\ page.sending) \/ (why = "place" /\ page.locating)
                   THEN 1 ELSE 0
    BY Zenon, <2>3 DEF Off
  <2>5. \A s \in Slots : Fits(task[s])
    BY <2>1 DEF TaskOK
  <2> QED
    BY <2>1, <2>2, <2>4, <2>5 DEF TypeOK, Rest, PostsOK, PageOK
<1> QED
  BY <1>1, Invariance, PTL

\* Unless a page went from one thread to another with something under way, whatever is
\* sealed for a thread is sealed with its key, the page of a thread holds its key or
\* none, and shows only posts of the thread, opened with that key (load, send and the
\* cleanup of SecretLinkThread.tsx).
THEOREM OwnersKeys == Spec => []KeysMatch
<1>1. IInv => KeysMatch
  BY DEF IInv, PostsOK, PageOK, OwnPage, KeysMatch
<1> QED
  BY <1>1, Invariance, PTL
-----------------------------------------------------------------------------
(***************************************************************************)
(* GuestThread, for any messages, loads and durations: its types, that     *)
(* nothing is read or written through a link whose time is over, and that  *)
(* an opened link outlives its window.                                     *)
(*                                                                         *)
(* The argument: several first requests may write the end of the window,   *)
(* each from its own time, and the last one wins; but each of them read    *)
(* the row before the first of them committed, so no end that is ever      *)
(* written is more than Burn after that commit.  A message is put in the   *)
(* order once; so an answer has each once, and what is merged is new.      *)
(***************************************************************************)

\* The end that is written, for each kind of link.
EndIsBounded ==
  /\ kind = "burn" => (expires = 0 <=> armed = 0) /\ expires <= armed + Burn
  /\ kind = "timed" => expires = 1 + Lifetime
  /\ kind = "kept" => expires = 0

\* A request about to begin the window took its time before anybody had.
BeforeArming(now) ==
  /\ kind = "burn"
  /\ now <= clock
  /\ armed # 0 => now <= armed

RacersCameFirst ==
  /\ \A l \in Loads : load[l].pc = "arming" => BeforeArming(load[l].now)
  /\ \A m \in Messages : msg[m].pc = "arming" => m \in FromGuest /\ BeforeArming(msg[m].now)

SweepLooksBack == sweep <= clock

GuestInv ==
  /\ ServerTypeOK
  /\ EndIsBounded
  /\ RacersCameFirst
  /\ SweepLooksBack
  /\ WindowHolds

USE ThreadAssumption DEF Times, guestPage, row

\* A request that moves on keeps its time.
LEMMA MovesOn ==
  ASSUME NEW P, NEW r \in [pc : P, now : Times], NEW p
  PROVE  [r EXCEPT !.pc = p] = [pc |-> p, now |-> r.now]
OBVIOUS

\* The initial states satisfy the invariant.
LEMMA GuestInitInv == GuestInit => GuestInv
<1> SUFFICES ASSUME GuestInit PROVE GuestInv
  OBVIOUS
<1>1. ServerTypeOK
  <2>1. <<First>> \in Seq(Messages)
    OBVIOUS
  <2>2. expires \in Nat /\ kind \in {"burn", "timed", "kept"}
    BY DEF GuestInit
  <2> QED
    BY <2>1, <2>2 DEF GuestInit, ServerTypeOK, NoLoad
<1>2. EndIsBounded
  BY DEF GuestInit, EndIsBounded
<1>3. RacersCameFirst /\ SweepLooksBack
  BY DEF GuestInit, RacersCameFirst, SweepLooksBack, NoLoad
<1>4. WindowHolds
  BY DEF GuestInit, WindowHolds, NoLoad
<1> QED
  BY <1>1, <1>2, <1>3, <1>4 DEF GuestInv

\* The commit that begins the window, for a request that came before.
LEMMA ArmStep ==
  ASSUME GuestInv, NEW now \in Times, BeforeArming(now), Arm(now), clock' = clock
  PROVE  /\ thread' = thread /\ kind' = kind
         /\ expires' \in Nat /\ armed' \in Times
         /\ EndIsBounded'
         /\ InTime(now)'
         /\ \A t \in Times : BeforeArming(t) => BeforeArming(t)'
         /\ \A t \in Times : InTime(t) => InTime(t)'
<1>1. clock \in Nat /\ clock # 0 /\ armed \in Nat /\ expires \in Nat /\ now \in Nat
  BY DEF GuestInv, ServerTypeOK
<1>2. kind = "burn" /\ now <= clock /\ (armed # 0 => now <= armed)
  BY DEF BeforeArming
<1>3. /\ kind' = kind /\ thread' = thread
      /\ expires' = now + Burn
      /\ armed' = IF armed = 0 THEN clock ELSE armed
  BY DEF Arm
<1>4. armed' # 0 /\ armed' \in Times /\ now <= armed'
  BY <1>1, <1>2, <1>3 DEF GuestInv, ServerTypeOK
<1>5. EndIsBounded'
  BY <1>1, <1>2, <1>3, <1>4 DEF EndIsBounded
<1>6. InTime(now)'
  BY <1>1, <1>2, <1>3, <1>4 DEF InTime
<1>7. \A t \in Times : BeforeArming(t) => BeforeArming(t)'
  BY <1>1, <1>2, <1>3 DEF BeforeArming
<1>8. \A t \in Times : InTime(t) => InTime(t)'
  BY <1>1, <1>2, <1>3 DEF InTime
<1> QED
  BY <1>1, <1>3, <1>4, <1>5, <1>6, <1>7, <1>8

\* What a request that passes _active_thread has found.
LEMMA EnterStep ==
  ASSUME GuestInv, Unarmed \/ InWindow
  PROVE  /\ Entered = "arming" => BeforeArming(clock)
         /\ Entered = "active" => InTime(clock)
<1>1. clock \in Nat /\ armed \in Nat /\ expires \in Nat /\ kind \in {"burn", "timed", "kept"}
  BY DEF GuestInv, ServerTypeOK
<1>2. CASE Unarmed
  BY <1>1, <1>2 DEF Unarmed, Entered, GuestInv, EndIsBounded, BeforeArming
<1>3. CASE ~Unarmed
  <2>1. InWindow /\ Entered = "active"
    BY <1>3 DEF Entered
  <2>2. InTime(clock)
    BY <1>1, <2>1 DEF InWindow, Unarmed, GuestInv, EndIsBounded, InTime
  <2> QED
    BY <2>1, <2>2
<1> QED
  BY <1>2, <1>3

\* The invariant's parts that only look at the times and the link's row.
RowKept == UNCHANGED <<clock, row>>

LEMMA RowStep ==
  ASSUME GuestInv, RowKept
  PROVE  /\ EndIsBounded'
         /\ \A t \in Times : BeforeArming(t) => BeforeArming(t)'
         /\ \A t \in Times : InTime(t) => InTime(t)'
<1>1. clock' = clock /\ kind' = kind /\ expires' = expires /\ armed' = armed
  BY DEF RowKept
<1>2. EndIsBounded'
  BY <1>1 DEF GuestInv, EndIsBounded
<1> QED
  BY <1>1, <1>2 DEF BeforeArming, InTime

\* A step that moves one load, to a state that the times allow.
LEMMA OneLoadMoves ==
  ASSUME GuestInv, NEW l \in Loads,
         NEW pc \in {"idle", "asked", "arming", "active", "answered"}, NEW now \in Times,
         load' = [load EXCEPT ![l] = [pc |-> pc, now |-> now]],
         UNCHANGED <<clock, thread, order, msg, sweep>>,
         kind' = kind, expires' \in Nat, armed' \in Times, EndIsBounded',
         \A t \in Times : BeforeArming(t) => BeforeArming(t)',
         \A t \in Times : InTime(t) => InTime(t)',
         pc = "arming" => BeforeArming(now)',
         pc \in {"active", "answered"} => InTime(now)'
  PROVE  GuestInv'
<1>1. ServerTypeOK /\ RacersCameFirst /\ WindowHolds /\ SweepLooksBack
  BY DEF GuestInv
<1>2. ServerTypeOK'
  <2>1. load' \in [Loads -> [pc : {"idle", "asked", "arming", "active", "answered"}, now : Times]]
    BY <1>1 DEF ServerTypeOK
  <2> QED
    BY <1>1, <2>1 DEF ServerTypeOK
<1>3. \A k \in Loads : load'[k] = IF k = l THEN [pc |-> pc, now |-> now] ELSE load[k]
  BY <1>1 DEF ServerTypeOK
<1>4. \A k \in Loads : load[k].now \in Times
  BY <1>1 DEF ServerTypeOK
<1>5. \A m \in Messages : msg[m].now \in Times
  BY <1>1 DEF ServerTypeOK
<1>6. RacersCameFirst'
  BY <1>1, <1>3, <1>4, <1>5 DEF RacersCameFirst
<1>7. WindowHolds'
  BY <1>1, <1>3, <1>4, <1>5 DEF WindowHolds
<1>8. SweepLooksBack'
  BY <1>1 DEF SweepLooksBack
<1> QED
  BY <1>2, <1>6, <1>7, <1>8 DEF GuestInv

\* The loads of the guest's page.
LEMMA LoadStep ==
  ASSUME GuestInv, NEW l \in Loads,
         GuestAsks(l) \/ EnterLoad(l) \/ ArmLoad(l) \/ AnswerLoad(l) \/ ApplyLoad(l) \/ FailLoad(l)
  PROVE  GuestInv'
<1>1. /\ load[l] \in [pc : {"idle", "asked", "arming", "active", "answered"}, now : Times]
      /\ load[l].pc \in {"idle", "asked", "arming", "active", "answered"}
      /\ load[l].now \in Times /\ load[l] = [pc |-> load[l].pc, now |-> load[l].now]
      /\ clock \in Times /\ 0 \in Times
      /\ load \in [Loads -> [pc : {"idle", "asked", "arming", "active", "answered"}, now : Times]]
      /\ expires \in Nat /\ armed \in Times
  BY DEF GuestInv, ServerTypeOK
<1>2. PICK pc \in {"idle", "asked", "arming", "active", "answered"}, now \in Times :
        pc = load[l].pc /\ now = load[l].now
  BY <1>1
<1>3. CASE GuestAsks(l)
  <2>1. load' = [load EXCEPT ![l] = [pc |-> "asked", now |-> now]]
    BY Zenon, <1>1, <1>2, <1>3, MovesOn DEF GuestAsks
  <2>2. RowKept /\ UNCHANGED <<clock, thread, order, msg, sweep, kind, expires, armed>>
    BY <1>3 DEF GuestAsks, RowKept
  <2> QED
    BY Zenon, <1>1, <2>1, <2>2, RowStep, OneLoadMoves
<1>4. CASE ApplyLoad(l) \/ FailLoad(l)
  <2>1. load' = [load EXCEPT ![l] = [pc |-> "idle", now |-> 0]]
    BY <1>4 DEF ApplyLoad, FailLoad, Forget, NoLoad
  <2>2. RowKept /\ UNCHANGED <<clock, thread, order, msg, sweep, kind, expires, armed>>
    BY <1>4 DEF ApplyLoad, FailLoad, RowKept
  <2> QED
    BY Zenon, <1>1, <2>1, <2>2, RowStep, OneLoadMoves
<1>5. CASE EnterLoad(l)
  <2>1. load' = [load EXCEPT ![l] = [pc |-> Entered, now |-> clock]] /\ (Unarmed \/ InWindow)
    BY <1>5 DEF EnterLoad
  <2>2. RowKept /\ UNCHANGED <<clock, thread, order, msg, sweep, kind, expires, armed>>
    BY <1>5 DEF EnterLoad, RowKept
  <2>3. Entered \in {"arming", "active"}
    BY DEF Entered
  <2>4. /\ Entered = "arming" => BeforeArming(clock)
        /\ Entered = "active" => InTime(clock)
    BY <2>1, EnterStep
  <2>5. PICK p \in {"arming", "active"}, t \in Times : p = Entered /\ t = clock
    BY <1>1, <2>3
  <2>6. load' = [load EXCEPT ![l] = [pc |-> p, now |-> t]]
    BY <2>1, <2>5
  <2>7. (p = "arming" => BeforeArming(t)') /\ (p = "active" => InTime(t)')
    BY <2>2, <2>4, <2>5, RowStep
  <2> QED
    BY Zenon, <1>1, <2>2, <2>6, <2>7, RowStep, OneLoadMoves
<1>6. CASE ArmLoad(l)
  <2>1. load' = [load EXCEPT ![l] = [pc |-> "active", now |-> now]]
    BY Zenon, <1>1, <1>2, <1>6, MovesOn DEF ArmLoad
  <2>2. Arm(now) /\ BeforeArming(now)
    BY <1>2, <1>6 DEF ArmLoad, GuestInv, RacersCameFirst
  <2>3. UNCHANGED <<clock, order, msg, sweep>>
    BY <1>6 DEF ArmLoad
  <2> QED
    BY Zenon, <2>1, <2>2, <2>3, ArmStep, OneLoadMoves
<1>7. CASE AnswerLoad(l)
  <2>1. load' = [load EXCEPT ![l] = [pc |-> "answered", now |-> now]]
    BY Zenon, <1>1, <1>2, <1>7, MovesOn DEF AnswerLoad
  <2>2. RowKept /\ UNCHANGED <<clock, thread, order, msg, sweep, kind, expires, armed>>
    BY <1>7 DEF AnswerLoad, RowKept
  <2>3. InTime(now)'
    BY <1>2, <1>7, <2>2, RowStep DEF AnswerLoad, GuestInv, WindowHolds
  <2> QED
    BY Zenon, <1>1, <2>1, <2>2, <2>3, RowStep, OneLoadMoves
<1> QED
  BY <1>3, <1>4, <1>5, <1>6, <1>7

\* A step that moves one reply, to a state that the times allow.
LEMMA OneReplyMoves ==
  ASSUME GuestInv, NEW m \in Messages,
         NEW pc \in {"none", "arming", "active", "sent", "failed"}, NEW now \in Times,
         msg' = [msg EXCEPT ![m] = [pc |-> pc, now |-> now]],
         order' = order \/ order' = Append(order, m),
         UNCHANGED <<clock, thread, load, sweep>>,
         kind' = kind, expires' \in Nat, armed' \in Times, EndIsBounded',
         \A t \in Times : BeforeArming(t) => BeforeArming(t)',
         \A t \in Times : InTime(t) => InTime(t)',
         pc = "arming" => m \in FromGuest /\ BeforeArming(now)',
         m \in FromGuest /\ pc \in {"active", "sent"} => InTime(now)'
  PROVE  GuestInv'
<1>1. ServerTypeOK /\ RacersCameFirst /\ WindowHolds /\ SweepLooksBack
  BY DEF GuestInv
<1>2. ServerTypeOK'
  <2>1. msg' \in [Messages -> [pc : {"none", "arming", "active", "sent", "failed"}, now : Times]]
    BY <1>1 DEF ServerTypeOK
  <2>2. order \in Seq(Messages) /\ Append(order, m) \in Seq(Messages)
    BY <1>1 DEF ServerTypeOK
  <2>3. order' \in Seq(Messages)
    BY <2>2
  <2> QED
    BY <1>1, <2>1, <2>3 DEF ServerTypeOK
<1>3. \A n \in Messages : msg'[n] = IF n = m THEN [pc |-> pc, now |-> now] ELSE msg[n]
  BY <1>1 DEF ServerTypeOK
<1>4. \A k \in Loads : load[k].now \in Times
  BY <1>1 DEF ServerTypeOK
<1>5. \A n \in Messages : msg[n].now \in Times
  BY <1>1 DEF ServerTypeOK
<1>6. RacersCameFirst'
  BY <1>1, <1>3, <1>4, <1>5 DEF RacersCameFirst
<1>7. WindowHolds'
  <2>1. (\A k \in Loads : load[k].pc \in {"active", "answered"} => InTime(load[k].now))'
    BY <1>1, <1>4 DEF WindowHolds
  <2>2. ASSUME NEW n \in FromGuest, msg[n].pc' \in {"active", "sent"}
        PROVE  InTime(msg[n].now)'
    <3>1. n \in Messages
      OBVIOUS
    <3>2. CASE n = m
      BY <1>3, <2>2, <3>1, <3>2
    <3>3. CASE n # m
      BY <1>1, <1>3, <1>5, <2>2, <3>1, <3>3 DEF WindowHolds
    <3> QED
      BY <3>2, <3>3
  <2> QED
    BY <2>1, <2>2 DEF WindowHolds
<1>8. SweepLooksBack'
  BY <1>1 DEF SweepLooksBack
<1> QED
  BY <1>2, <1>6, <1>7, <1>8 DEF GuestInv

\* Replies, the guest's and the host's.
LEMMA ReplyStep ==
  ASSUME GuestInv, NEW m \in Messages, StartReply(m) \/ ArmReply(m) \/ CommitReply(m) \/ FailReply(m)
  PROVE  GuestInv'
<1>1. /\ msg[m] \in [pc : {"none", "arming", "active", "sent", "failed"}, now : Times]
      /\ msg[m] = [pc |-> msg[m].pc, now |-> msg[m].now] /\ msg[m].now \in Times
      /\ msg \in [Messages -> [pc : {"none", "arming", "active", "sent", "failed"}, now : Times]]
      /\ clock \in Times /\ expires \in Nat /\ armed \in Times
  BY DEF GuestInv, ServerTypeOK
<1>2. PICK now \in Times : now = msg[m].now
  BY <1>1
<1>3. CASE StartReply(m)
  <2>1. PICK p \in {"arming", "active"} : p = IF m \in FromGuest THEN Entered ELSE "active"
    BY DEF Entered
  <2>2. PICK t \in Times : t = clock
    BY <1>1
  <2>3. msg' = [msg EXCEPT ![m] = [pc |-> p, now |-> t]]
    BY <1>3, <2>1, <2>2 DEF StartReply
  <2>4. order' = order \/ order' = Append(order, m)
    BY <1>3 DEF StartReply
  <2>5. RowKept /\ UNCHANGED <<clock, thread, load, sweep, kind, expires, armed>>
    BY <1>3 DEF StartReply, RowKept
  <2>6. (p = "arming" => m \in FromGuest /\ BeforeArming(t)') /\ (m \in FromGuest /\ p = "active" => InTime(t)')
    <3>1. CASE m \in FromGuest
      BY <1>3, <2>1, <2>2, <2>5, <3>1, EnterStep, RowStep DEF StartReply
    <3> QED
      BY <2>1, <3>1
  <2> QED
    BY Zenon, <1>1, <2>3, <2>4, <2>5, <2>6, RowStep, OneReplyMoves
<1>4. CASE ArmReply(m)
  <2>1. msg' = [msg EXCEPT ![m] = [pc |-> "active", now |-> now]]
    BY ZenonT(120), <1>1, <1>2, <1>4, MovesOn DEF ArmReply
  <2>2. Arm(now) /\ BeforeArming(now)
    BY <1>2, <1>4 DEF ArmReply, GuestInv, RacersCameFirst
  <2>3. UNCHANGED <<clock, order, load, sweep>>
    BY <1>4 DEF ArmReply
  <2> QED
    BY Zenon, <2>1, <2>2, <2>3, ArmStep, OneReplyMoves
<1>5. CASE CommitReply(m)
  <2>1. msg' = [msg EXCEPT ![m] = [pc |-> "sent", now |-> now]]
    BY ZenonT(120), <1>1, <1>2, <1>5, MovesOn DEF CommitReply
  <2>2. RowKept /\ UNCHANGED <<clock, thread, load, sweep, kind, expires, armed>>
    BY <1>5 DEF CommitReply, RowKept
  <2>3. order' = order \/ order' = Append(order, m)
    BY <1>5 DEF CommitReply
  <2>4. m \in FromGuest => InTime(now)'
    BY <1>2, <1>5, <2>2, RowStep DEF CommitReply, GuestInv, WindowHolds
  <2> QED
    BY Zenon, <1>1, <2>1, <2>2, <2>3, <2>4, RowStep, OneReplyMoves
<1>6. CASE FailReply(m)
  <2>1. msg' = [msg EXCEPT ![m] = [pc |-> "failed", now |-> now]]
    BY Zenon, <1>1, <1>2, <1>6, MovesOn DEF FailReply
  <2>2. RowKept /\ UNCHANGED <<clock, thread, order, load, sweep, kind, expires, armed>>
    BY <1>6 DEF FailReply, RowKept
  <2> QED
    BY Zenon, <1>1, <2>1, <2>2, RowStep, OneReplyMoves
<1> QED
  BY <1>3, <1>4, <1>5, <1>6

\* The end of a link, the sweep and the clock.
LEMMA EndStep ==
  ASSUME GuestInv, RevokeThread \/ SweepBegin \/ SweepDelete \/ SweepFails \/ Tick
  PROVE  GuestInv'
<1>1. /\ clock' \in Times \ {0} /\ clock' >= clock
      /\ UNCHANGED <<kind, expires, armed, order, msg, load>>
      /\ thread' \in {"live", "revoked", "swept"}
      /\ sweep' \in Times /\ sweep' <= clock'
  BY DEF GuestInv, ServerTypeOK, SweepLooksBack, RevokeThread, SweepBegin, SweepDelete,
         SweepFails, Tick
<1>2. ServerTypeOK'
  BY <1>1 DEF GuestInv, ServerTypeOK
<1>3. EndIsBounded'
  BY <1>1 DEF GuestInv, EndIsBounded
<1>4. RacersCameFirst'
  <2>1. \A t \in Times : BeforeArming(t) => BeforeArming(t)'
    BY <1>1 DEF BeforeArming, GuestInv, ServerTypeOK
  <2> QED
    BY <1>1, <2>1 DEF GuestInv, RacersCameFirst, ServerTypeOK
<1>5. WindowHolds' /\ SweepLooksBack'
  BY <1>1 DEF GuestInv, WindowHolds, InTime, SweepLooksBack
<1> QED
  BY <1>2, <1>3, <1>4, <1>5 DEF GuestInv

\* Every step keeps the invariant.
LEMMA GuestStepInv == GuestInv /\ [GuestNext]_guestVars => GuestInv'
<1> SUFFICES ASSUME GuestInv, [GuestNext]_guestVars PROVE GuestInv'
  OBVIOUS
<1>1. CASE \E l \in Loads : \/ GuestAsks(l) \/ EnterLoad(l) \/ ArmLoad(l)
                           \/ AnswerLoad(l) \/ ApplyLoad(l) \/ FailLoad(l)
  BY <1>1, LoadStep
<1>2. CASE \E m \in Messages : StartReply(m) \/ ArmReply(m) \/ CommitReply(m) \/ FailReply(m)
  BY <1>2, ReplyStep
<1>3. CASE RevokeThread \/ SweepBegin \/ SweepDelete \/ SweepFails \/ Tick
  BY <1>3, EndStep
<1>4. CASE UNCHANGED guestVars
  BY <1>4 DEF guestVars, GuestInv, ServerTypeOK, EndIsBounded, RacersCameFirst, BeforeArming,
              SweepLooksBack, WindowHolds, InTime
<1> QED
  BY <1>1, <1>2, <1>3, <1>4 DEF GuestNext

LEMMA GuestInvariance == GuestSpec => []GuestInv
<1> QED
  BY GuestInitInv, GuestStepInv, PTL DEF GuestSpec

-----------------------------------------------------------------------------
(* Subsequences *)


-----------------------------------------------------------------------------
(* The guest's page *)

Once(s) == \A i, j \in DOMAIN s : s[i] = s[j] => i = j
Ordered(m) == \E i \in DOMAIN order : order[i] = m

\* A message is put in the order once; what the page was given is there, and
\* what it shows it shows once.
OrderedOnce ==
  /\ Once(order)
  /\ \A m \in Messages : msg[m].pc \in {"none", "arming"} => ~Ordered(m)
Given(s) == s \in Seq(Messages) /\ Once(s) /\ \A i \in DOMAIN s : Ordered(s[i])

PageHolds ==
  /\ after \in [Loads -> Messages \cup {NoMessage}]
  /\ got \in [Loads -> Seq(Messages)]
  /\ \A l \in Loads : Given(got[l])
  /\ list \in Seq(Messages) /\ Once(list)
  /\ last \in Messages \cup {NoMessage}
  /\ last # NoMessage => Ordered(last)

PageInv == OrderedOnce /\ PageHolds

LEMMA PageInit == GuestInit => PageInv
<1> SUFFICES ASSUME GuestInit PROVE PageInv
  OBVIOUS
<1>1. Once(order) /\ \A m \in Messages : Ordered(m) => m = First
  BY DEF GuestInit, Once, Ordered
<1>2. OrderedOnce
  BY <1>1 DEF GuestInit, OrderedOnce
<1>3. <<>> \in Seq(Messages) /\ Once(<<>>)
  BY DEF Once
<1>4. PageHolds
  BY <1>3 DEF GuestInit, PageHolds, Given
<1> QED
  BY <1>2, <1>4 DEF PageInv

\* What is in the order stays there.
LEMMA OrderGrows ==
  ASSUME ServerTypeOK, NEW m \in Messages, order' = order \/ order' = Append(order, m)
  PROVE  /\ \A n : Ordered(n) => Ordered(n)'
         /\ \A s : Given(s) => Given(s)'
<1>1. order \in Seq(Messages)
  BY DEF ServerTypeOK
<1>2. \A i \in DOMAIN order : i \in DOMAIN order' /\ order'[i] = order[i]
  BY <1>1
<1>3. \A n : Ordered(n) => Ordered(n)'
  BY <1>2 DEF Ordered
<1> QED
  BY <1>3 DEF Given

\* A message is put in the order by its first insert.
LEMMA PutInOrder ==
  ASSUME ServerTypeOK, NEW m \in Messages, Once(order), ~Ordered(m), order' = Append(order, m)
  PROVE  Once(order') /\ \A n \in Messages : Ordered(n)' => n = m \/ Ordered(n)
<1>1. /\ DOMAIN order' = 1 .. (Len(order) + 1) /\ DOMAIN order = 1 .. Len(order)
      /\ Len(order) \in Nat
      /\ \A i \in 1 .. Len(order) : order'[i] = order[i]
      /\ order'[Len(order) + 1] = m
  BY DEF ServerTypeOK
<1>2. \A i \in DOMAIN order' : i \in DOMAIN order \/ i = Len(order) + 1
  BY <1>1
<1>3. Once(order')
  BY <1>1, <1>2 DEF Once, Ordered
<1> QED
  BY <1>1, <1>2, <1>3 DEF Ordered

\* A step of the server that the page does not see.
LEMMA PageRests ==
  ASSUME ServerTypeOK, PageHolds, NEW m \in Messages,
         order' = order \/ order' = Append(order, m),
         UNCHANGED guestPage
  PROVE  PageHolds'
BY OrderGrows DEF PageHolds

\* The answer to a load has messages of the order, each once.
LEMMA AnswerIsGiven ==
  ASSUME ServerTypeOK, OrderedOnce, NEW m
  PROVE  Given(PageAfter(m))
<1> DEFINE S == {i \in DOMAIN order : order[i] \in Sent /\ (m = NoMessage \/ i > Position(m))}
<1>1. order \in Seq(Messages) /\ S \in SUBSET DOMAIN order
  BY DEF ServerTypeOK
<1>2. PageAfter(m) = At(order, S)
  BY DEF PageAfter
<1> HIDE DEF S
<1>3. /\ At(order, S) \in Seq(Messages)
      /\ \A k \in DOMAIN At(order, S) : Nth(S, k) \in S /\ At(order, S)[k] = order[Nth(S, k)]
      /\ \A k, l \in DOMAIN At(order, S) : Nth(S, k) = Nth(S, l) => k = l
  BY <1>1, TakenFrom
<1>4. Once(At(order, S)) /\ \A k \in DOMAIN At(order, S) : Ordered(At(order, S)[k])
  BY <1>1, <1>3 DEF Once, OrderedOnce, Ordered
<1> QED
  BY <1>2, <1>3, <1>4 DEF Given

\* What is merged into the list is not there yet.
LEMMA MergeIsOnce ==
  ASSUME NEW p \in Seq(Messages), Once(p), NEW s \in Seq(Messages), Once(s)
  PROVE  mergeDecoded(p, s) \in Seq(Messages) /\ Once(mergeDecoded(p, s))
<1> DEFINE S == {k \in DOMAIN s : \A i \in DOMAIN p : p[i] # s[k]}
           t == At(s, S)
<1>1. S \in SUBSET DOMAIN s
  OBVIOUS
<1>2. /\ t \in Seq(Messages)
      /\ \A k \in DOMAIN t : Nth(S, k) \in S /\ t[k] = s[Nth(S, k)]
      /\ \A k, l \in DOMAIN t : Nth(S, k) = Nth(S, l) => k = l
  BY ZenonT(120), <1>1, TakenFrom
<1>3. mergeDecoded(p, s) = p \o t
  BY DEF mergeDecoded
<1>4. Once(t) /\ \A k \in DOMAIN t : \A i \in DOMAIN p : p[i] # t[k]
  BY Zenon, <1>1, <1>2 DEF Once
<1> HIDE DEF t
<1>5. /\ p \o t \in Seq(Messages)
      /\ DOMAIN (p \o t) = 1 .. (Len(p) + Len(t)) /\ Len(p) \in Nat /\ Len(t) \in Nat
      /\ DOMAIN p = 1 .. Len(p) /\ DOMAIN t = 1 .. Len(t)
      /\ \A i \in 1 .. (Len(p) + Len(t)) :
           (p \o t)[i] = IF i <= Len(p) THEN p[i] ELSE t[i - Len(p)]
  BY <1>2
<1>6. Once(p \o t)
  <2> SUFFICES ASSUME NEW i \in 1 .. (Len(p) + Len(t)), NEW j \in 1 .. (Len(p) + Len(t)),
                      (p \o t)[i] = (p \o t)[j]
               PROVE  i = j
    BY Zenon, <1>5 DEF Once
  <2>1. /\ i <= Len(p) => i \in DOMAIN p /\ (p \o t)[i] = p[i]
        /\ ~(i <= Len(p)) => i - Len(p) \in DOMAIN t /\ (p \o t)[i] = t[i - Len(p)]
    BY <1>5
  <2>2. /\ j <= Len(p) => j \in DOMAIN p /\ (p \o t)[j] = p[j]
        /\ ~(j <= Len(p)) => j - Len(p) \in DOMAIN t /\ (p \o t)[j] = t[j - Len(p)]
    BY <1>5
  <2>3. CASE i <= Len(p) /\ j <= Len(p)
    BY <2>1, <2>2, <2>3 DEF Once
  <2>4. CASE ~(i <= Len(p)) /\ ~(j <= Len(p))
    <3>1. i - Len(p) = j - Len(p)
      BY <1>4, <2>1, <2>2, <2>4 DEF Once
    <3> QED
      BY <1>5, <3>1
  <2>5. CASE ~(i <= Len(p) <=> j <= Len(p))
    BY <1>4, <2>1, <2>2, <2>5
  <2> QED
    BY <2>3, <2>4, <2>5
<1> QED
  BY <1>3, <1>5, <1>6

LEMMA PageLoadStep ==
  ASSUME ServerTypeOK, PageInv, NEW l \in Loads,
         GuestAsks(l) \/ EnterLoad(l) \/ ArmLoad(l) \/ AnswerLoad(l) \/ ApplyLoad(l) \/ FailLoad(l)
  PROVE  PageInv'
<1>1. UNCHANGED <<order, msg>>
  BY DEF GuestAsks, EnterLoad, ArmLoad, AnswerLoad, ApplyLoad, FailLoad, Arm
<1>2. OrderedOnce' /\ (\A m : Ordered(m)' <=> Ordered(m)) /\ (\A s : Given(s)' <=> Given(s))
  BY <1>1 DEF PageInv, OrderedOnce, Ordered, Given
<1>3. PageHolds
  BY DEF PageInv
<1>4. <<>> \in Seq(Messages) /\ Given(<<>>)
  BY DEF Given, Once
<1>5. CASE GuestAsks(l)
  BY <1>2, <1>3, <1>5 DEF PageHolds, GuestAsks, PageInv
<1>6. CASE EnterLoad(l) \/ ArmLoad(l)
  BY <1>2, <1>3, <1>6 DEF PageHolds, EnterLoad, ArmLoad, PageInv
<1>7. CASE AnswerLoad(l)
  <2> DEFINE a == PageAfter(after[l])
  <2>1. Given(a) /\ a \in Seq(Messages)
    BY AnswerIsGiven DEF PageInv, Given
  <2>2. got' = [got EXCEPT ![l] = a]
    BY <1>7 DEF AnswerLoad
  <2> HIDE DEF a
  <2>3. got' \in [Loads -> Seq(Messages)] /\ \A k \in Loads : Given(got'[k])
    BY <1>3, <2>1, <2>2 DEF PageHolds
  <2> QED
    BY <1>2, <1>3, <1>7, <2>3 DEF PageHolds, AnswerLoad, PageInv
<1>8. ASSUME Forget(l)
      PROVE  /\ after' \in [Loads -> Messages \cup {NoMessage}]
             /\ got' \in [Loads -> Seq(Messages)] /\ \A k \in Loads : Given(got'[k])
  BY <1>3, <1>4, <1>8 DEF PageHolds, Forget
<1>9. CASE FailLoad(l)
  BY <1>2, <1>3, <1>8, <1>9 DEF PageHolds, FailLoad, PageInv
<1>10. CASE ApplyLoad(l)
  <2>1. Given(got[l]) /\ got[l] \in Seq(Messages) /\ list \in Seq(Messages) /\ Once(list)
    BY <1>3 DEF PageHolds
  <2>2. last' \in Messages \cup {NoMessage} /\ (last' # NoMessage => Ordered(last'))
    <3>1. CASE got[l] = <<>>
      BY <1>3, <1>10, <3>1 DEF ApplyLoad, PageHolds
    <3>2. CASE got[l] # <<>>
      <4>1. Len(got[l]) \in DOMAIN got[l] /\ last' = got[l][Len(got[l])]
        BY <1>10, <2>1, <3>2 DEF ApplyLoad
      <4>2. got[l][Len(got[l])] \in Messages
        BY <2>1, <4>1
      <4> QED
        BY <2>1, <4>1, <4>2 DEF Given
    <3> QED
      BY <3>1, <3>2
  <2>3. list' \in Seq(Messages) /\ Once(list')
    BY <1>10, <2>1, MergeIsOnce DEF ApplyLoad, Given
  <2> QED
    BY <1>2, <1>8, <1>10, <2>2, <2>3 DEF PageHolds, ApplyLoad, PageInv
<1> QED
  BY <1>5, <1>6, <1>7, <1>9, <1>10

LEMMA PageReplyStep ==
  ASSUME ServerTypeOK, PageInv, NEW m \in Messages,
         StartReply(m) \/ ArmReply(m) \/ CommitReply(m) \/ FailReply(m)
  PROVE  PageInv'
<1>1. OrderedOnce /\ PageHolds /\ UNCHANGED guestPage
  BY DEF PageInv, StartReply, ArmReply, CommitReply, FailReply, Arm
<1>2. msg \in [Messages -> [pc : {"none", "arming", "active", "sent", "failed"}, now : Times]]
  BY DEF ServerTypeOK
<1>3. /\ \A n \in Messages \ {m} : msg'[n] = msg[n]
      /\ msg'[m].pc \in {"none", "arming"} => order' = order /\ msg[m].pc = "none"
      /\ order' = order \/ (order' = Append(order, m) /\ ~Ordered(m))
  <2>1. CASE StartReply(m)
    <3>1. msg[m].pc = "none" /\ ~Ordered(m)
      BY <1>1, <2>1 DEF StartReply, OrderedOnce
    <3>2. CASE m \in FromGuest /\ Entered = "arming"
      BY <1>2, <2>1, <3>1, <3>2 DEF StartReply
    <3>3. CASE ~(m \in FromGuest /\ Entered = "arming")
      <4>1. (IF m \in FromGuest THEN Entered ELSE "active") = "active"
        BY <3>3 DEF Entered
      <4> QED
        BY <1>2, <2>1, <3>1, <4>1 DEF StartReply
    <3> QED
      BY <3>2, <3>3
  <2>2. CASE ArmReply(m)
    BY <1>2, <2>2 DEF ArmReply
  <2>3. CASE CommitReply(m)
    BY <1>2, <2>3 DEF CommitReply, Ordered
  <2>4. CASE FailReply(m)
    BY <1>2, <2>4 DEF FailReply
  <2> QED
    BY <2>1, <2>2, <2>3, <2>4
<1>4. OrderedOnce'
  <2>1. CASE order' = order
    <3>1. \A n : Ordered(n)' <=> Ordered(n)
      BY <2>1 DEF Ordered
    <3>2. Once(order)'
      BY <1>1, <2>1 DEF OrderedOnce
    <3> QED
      BY <1>1, <1>3, <3>1, <3>2 DEF OrderedOnce
  <2>2. CASE order' = Append(order, m) /\ ~Ordered(m)
    <3>1. Once(order') /\ \A n \in Messages : Ordered(n)' => n = m \/ Ordered(n)
      BY <1>1, <2>2, PutInOrder DEF OrderedOnce
    <3>2. order' # order
      <4>1. Len(order') = Len(order) + 1 /\ Len(order) \in Nat
        BY <2>2 DEF ServerTypeOK
      <4> QED
        BY <4>1
    <3>3. msg'[m].pc \notin {"none", "arming"}
      BY <1>3, <3>2
    <3> QED
      BY <1>1, <1>3, <3>1, <3>3 DEF OrderedOnce
  <2> QED
    BY <1>3, <2>1, <2>2
<1>5. PageHolds'
  BY <1>1, <1>3, PageRests
<1> QED
  BY <1>4, <1>5 DEF PageInv

LEMMA PageStep ==
  ASSUME ServerTypeOK, PageInv, [GuestNext]_guestVars
  PROVE  PageInv'
<1>1. CASE \E l \in Loads : \/ GuestAsks(l) \/ EnterLoad(l) \/ ArmLoad(l)
                           \/ AnswerLoad(l) \/ ApplyLoad(l) \/ FailLoad(l)
  BY <1>1, PageLoadStep
<1>2. CASE \E m \in Messages : StartReply(m) \/ ArmReply(m) \/ CommitReply(m) \/ FailReply(m)
  BY <1>2, PageReplyStep
<1>3. ASSUME UNCHANGED <<order, msg, guestPage>>
      PROVE  PageInv'
  BY <1>3 DEF PageInv, OrderedOnce, PageHolds, Given, Ordered
<1>4. CASE RevokeThread \/ SweepBegin \/ SweepDelete \/ SweepFails \/ Tick
  BY <1>3, <1>4 DEF RevokeThread, SweepBegin, SweepDelete, SweepFails, Tick
<1>5. CASE UNCHANGED guestVars
  BY <1>3, <1>5 DEF guestVars
<1> QED
  BY <1>1, <1>2, <1>4, <1>5 DEF GuestNext

\* Something that has nothing twice is as long as it has elements.
LEMMA OnceCounts ==
  ASSUME NEW s \in Seq(Messages), Once(s)
  PROVE  Cardinality({s[i] : i \in DOMAIN s}) = Len(s)
<1> DEFINE T == {s[i] : i \in DOMAIN s}
<1>1. Len(s) \in Nat /\ DOMAIN s = 1 .. Len(s)
  OBVIOUS
<1>2. IsFiniteSet(1 .. Len(s)) /\ Cardinality(1 .. Len(s)) = Len(s)
  BY <1>1, FS_Interval
<1>3. s \in Surjection(1 .. Len(s), T)
  BY <1>1 DEF Surjection
<1>4. s \in Injection(1 .. Len(s), T)
  BY <1>1, <1>3 DEF Injection, IsInjective, Surjection, Once
<1> QED
  BY <1>2, <1>3, <1>4, FS_Surjection

\* The row, the requests, the order of the messages and the guest's page always
\* have their types: created_at orders a message once, the page's cursor is a
\* message of the thread, and no message is shown twice, however the page's
\* loads overlap (mergeDecoded, GuestView.tsx).
THEOREM GuestTypes == GuestSpec => []GuestTypeOK
<1>1. GuestInv /\ PageInv => GuestTypeOK
  <2> SUFFICES ASSUME GuestInv, PageInv PROVE GuestTypeOK
    OBVIOUS
  <2>1. order \in Seq(Messages) /\ Once(order)
    BY DEF GuestInv, ServerTypeOK, PageInv, OrderedOnce
  <2>2. Cardinality({order[i] : i \in DOMAIN order}) = Len(order)
    BY <2>1, OnceCounts
  <2> QED
    BY <2>2 DEF GuestInv, PageInv, PageHolds, Ordered, Once, GuestTypeOK
<1>2. GuestInv /\ PageInv /\ [GuestNext]_guestVars => PageInv'
  BY PageStep DEF GuestInv
<1> QED
  BY <1>1, <1>2, PageInit, GuestInvariance, PTL DEF GuestSpec

\* The server's half of the types.
THEOREM ServerTypes == GuestSpec => []ServerTypeOK
<1>1. GuestInv => ServerTypeOK
  BY DEF GuestInv
<1> QED
  BY <1>1, GuestInvariance, PTL

\* Whatever the guest is given, or gives, it asked for within the window that the
\* first opening began, however many first requests raced (_active_thread).
THEOREM WindowIsKept == GuestSpec => []WindowHolds
<1>1. GuestInv => WindowHolds
  BY DEF GuestInv
<1> QED
  BY <1>1, GuestInvariance, PTL

\* The sweep leaves an opened link until Grace after its window (sweep_once).
THEOREM OpenedLinksKept == GuestSpec => OpenedLinksStay
<1>1. GuestInv /\ [GuestNext]_guestVars
        => [thread = "live" /\ thread' = "swept" /\ kind = "burn" /\ armed # 0
              => expires + Grace < clock]_guestVars
  <2> SUFFICES ASSUME GuestInv, GuestNext, thread = "live", thread' = "swept", kind = "burn", armed # 0
               PROVE  expires + Grace < clock
    OBVIOUS
  <2>1. SweepDelete
    BY DEF GuestNext, GuestAsks, EnterLoad, ArmLoad, AnswerLoad, ApplyLoad, FailLoad,
           StartReply, ArmReply, CommitReply, FailReply, Arm, RevokeThread, SweepBegin,
           SweepFails, Tick
  <2>2. ThreadExpired(sweep)
    BY <2>1 DEF SweepDelete
  <2>3. expires # 0 /\ sweep <= clock /\ sweep \in Nat /\ clock \in Nat /\ expires \in Nat
    BY DEF GuestInv, ServerTypeOK, EndIsBounded, SweepLooksBack
  <2> QED
    BY <2>2, <2>3 DEF ThreadExpired
<1> QED
  BY <1>1, GuestInvariance, PTL DEF GuestSpec, OpenedLinksStay
=============================================================================
