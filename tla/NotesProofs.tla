---------------------------- MODULE NotesProofs -----------------------------
(***************************************************************************)
(* Theorems about Notes, for any sets of notes, files and editors and any  *)
(* bounds, and about Blobs, where the files of notes and messages are.     *)
(*                                                                         *)
(* Notes.  The argument is about one editor at a time (EditorOK); a step   *)
(* of another leaves what it relies on alone, because that other editor    *)
(* writes only rows it becomes the last writer of (Bystander).  Of the     *)
(* requests of an editor's chain one is under way, and it is for the head  *)
(* of the queue (Placed).  So its answer is the next text in the order of  *)
(* the edits (InOrder), and the files it writes are those now shown unless *)
(* a save is queued behind it that will bring them to the row (Kept).      *)
(*                                                                         *)
(* Blobs.  A steadily held blob is old only once its reference has         *)
(* committed, because no request lasts a day.  So what the collection      *)
(* listed as old is either seen by its later read of the references or was *)
(* not steadily held, and cannot become so, being no longer young.         *)
(***************************************************************************)
EXTENDS Notes, Blobs, TLAPS

\* A leaf is for the SMT solver, which is given time, unless it names another prover.
USE SMTT(60)

\* A save whose text counts for the order of the edits, as Wrote does.
Counts(s) == s.shown /\ s.why # "attach"
Known(n, rows) == n \in NoteIds /\ rows[n].state # "free"
Mine(R, e) == {r \in R : r.ed = e}

\* Types of what belongs to one editor.
Fits(d, q, a, w, rows) ==
  /\ d \in Editor /\ a \in Attach /\ w \in Texts
  /\ q \in Seq(QueuedSave) /\ Len(q) <= MaxChain
  /\ d.note # None => Known(d.note, rows)
  /\ d.at # "mounted" => d.timer = 0

\* Before it is opened an editor has nothing under way.
Unopened(d, q, a, S) ==
  d.at = "new" => d = Blank /\ q = <<>> /\ a.step = "none" /\ S = {}

\* Until its note is shown, nothing an editor writes counts as a save of what is shown.
Unshown(e, d, q, a, w, S, rows) ==
  /\ d.step # "ready" =>
       /\ w = 0 /\ a.step # "create"
       /\ \A n \in NoteIds : rows[n].by # e
       /\ \A r \in S : ~r.shown
       /\ \A i \in 1 .. Len(q) : ~q[i].shown
  /\ d.step = "keyed" => d.note # None

\* A request is the step of addAttachment it is for, or the head of the chain, once.
Placed(d, q, a, S, rows) ==
  /\ \A r \in S :
       /\ r.kind # "create" \/ r.state = "done" => Known(r.note, rows)
       /\ r.why = "file" => r.kind = a.step /\ r.kind # "patch"
       /\ r.why = "file" /\ r.kind = "upload" => d.note # None
       /\ r.why # "file" => /\ r.kind # "upload" /\ Len(q) > 0
                            /\ q[1].text = r.text /\ q[1].why = r.why /\ q[1].shown = r.shown
  /\ \A r, o \in S : (r.why = "file" <=> o.why = "file") => r = o

\* The save that ends an attachment is queued once.
AttachedOnce(q, a) ==
  /\ \A i \in 1 .. Len(q) : q[i].why = "attach" => a.step = "save"
  /\ \A i, j \in 1 .. Len(q) : q[i].why = "attach" /\ q[j].why = "attach" => i = j

\* Without a note, and until the first one is made for an attachment, there are no files.
Bare(e, d, a, S, rows) ==
  d.note = None \/ a.step = "create" =>
    /\ d.files = {}
    /\ \A r \in S : r.files = {}
    /\ \A n \in NoteIds : rows[n].by = e => rows[n].files = {}

\* The files of a row are those shown, unless a queued save will bring them there.
Kept(e, d, q, S, rows) ==
  /\ Len(q) = 0 /\ d.step = "ready" /\ d.status = "saved" /\ d.note # None =>
       (rows[d.note].by = e /\ rows[d.note].state = "live" => rows[d.note].files = d.files)
  /\ \A r \in S : r.why # "file" =>
       /\ r.state = "done" /\ rows[r.note].by = e /\ rows[r.note].state = "live" =>
            r.shown /\ rows[r.note].files = r.files
       /\ r.shown /\ Len(q) = 1 => r.files = d.files

\* What counts is queued in the order of the edits.
InOrder(d, q, w) ==
  /\ \A i, j \in 1 .. Len(q) : i <= j /\ Counts(q[i]) /\ Counts(q[j]) => q[i].text <= q[j].text
  /\ \A i \in 1 .. Len(q) : Counts(q[i]) => w <= q[i].text
  /\ d.at = "mounted" /\ d.step = "ready" =>
       /\ w <= d.text /\ d.timer \in {0, d.text}
       /\ \A i \in 1 .. Len(q) : Counts(q[i]) => q[i].text <= d.text

\* No text is later than the latest.
Typed(d, q, a, S, t) ==
  /\ d.text <= t /\ d.got.text <= t /\ d.timer <= t /\ a.text <= t
  /\ \A i \in 1 .. Len(q) : q[i].text <= t
  /\ \A r \in S : r.text <= t

EditorOK(e, d, q, a, w, S, rows, t) ==
  /\ Fits(d, q, a, w, rows) /\ Unopened(d, q, a, S) /\ Unshown(e, d, q, a, w, S, rows)
  /\ Placed(d, q, a, S, rows) /\ AttachedOnce(q, a) /\ Bare(e, d, a, S, rows)
  /\ Kept(e, d, q, S, rows) /\ InOrder(d, q, w) /\ Typed(d, q, a, S, t)

RowsOK(rows, t) == rows \in [NoteIds -> Note] /\ \A n \in NoteIds : rows[n].text <= t

\* A function of editors.
OfEditors(f) == f = [o \in Editors |-> f[o]]

\* The inductive invariant: the rows, and every editor with what it has under way.
IInv ==
  /\ typed \in Texts /\ RowsOK(note, typed) /\ reqs \subseteq Request
  /\ OfEditors(ed) /\ OfEditors(chain) /\ OfEditors(attach) /\ OfEditors(wrote)
  /\ \A e \in Editors :
       EditorOK(e, ed[e], chain[e], attach[e], wrote[e], Mine(reqs, e), note, typed)

-----------------------------------------------------------------------------
(* What a step leaves alone. *)

\* Rows change from one state to the next so that what o relies on stays.
Follows(o, rows, next) ==
  \A n \in NoteIds : /\ rows[n].state # "free" => next[n].state # "free"
                     /\ next[n].by = o => next[n] = rows[n]

\* The saves of a queue.
LEMMA Queued ==
  ASSUME NEW q \in Seq(QueuedSave)
  PROVE  Len(q) \in Nat /\ \A i \in 1 .. Len(q) : q[i] \in QueuedSave
OBVIOUS

LEMMA SaveFields ==
  ASSUME NEW s \in QueuedSave
  PROVE  /\ s.text \in Nat /\ s.text \in Texts /\ s.shown \in BOOLEAN
         /\ s.why \in {"edit", "attach", "back"}
BY BoundsAreNumbers DEF QueuedSave, Texts

\* An editor that takes no part in a step.
LEMMA Bystander ==
  ASSUME NEW o \in Editors, NEW d, NEW q, NEW a, NEW w, NEW S, NEW rows, NEW t \in Texts,
         EditorOK(o, d, q, a, w, S, rows, t), S \subseteq Request,
         NEW next, Follows(o, rows, next), NEW u \in Texts, t <= u
  PROVE  EditorOK(o, d, q, a, w, S, next, u)
<1>1. Fits(d, q, a, w, next)
  BY DEF EditorOK, Fits, Known, Follows
<1>2. Unopened(d, q, a, S) /\ AttachedOnce(q, a) /\ InOrder(d, q, w)
  BY DEF EditorOK
<1>3. Unshown(o, d, q, a, w, S, next)
  BY DEF EditorOK, Unshown, Follows
<1>4. Placed(d, q, a, S, next)
  BY DEF EditorOK, Placed, Known, Follows
<1>5. Bare(o, d, a, S, next)
  BY DEF EditorOK, Bare, Follows
<1>6. Kept(o, d, q, S, next)
  <2>1. \A r \in S : r.state = "done" => r.note \in NoteIds
    BY DEF EditorOK, Placed, Known
  <2>2. d.note # None => d.note \in NoteIds
    BY DEF EditorOK, Fits, Known
  <2> QED
    BY <2>1, <2>2 DEF EditorOK, Kept, Follows
<1>7. Typed(d, q, a, S, u)
  <2>1. /\ d.text \in Nat /\ d.got.text \in Nat /\ d.timer \in Nat /\ a.text \in Nat
        /\ t \in Nat /\ u \in Nat
    BY BoundsAreNumbers DEF EditorOK, Fits, Editor, Attach, Texts
  <2>2. \A i \in 1 .. Len(q) : q[i].text \in Nat
    BY Queued, SaveFields DEF EditorOK, Fits
  <2>3. \A r \in S : r.text \in Nat
    BY BoundsAreNumbers DEF Request, Texts
  <2> QED
    BY <2>1, <2>2, <2>3 DEF EditorOK, Typed
<1> QED
  BY <1>1, <1>2, <1>3, <1>4, <1>5, <1>6, <1>7 DEF EditorOK

\* The function f of editors becomes g, with a new value at e only.
Only(e, f, g, x) ==
  OfEditors(g) /\ g[e] = x /\ \A o \in Editors \ {e} : g[o] = f[o]

\* A step of one editor.
LEMMA OneEditor ==
  ASSUME IInv, NEW e \in Editors, NEW d, NEW q, NEW a, NEW w,
         Only(e, ed, ed', d), Only(e, chain, chain', q),
         Only(e, attach, attach', a), Only(e, wrote, wrote', w),
         reqs' \subseteq Request,
         \A o \in Editors \ {e} : Mine(reqs', o) = Mine(reqs, o),
         typed' \in Texts, typed <= typed', RowsOK(note', typed'),
         \A o \in Editors \ {e} : Follows(o, note, note'),
         EditorOK(e, d, q, a, w, Mine(reqs', e), note', typed')
  PROVE  IInv'
<1>1. ASSUME NEW o \in Editors \ {e}
      PROVE  EditorOK(o, ed[o], chain[o], attach[o], wrote[o], Mine(reqs, o), note', typed')
  <2>1. EditorOK(o, ed[o], chain[o], attach[o], wrote[o], Mine(reqs, o), note, typed)
    BY DEF IInv
  <2>2. Mine(reqs, o) \subseteq Request /\ typed \in Texts
    BY DEF IInv, Mine
  <2> QED
    BY <2>1, <2>2, Bystander
<1>2. ASSUME NEW o \in Editors
      PROVE  EditorOK(o, ed'[o], chain'[o], attach'[o], wrote'[o], Mine(reqs', o), note', typed')
  BY <1>1 DEF Only, OfEditors
<1>3. OfEditors(ed') /\ OfEditors(chain') /\ OfEditors(attach') /\ OfEditors(wrote')
  BY DEF Only, OfEditors
<1> QED
  BY <1>2, <1>3 DEF IInv

\* What does not change is Only what it was.
LEMMA Same ==
  ASSUME NEW e \in Editors, NEW f, OfEditors(f)
  PROVE  Only(e, f, f, f[e])
BY DEF Only, OfEditors

LEMMA StaysAsItIs ==
  ASSUME NEW o \in Editors, NEW rows
  PROVE  Follows(o, rows, rows)
BY DEF Follows

\* A step of one editor that touches neither rows nor requests nor history.
LEMMA Quietly ==
  ASSUME IInv, NEW e \in Editors, NEW d, NEW q,
         Only(e, ed, ed', d), Only(e, chain, chain', q),
         UNCHANGED <<note, reqs, attach, typed, wrote>>,
         EditorOK(e, d, q, attach[e], wrote[e], Mine(reqs, e), note, typed)
  PROVE  IInv'
<1>1. Only(e, attach, attach', attach[e]) /\ Only(e, wrote, wrote', wrote[e])
  BY Same DEF IInv
<1>2. typed \in Texts /\ typed <= typed
  BY BoundsAreNumbers DEF IInv, Texts
<1>3. \A o \in Editors \ {e} : Follows(o, note, note')
  BY StaysAsItIs
<1>4. RowsOK(note, typed) /\ reqs \subseteq Request
  BY DEF IInv
<1> QED
  BY <1>1, <1>2, <1>3, <1>4, OneEditor

-----------------------------------------------------------------------------
(* Steps that change the editor only. *)

\* Numbers among the parts of an editor.
LEMMA EditorFields ==
  ASSUME NEW d \in Editor
  PROVE  /\ d.text \in Nat /\ d.timer \in Nat /\ d.got.text \in Nat
         /\ d.text \in Texts /\ d.timer \in Texts /\ d.got.text \in Texts
         /\ d.got.files \in SUBSET Files /\ d.files \in SUBSET Files
BY BoundsAreNumbers DEF Editor, Texts

\* An unmounted editor is a blank one that keeps its refs.
LEMMA ClosedEditor ==
  ASSUME NEW d \in Editor
  PROVE  /\ Close(d) \in Editor
         /\ Close(d).at = "left" /\ Close(d).step = d.step /\ Close(d).note = d.note
         /\ Close(d).files = d.files /\ Close(d).text = 0 /\ Close(d).timer = 0
         /\ Close(d).got.text = 0 /\ Close(d).status = "idle"
<1>1. /\ Blank \in Editor /\ Blank.text = 0 /\ Blank.timer = 0 /\ Blank.got.text = 0
      /\ Blank.status = "idle"
  BY BoundsAreNumbers DEF Blank, Editor, Texts, Opt
<1>2. PICK b : b = Blank
  OBVIOUS
<1> DEFINE b1 == [b EXCEPT !.at = "left"]
           b2 == [b1 EXCEPT !.step = d.step]
           b3 == [b2 EXCEPT !.note = d.note]
           b4 == [b3 EXCEPT !.files = d.files]
<1>3. /\ b1 \in Editor /\ b1.at = "left" /\ b1.text = 0 /\ b1.timer = 0 /\ b1.got.text = 0
      /\ b1.status = "idle"
  BY <1>1, <1>2 DEF Editor
<1> HIDE DEF b1
<1>4. /\ b2 \in Editor /\ b2.at = "left" /\ b2.text = 0 /\ b2.timer = 0 /\ b2.got.text = 0
      /\ b2.status = "idle"
      /\ b2.step = d.step
  BY <1>3 DEF Editor
<1> HIDE DEF b2
<1>5. /\ b3 \in Editor /\ b3.at = "left" /\ b3.text = 0 /\ b3.timer = 0 /\ b3.got.text = 0
      /\ b3.status = "idle"
      /\ b3.step = d.step /\ b3.note = d.note
  BY <1>4 DEF Editor
<1> HIDE DEF b3
<1>6. /\ b4 \in Editor /\ b4.at = "left" /\ b4.text = 0 /\ b4.timer = 0 /\ b4.got.text = 0
      /\ b4.status = "idle"
      /\ b4.step = d.step /\ b4.note = d.note /\ b4.files = d.files
  BY <1>5 DEF Editor
<1>7. Close(d) = b4
  BY <1>2 DEF Close, b1, b2, b3
<1> QED
  BY <1>6, <1>7

\* Leaving keeps everything but what belongs to the page.
LEMMA Leaving ==
  ASSUME NEW e, NEW d, NEW q, NEW a, NEW w, NEW S, NEW rows, NEW t \in Texts,
         EditorOK(e, d, q, a, w, S, rows, t)
  PROVE  EditorOK(e, Close(d), q, a, w, S, rows, t)
<1>1. d \in Editor
  BY DEF EditorOK, Fits
<1>2. PICK n : n = Close(d)
  OBVIOUS
<1>3. /\ n \in Editor /\ n.at = "left" /\ n.step = d.step /\ n.note = d.note
      /\ n.files = d.files /\ n.text = 0 /\ n.timer = 0
      /\ n.got.text = 0 /\ n.status = "idle"
  BY <1>1, <1>2, ClosedEditor
<1>4. Fits(n, q, a, w, rows)
  BY <1>3 DEF EditorOK, Fits
<1>5. Unopened(n, q, a, S) /\ AttachedOnce(q, a)
  BY <1>3 DEF EditorOK, Unopened
<1>6. Unshown(e, n, q, a, w, S, rows)
  BY <1>3 DEF EditorOK, Unshown
<1>7. Placed(n, q, a, S, rows)
  BY <1>3 DEF EditorOK, Placed
<1>8. Bare(e, n, a, S, rows)
  BY <1>3 DEF EditorOK, Bare
<1>9. Kept(e, n, q, S, rows)
  BY <1>3 DEF EditorOK, Kept
<1>10. InOrder(n, q, w)
  BY <1>3 DEF EditorOK, InOrder
<1>11. Typed(n, q, a, S, t)
  BY <1>3, BoundsAreNumbers DEF EditorOK, Typed, Texts
<1> QED
  BY <1>2, <1>4, <1>5, <1>6, <1>7, <1>8, <1>9, <1>10, <1>11 DEF EditorOK

\* What IInv says of the editor e.
LEMMA Acting ==
  ASSUME IInv, NEW e \in Editors
  PROVE  /\ EditorOK(e, ed[e], chain[e], attach[e], wrote[e], Mine(reqs, e), note, typed)
         /\ ed[e] \in Editor /\ Mine(reqs, e) \subseteq Request
         /\ typed \in Texts /\ typed \in Nat /\ RowsOK(note, typed)
         /\ OfEditors(ed) /\ OfEditors(chain) /\ OfEditors(attach) /\ OfEditors(wrote)
BY BoundsAreNumbers DEF IInv, EditorOK, Fits, Mine, Texts

\* One part of an editor is changed.
LEMMA WithAt ==
  ASSUME NEW d \in Editor, NEW x \in {"new", "mounted", "left"}
  PROVE  LET n == [d EXCEPT !.at = x]
         IN /\ n \in Editor /\ n.at = x
            /\ n.step = d.step /\ n.got = d.got /\ n.note = d.note /\ n.text = d.text
            /\ n.files = d.files /\ n.status = d.status /\ n.timer = d.timer
BY DEF Editor

LEMMA WithStep ==
  ASSUME NEW d \in Editor, NEW x \in {"loading", "keyed", "ready"}
  PROVE  LET n == [d EXCEPT !.step = x]
         IN /\ n \in Editor /\ n.step = x
            /\ n.at = d.at /\ n.got = d.got /\ n.note = d.note /\ n.text = d.text
            /\ n.files = d.files /\ n.status = d.status /\ n.timer = d.timer
BY DEF Editor

LEMMA WithGot ==
  ASSUME NEW d \in Editor, NEW x \in [text : Texts, files : SUBSET Files]
  PROVE  LET n == [d EXCEPT !.got = x]
         IN /\ n \in Editor /\ n.got = x
            /\ n.at = d.at /\ n.step = d.step /\ n.note = d.note /\ n.text = d.text
            /\ n.files = d.files /\ n.status = d.status /\ n.timer = d.timer
BY DEF Editor

LEMMA WithNote ==
  ASSUME NEW d \in Editor, NEW x \in Opt(NoteIds)
  PROVE  LET n == [d EXCEPT !.note = x]
         IN /\ n \in Editor /\ n.note = x
            /\ n.at = d.at /\ n.step = d.step /\ n.got = d.got /\ n.text = d.text
            /\ n.files = d.files /\ n.status = d.status /\ n.timer = d.timer
BY DEF Editor

LEMMA WithText ==
  ASSUME NEW d \in Editor, NEW x \in Texts
  PROVE  LET n == [d EXCEPT !.text = x]
         IN /\ n \in Editor /\ n.text = x
            /\ n.at = d.at /\ n.step = d.step /\ n.got = d.got /\ n.note = d.note
            /\ n.files = d.files /\ n.status = d.status /\ n.timer = d.timer
BY DEF Editor

LEMMA WithFiles ==
  ASSUME NEW d \in Editor, NEW x \in SUBSET Files
  PROVE  LET n == [d EXCEPT !.files = x]
         IN /\ n \in Editor /\ n.files = x
            /\ n.at = d.at /\ n.step = d.step /\ n.got = d.got /\ n.note = d.note
            /\ n.text = d.text /\ n.status = d.status /\ n.timer = d.timer
BY DEF Editor

LEMMA WithDirty ==
  ASSUME NEW d \in Editor, NEW x \in BOOLEAN
  PROVE  LET n == [d EXCEPT !.dirty = x]
         IN /\ n \in Editor
            /\ n.at = d.at /\ n.step = d.step /\ n.got = d.got /\ n.note = d.note
            /\ n.text = d.text /\ n.files = d.files /\ n.status = d.status /\ n.timer = d.timer
BY DEF Editor

LEMMA WithStatus ==
  ASSUME NEW d \in Editor, NEW x \in {"idle", "saving", "saved", "error"}
  PROVE  LET n == [d EXCEPT !.status = x]
         IN /\ n \in Editor /\ n.status = x
            /\ n.at = d.at /\ n.step = d.step /\ n.got = d.got /\ n.note = d.note
            /\ n.text = d.text /\ n.files = d.files /\ n.timer = d.timer
BY DEF Editor

LEMMA WithTimer ==
  ASSUME NEW d \in Editor, NEW x \in Texts
  PROVE  LET n == [d EXCEPT !.timer = x]
         IN /\ n \in Editor /\ n.timer = x
            /\ n.at = d.at /\ n.step = d.step /\ n.got = d.got /\ n.note = d.note
            /\ n.text = d.text /\ n.files = d.files /\ n.status = d.status
BY DEF Editor

-----------------------------------------------------------------------------
(* What a step does to one editor, in the values it works on. *)

\* The two editors agree on what requests and saves refer to.
Alike(n, d) == n.at = d.at /\ n.step = d.step /\ n.note = d.note /\ n.files = d.files

\* Only what is shown of the text, the timer or the status changes.
LEMMA Rewording ==
  ASSUME NEW e, NEW d, NEW q, NEW a, NEW w, NEW S \in SUBSET Request, NEW rows, NEW t \in Texts,
         EditorOK(e, d, q, a, w, S, rows, t),
         NEW n \in Editor, Alike(n, d), d.at # "new", NEW u \in Texts, t <= u,
         n.status \in {d.status, "idle", "saving", "error"},
         n.at # "mounted" => n.timer = 0,
         n.at = "mounted" /\ n.step = "ready" =>
           d.text <= n.text /\ n.timer \in {0, n.text},
         n.text <= u, n.got.text <= u, n.timer <= u
  PROVE  EditorOK(e, n, q, a, w, S, rows, u)
<1> USE DEF Alike
<1>1. d \in Editor /\ a \in Attach /\ w \in Nat /\ a.text \in Nat /\ w \in Texts
  BY BoundsAreNumbers DEF EditorOK, Fits, Texts, Attach
<1>2. Len(q) \in Nat /\ \A i \in 1 .. Len(q) : q[i] \in QueuedSave /\ q[i].text \in Nat
  BY Queued, SaveFields DEF EditorOK, Fits
<1>3. Fits(n, q, a, w, rows)
  BY DEF EditorOK, Fits
<1>4. Unopened(n, q, a, S) /\ AttachedOnce(q, a)
  BY DEF EditorOK, Unopened
<1>5. Unshown(e, n, q, a, w, S, rows)
  BY DEF EditorOK, Unshown
<1>6. Placed(n, q, a, S, rows)
  BY DEF EditorOK, Placed
<1>7. Bare(e, n, a, S, rows)
  BY DEF EditorOK, Bare
<1>8. Kept(e, n, q, S, rows)
  BY DEF EditorOK, Kept
<1>9. InOrder(n, q, w)
  <2>1. d.text \in Nat /\ n.text \in Nat
    BY <1>1, EditorFields
  <2> QED
    BY <1>1, <1>2, <2>1 DEF EditorOK, InOrder
<1>10. Typed(n, q, a, S, u)
  <2>1. \A r \in S : r.text \in Nat
    BY BoundsAreNumbers DEF Request, Texts
  <2>2. t \in Nat /\ u \in Nat
    BY BoundsAreNumbers DEF Texts
  <2> QED
    BY <1>1, <1>2, <2>1, <2>2 DEF EditorOK, Typed
<1> QED
  BY <1>3, <1>4, <1>5, <1>6, <1>7, <1>8, <1>9, <1>10 DEF EditorOK

\* The queue with one more save.
LEMMA Appended ==
  ASSUME NEW q \in Seq(QueuedSave), NEW s \in QueuedSave
  PROVE  /\ Append(q, s) \in Seq(QueuedSave) /\ Len(Append(q, s)) = Len(q) + 1
         /\ \A i \in 1 .. Len(q) : Append(q, s)[i] = q[i]
         /\ Append(q, s)[Len(q) + 1] = s
OBVIOUS

\* The queue without its head.
LEMMA Dropped ==
  ASSUME NEW q \in Seq(QueuedSave), Len(q) > 0
  PROVE  /\ Tail(q) \in Seq(QueuedSave) /\ Len(Tail(q)) = Len(q) - 1
         /\ \A i \in 1 .. Len(Tail(q)) : i + 1 \in 1 .. Len(q) /\ Tail(q)[i] = q[i + 1]
         /\ Head(q) = q[1] /\ Head(q) \in QueuedSave /\ 1 \in 1 .. Len(q)
OBVIOUS

\* A save is queued; the files may be others from then on.
LEMMA Enqueued ==
  ASSUME NEW e, NEW d, NEW q, NEW a, NEW w, NEW S \in SUBSET Request, NEW rows, NEW t \in Texts,
         EditorOK(e, d, q, a, w, S, rows, t), d.at # "new",
         NEW n \in Editor, n.at = d.at, n.step = d.step, n.note = d.note, n.text = d.text,
         n.got = d.got, n.timer \in {0, d.timer},
         d.note = None \/ a.step = "create" => n.files = d.files,
         NEW s \in QueuedSave, Len(q) < MaxChain, s.text <= t, s.shown => d.step = "ready",
         s.why = "attach" => a.step = "save" /\ \A i \in 1 .. Len(q) : q[i].why # "attach",
         Counts(s) => d.at = "mounted" /\ s.text = d.text
  PROVE  EditorOK(e, n, Append(q, s), a, w, S, rows, t)
<1> DEFINE p == Append(q, s)
<1>1. d \in Editor /\ a \in Attach /\ w \in Nat /\ w \in Texts /\ q \in Seq(QueuedSave)
  BY BoundsAreNumbers DEF EditorOK, Fits, Texts
<1>2. Len(q) \in Nat /\ \A i \in 1 .. Len(q) : q[i] \in QueuedSave
  BY <1>1, Queued
<1>3. /\ p \in Seq(QueuedSave) /\ Len(p) = Len(q) + 1 /\ p[Len(q) + 1] = s
      /\ \A i \in 1 .. Len(q) : p[i] = q[i]
  BY <1>1, Appended
<1> HIDE DEF p
<1>4. \A i \in 1 .. Len(p) :
        \/ i \in 1 .. Len(q) /\ p[i] = q[i]
        \/ i = Len(q) + 1 /\ p[i] = s
  BY <1>2, <1>3
<1>5. Fits(n, p, a, w, rows)
  BY <1>1, <1>2, <1>3, BoundsAreNumbers DEF EditorOK, Fits
<1>6. Unopened(n, p, a, S)
  BY DEF Unopened
<1>7. AttachedOnce(p, a)
  BY <1>4 DEF EditorOK, AttachedOnce
<1>8. Unshown(e, n, p, a, w, S, rows)
  BY <1>4 DEF EditorOK, Unshown
<1>9. Placed(n, p, a, S, rows)
  <2>1. \A r \in S : r.why # "file" => Len(p) > 0 /\ p[1] = q[1]
    BY <1>2, <1>3 DEF EditorOK, Placed
  <2> QED
    BY <2>1 DEF EditorOK, Placed
<1>10. Bare(e, n, a, S, rows)
  BY DEF EditorOK, Bare
<1>11. Kept(e, n, p, S, rows)
  <2>1. Len(p) # 0 /\ \A r \in S : r.why # "file" => Len(p) # 1
    BY <1>2, <1>3 DEF EditorOK, Placed
  <2> QED
    BY <2>1 DEF EditorOK, Kept
<1>12. InOrder(n, p, w)
  <2>1. d.text \in Nat /\ s.text \in Nat /\ \A i \in 1 .. Len(q) : q[i].text \in Nat
    BY <1>1, <1>2, EditorFields, SaveFields
  <2>2. Counts(s) => d.at = "mounted" /\ d.step = "ready" /\ s.text = d.text
    BY DEF Counts
  <2>3. /\ \A i, j \in 1 .. Len(q) : i <= j /\ Counts(q[i]) /\ Counts(q[j])
             => q[i].text <= q[j].text
        /\ \A i \in 1 .. Len(q) : Counts(q[i]) => w <= q[i].text
        /\ d.at = "mounted" /\ d.step = "ready" =>
             /\ w <= d.text /\ d.timer \in {0, d.text}
             /\ \A i \in 1 .. Len(q) : Counts(q[i]) => q[i].text <= d.text
    BY DEF EditorOK, InOrder
  <2>4. ASSUME NEW i \in 1 .. Len(p), NEW j \in 1 .. Len(p), i <= j, Counts(p[i]), Counts(p[j])
        PROVE  p[i].text <= p[j].text
    <3>1. CASE j \in 1 .. Len(q) /\ p[j] = q[j]
      <4>1. i \in 1 .. Len(q) /\ p[i] = q[i]
        BY <1>2, <1>4, <2>4, <3>1
      <4> QED
        BY <2>3, <2>4, <3>1, <4>1
    <3>2. CASE p[j] = s
      BY <1>4, <2>1, <2>2, <2>3, <2>4, <3>2
    <3> QED
      BY <1>4, <3>1, <3>2
  <2>5. ASSUME NEW i \in 1 .. Len(p), Counts(p[i])
        PROVE  w <= p[i].text
    BY <1>4, <2>2, <2>3, <2>5
  <2>6. ASSUME d.at = "mounted", d.step = "ready"
        PROVE  /\ w <= n.text /\ n.timer \in {0, n.text}
               /\ \A i \in 1 .. Len(p) : Counts(p[i]) => p[i].text <= n.text
    BY <1>4, <2>1, <2>2, <2>3, <2>6
  <2> QED
    BY <2>4, <2>5, <2>6 DEF InOrder
<1>13. Typed(n, p, a, S, t)
  <2>1. t \in Nat /\ 0 <= t
    BY BoundsAreNumbers DEF Texts
  <2> QED
    BY <1>4, <2>1 DEF EditorOK, Typed
<1> QED
  BY <1>5, <1>6, <1>7, <1>8, <1>9, <1>10, <1>11, <1>12, <1>13 DEF EditorOK, p

\* Fewer requests.
LEMMA Answered ==
  ASSUME NEW e, NEW d, NEW q, NEW a, NEW w, NEW S, NEW rows, NEW t,
         EditorOK(e, d, q, a, w, S, rows, t), NEW R \in SUBSET S
  PROVE  EditorOK(e, d, q, a, w, R, rows, t)
<1>1. Fits(d, q, a, w, rows) /\ AttachedOnce(q, a) /\ InOrder(d, q, w) /\ Unopened(d, q, a, R)
  BY DEF EditorOK, Unopened
<1>2. Unshown(e, d, q, a, w, R, rows) /\ Placed(d, q, a, R, rows)
  BY DEF EditorOK, Unshown, Placed
<1>3. Bare(e, d, a, R, rows) /\ Kept(e, d, q, R, rows)
  BY DEF EditorOK, Bare, Kept
<1>4. Typed(d, q, a, R, t)
  BY DEF EditorOK, Typed
<1> QED
  BY <1>1, <1>2, <1>3, <1>4 DEF EditorOK

\* The head of the chain is done with.
LEMMA Dequeued ==
  ASSUME NEW e, NEW d, NEW q, NEW a, NEW w, NEW S \in SUBSET Request, NEW rows, NEW t \in Texts,
         EditorOK(e, d, q, a, w, S, rows, t), Len(q) > 0, \A r \in S : r.why = "file",
         NEW n \in Editor, n.at = d.at, n.step = d.step, n.text = d.text, n.files = d.files,
         n.got = d.got, n.timer = d.timer, n.note # None => Known(n.note, rows),
         n.note = None => d.note = None,
         n.note # None /\ Len(q) = 1 /\ n.step = "ready" /\ n.status = "saved" /\
           rows[n.note].by = e /\ rows[n.note].state = "live" => rows[n.note].files = n.files,
         NEW b, b = IF q[1].why = "attach" THEN NoAttach ELSE a
  PROVE  EditorOK(e, n, Tail(q), b, w, S, rows, t)
<1> DEFINE p == Tail(q)
<1>1. d \in Editor /\ a \in Attach /\ w \in Nat /\ w \in Texts /\ q \in Seq(QueuedSave)
  BY BoundsAreNumbers DEF EditorOK, Fits, Texts
<1>2. Len(q) \in Nat /\ \A i \in 1 .. Len(q) : q[i] \in QueuedSave
  BY <1>1, Queued
<1>3. /\ p \in Seq(QueuedSave) /\ Len(p) = Len(q) - 1
      /\ \A i \in 1 .. Len(p) : i + 1 \in 1 .. Len(q) /\ p[i] = q[i + 1]
  BY <1>1, Dropped
<1> HIDE DEF p
<1>4. NoAttach \in Attach /\ NoAttach.step = "none" /\ NoAttach.text = 0
  BY BoundsAreNumbers DEF NoAttach, Attach, Texts
<1>5. /\ b \in Attach
      /\ \/ b = a /\ q[1].why # "attach"
         \/ b = NoAttach /\ q[1].why = "attach" /\ a.step = "save"
  <2>1. 1 \in 1 .. Len(q)
    BY <1>2
  <2>2. q[1].why = "attach" => a.step = "save"
    BY <2>1 DEF EditorOK, AttachedOnce
  <2> QED
    BY <1>1, <1>4, <2>2
<1> HIDE DEF NoAttach
<1>6. Fits(n, p, b, w, rows)
  BY <1>1, <1>2, <1>3, <1>5, BoundsAreNumbers DEF EditorOK, Fits
<1>7. Unopened(n, p, b, S)
  <2>1. d.at # "new"
    BY DEF EditorOK, Unopened
  <2> QED
    BY <2>1 DEF Unopened
<1>8. Unshown(e, n, p, b, w, S, rows)
  BY <1>2, <1>3, <1>4, <1>5 DEF EditorOK, Unshown
<1>9. Placed(n, p, b, S, rows)
  <2>1. \A r \in S : r.kind # "save"
    BY DEF Request
  <2>2. \A r \in S : r.kind = a.step /\ r.kind # "patch" /\ (r.kind = "upload" => d.note # None)
    BY DEF EditorOK, Placed
  <2>3. /\ \A r \in S : r.kind # "create" \/ r.state = "done" => Known(r.note, rows)
        /\ \A r, o \in S : r = o
    BY DEF EditorOK, Placed
  <2>4. \A r \in S : b = a
    BY <1>5, <2>1, <2>2
  <2> QED
    BY <2>2, <2>3, <2>4 DEF Placed
<1>10. AttachedOnce(p, b)
  <2>1. \A i, j \in 1 .. Len(q) : q[i].why = "attach" /\ q[j].why = "attach" => i = j
    BY DEF EditorOK, AttachedOnce
  <2>2. \A i \in 1 .. Len(q) : q[i].why = "attach" => a.step = "save"
    BY DEF EditorOK, AttachedOnce
  <2>3. ASSUME NEW i \in 1 .. Len(p), p[i].why = "attach"
        PROVE  b = a
    <3>1. i + 1 \in 1 .. Len(q) /\ q[i + 1].why = "attach" /\ 1 \in 1 .. Len(q) /\ i + 1 # 1
      BY <1>2, <1>3, <2>3
    <3> QED
      BY <1>5, <2>1, <3>1
  <2>4. ASSUME NEW i \in 1 .. Len(p), NEW j \in 1 .. Len(p), p[i].why = "attach",
               p[j].why = "attach"
        PROVE  i = j
    <3>1. i + 1 \in 1 .. Len(q) /\ q[i + 1].why = "attach"
      BY <1>3, <2>4
    <3>2. j + 1 \in 1 .. Len(q) /\ q[j + 1].why = "attach"
      BY <1>3, <2>4
    <3>3. i + 1 = j + 1
      BY <2>1, <3>1, <3>2
    <3> QED
      BY <3>3
  <2> QED
    BY ZenonT(120), <1>3, <2>2, <2>3, <2>4 DEF AttachedOnce
<1>11. Bare(e, n, b, S, rows)
  BY <1>4, <1>5 DEF EditorOK, Bare
<1>12. Kept(e, n, p, S, rows)
  BY <1>2, <1>3 DEF Kept
<1>13. InOrder(n, p, w)
  <2>1. /\ \A i, j \in 1 .. Len(q) : i <= j /\ Counts(q[i]) /\ Counts(q[j])
             => q[i].text <= q[j].text
        /\ \A i \in 1 .. Len(q) : Counts(q[i]) => w <= q[i].text
        /\ d.at = "mounted" /\ d.step = "ready" =>
             /\ w <= d.text /\ d.timer \in {0, d.text}
             /\ \A i \in 1 .. Len(q) : Counts(q[i]) => q[i].text <= d.text
    BY DEF EditorOK, InOrder
  <2>2. \A i, j \in 1 .. Len(p) : i <= j => i + 1 <= j + 1
    BY <1>2, <1>3
  <2> QED
    BY Zenon, <1>3, <2>1, <2>2 DEF InOrder
<1>14. Typed(n, p, b, S, t)
  <2>1. t \in Nat /\ 0 <= t
    BY BoundsAreNumbers DEF Texts
  <2> QED
    BY Zenon, <1>3, <1>4, <1>5, <2>1 DEF EditorOK, Typed
<1> QED
  BY <1>6, <1>7, <1>8, <1>9, <1>10, <1>11, <1>12, <1>13, <1>14 DEF EditorOK, p

\* A request is sent: the step of addAttachment that b is at, or the head of the chain.
LEMMA Asks ==
  ASSUME NEW e, NEW d, NEW q, NEW a, NEW w, NEW S \in SUBSET Request, NEW rows, NEW t \in Texts,
         EditorOK(e, d, q, a, w, S, rows, t), d.at # "new",
         NEW r \in Request, r.state = "sent", r.kind # "create" => Known(r.note, rows),
         r.shown => d.step = "ready", r.text <= t, r.files = d.files,
         \A o \in S : ~(r.why = "file" <=> o.why = "file"),
         NEW b \in Attach, b.text <= t,
         r.why = "file" =>
           /\ r.kind = b.step /\ r.kind # "patch" /\ a.step = "none"
           /\ r.kind = "upload" => d.note # None
           /\ r.kind = "create" => d.note = None /\ d.step = "ready",
         r.why # "file" =>
           /\ b = a /\ r.kind # "upload" /\ Len(q) > 0
           /\ q[1].text = r.text /\ q[1].why = r.why /\ q[1].shown = r.shown
  PROVE  EditorOK(e, d, q, b, w, S \cup {r}, rows, t)
<1>1. Fits(d, q, b, w, rows)
  BY DEF EditorOK, Fits
<1>2. Unopened(d, q, b, S \cup {r})
  BY DEF Unopened
<1>3. Unshown(e, d, q, b, w, S \cup {r}, rows)
  BY DEF EditorOK, Unshown
<1>4. Placed(d, q, b, S \cup {r}, rows)
  <2>1. CASE r.why = "file"
    <3>1. \A o \in S : o.why # "file"
      BY <2>1
    <3>2. \A o \in S : /\ o.kind # "create" \/ o.state = "done" => Known(o.note, rows)
                       /\ o.kind # "upload" /\ Len(q) > 0
                       /\ q[1].text = o.text /\ q[1].why = o.why /\ q[1].shown = o.shown
      BY <3>1 DEF EditorOK, Placed
    <3>3. \A o, p \in S : o = p
      BY <3>1 DEF EditorOK, Placed
    <3> QED
      BY <2>1, <3>1, <3>2, <3>3 DEF Placed
  <2>2. CASE r.why # "file"
    <3>1. \A o \in S : o.why = "file"
      BY <2>2
    <3>2. \A o \in S : /\ o.kind # "create" \/ o.state = "done" => Known(o.note, rows)
                       /\ o.kind = b.step /\ o.kind # "patch"
                       /\ o.kind = "upload" => d.note # None
      BY <2>2, <3>1 DEF EditorOK, Placed
    <3>3. \A o, p \in S : o = p
      BY <3>1 DEF EditorOK, Placed
    <3> QED
      BY <2>2, <3>1, <3>2, <3>3 DEF Placed
  <2> QED
    BY <2>1, <2>2
<1>5. AttachedOnce(q, b)
  <2>1. CASE r.why = "file"
    <3>1. \A i \in 1 .. Len(q) : q[i].why # "attach"
      BY <2>1 DEF EditorOK, AttachedOnce
    <3> QED
      BY <3>1 DEF AttachedOnce
  <2> QED
    BY <2>1 DEF EditorOK
<1>6. Bare(e, d, b, S \cup {r}, rows)
  <2>1. d.note = None \/ b.step = "create" => d.note = None \/ a.step = "create"
    OBVIOUS
  <2> QED
    BY <2>1 DEF EditorOK, Bare
<1>7. Kept(e, d, q, S \cup {r}, rows)
  BY DEF EditorOK, Kept
<1>8. InOrder(d, q, w)
  BY DEF EditorOK
<1>9. Typed(d, q, b, S \cup {r}, t)
  BY DEF EditorOK, Typed
<1> QED
  BY <1>1, <1>2, <1>3, <1>4, <1>5, <1>6, <1>7, <1>8, <1>9 DEF EditorOK

\* The requests with p, an answer to r, in the place of r.
Answers(p, r) == /\ p.ed = r.ed /\ p.why = r.why /\ p.kind = r.kind /\ p.text = r.text
                 /\ p.files = r.files /\ p.shown = r.shown

\* A request is in its place with its answer as without, if the answer names a note.
LEMMA StaysPlaced ==
  ASSUME NEW d, NEW q, NEW a, NEW S, NEW rows, Placed(d, q, a, S, rows),
         NEW next, \A n \in NoteIds : rows[n].state # "free" => next[n].state # "free",
         NEW r \in S, NEW p, Answers(p, r),
         p.kind # "create" \/ p.state = "done" => Known(p.note, next)
  PROVE  Placed(d, q, a, (S \ {r}) \cup {p}, next)
<1>1. ASSUME NEW o \in (S \ {r}) \cup {p}
      PROVE  /\ o.kind # "create" \/ o.state = "done" => Known(o.note, next)
             /\ o.why = "file" => o.kind = a.step /\ o.kind # "patch"
             /\ o.why = "file" /\ o.kind = "upload" => d.note # None
             /\ o.why # "file" => /\ o.kind # "upload" /\ Len(q) > 0
                                  /\ q[1].text = o.text /\ q[1].why = o.why /\ q[1].shown = o.shown
  BY DEF Placed, Known, Answers
<1>2. ASSUME NEW o \in (S \ {r}) \cup {p}, NEW k \in (S \ {r}) \cup {p},
             o.why = "file" <=> k.why = "file"
      PROVE  o = k
  BY <1>2 DEF Placed, Answers
<1> QED
  BY <1>1, <1>2 DEF Placed

\* An answer that changes no row: refused, lost, or an upload.
LEMMA Replied ==
  ASSUME NEW e, NEW d, NEW q, NEW a, NEW w, NEW S \in SUBSET Request, NEW rows, NEW t \in Texts,
         EditorOK(e, d, q, a, w, S, rows, t), NEW r \in S, NEW p, Answers(p, r),
         p.kind # "create" \/ p.state = "done" => Known(p.note, rows),
         p.why # "file" => p.state # "done"
  PROVE  EditorOK(e, d, q, a, w, (S \ {r}) \cup {p}, rows, t)
<1> DEFINE T == (S \ {r}) \cup {p}
<1>1. Fits(d, q, a, w, rows) /\ AttachedOnce(q, a) /\ InOrder(d, q, w)
  BY DEF EditorOK
<1>2. Unopened(d, q, a, T)
  BY DEF EditorOK, Unopened
<1>3. Unshown(e, d, q, a, w, T, rows)
  BY DEF EditorOK, Unshown, Answers
<1>4. Placed(d, q, a, T, rows)
  BY StaysPlaced DEF EditorOK
<1>5. Bare(e, d, a, T, rows)
  BY DEF EditorOK, Bare, Answers
<1>6. Kept(e, d, q, T, rows)
  BY DEF EditorOK, Kept, Answers
<1>7. Typed(d, q, a, T, t)
  BY DEF EditorOK, Typed, Answers
<1> QED
  BY <1>1, <1>2, <1>3, <1>4, <1>5, <1>6, <1>7 DEF EditorOK

\* The request r writes the row m.
Writes(r, m, rows, next) ==
  /\ \/ r.kind = "create" /\ rows[m].state = "free"
     \/ r.kind = "patch" /\ r.note = m
  /\ \A n \in NoteIds \ {m} : next[n] = rows[n]
  /\ next[m].state = "live" /\ next[m].files = r.files /\ next[m].by = Writer(r)

\* The last save of an editor that counts, after r has been written.
Latest(r, w) == IF r.why \in {"edit", "back"} /\ r.shown THEN r.text ELSE w

\* A row is written.
LEMMA Written ==
  ASSUME NEW e \in Editors, NEW d, NEW q, NEW a, NEW w, NEW S \in SUBSET Request, NEW rows,
         NEW t \in Texts,
         EditorOK(e, d, q, a, w, S, rows, t), NEW r \in S, NEW p, Answers(p, r),
         NEW m \in NoteIds, NEW next, p.note = m, r.state = "sent", r.ed = e,
         Writes(r, m, rows, next)
  PROVE  EditorOK(e, d, q, a, Latest(r, w), (S \ {r}) \cup {p}, next, t)
<1> DEFINE T == (S \ {r}) \cup {p}
           v == Latest(r, w)
<1> USE DEF Writes, Latest
<1>1. /\ next[m].by = e => r.shown
      /\ Known(m, next) /\ \A n \in NoteIds : rows[n].state # "free" => next[n].state # "free"
  BY NoneIsNothing DEF Known, Writer
<1>2. Fits(d, q, a, v, next)
  <2>1. r.text \in Texts
    BY DEF Request
  <2> QED
    BY <1>1, <2>1 DEF EditorOK, Fits, Known
<1>3. Unopened(d, q, a, T)
  BY DEF EditorOK, Unopened
<1>4. AttachedOnce(q, a)
  BY DEF EditorOK
<1>5. Unshown(e, d, q, a, v, T, next)
  BY <1>1 DEF EditorOK, Unshown, Answers
<1>6. Placed(d, q, a, T, next)
  <2>1. Placed(d, q, a, S, rows)
    BY DEF EditorOK
  <2> QED
    BY <1>1, <2>1, StaysPlaced
<1>7. Bare(e, d, a, T, next)
  BY DEF EditorOK, Bare, Answers
<1>8. Kept(e, d, q, T, next)
  <2>1. r.kind = "patch" => r.why # "file"
    BY DEF EditorOK, Placed
  <2>2. ASSUME Len(q) = 0, d.note # None
        PROVE  next[d.note] = rows[d.note]
    <3>1. r.why = "file"
      BY <2>2 DEF EditorOK, Placed
    <3>2. d.note \in NoteIds /\ rows[d.note].state # "free"
      BY <2>2 DEF EditorOK, Fits, Known
    <3> QED
      BY <2>1, <3>1, <3>2
  <2>3. ASSUME NEW o \in S \ {r}, o.why # "file", o.state = "done"
        PROVE  next[o.note] = rows[o.note]
    <3>1. o.note \in NoteIds /\ rows[o.note].state # "free"
      BY <2>3 DEF EditorOK, Placed, Known
    <3>2. r.why = "file"
      BY <2>3 DEF EditorOK, Placed
    <3> QED
      BY <2>1, <3>1, <3>2
  <2>4. Kept(e, d, q, S, rows)
    BY DEF EditorOK
  <2>5. p.why # "file" => /\ next[m].by = e => r.shown /\ next[m].files = p.files
                          /\ p.shown /\ Len(q) = 1 => p.files = d.files
    BY <1>1, <2>4 DEF Kept, Answers
  <2>6. Len(q) = 0 /\ d.step = "ready" /\ d.status = "saved" /\ d.note # None =>
          (next[d.note].by = e /\ next[d.note].state = "live" => next[d.note].files = d.files)
    BY <2>2, <2>4 DEF Kept
  <2>7. ASSUME NEW o \in S \ {r}, o.why # "file"
        PROVE  /\ o.state = "done" /\ next[o.note].by = e /\ next[o.note].state = "live" =>
                    o.shown /\ next[o.note].files = o.files
               /\ o.shown /\ Len(q) = 1 => o.files = d.files
    BY <2>3, <2>4, <2>7 DEF Kept
  <2> QED
    BY <2>5, <2>6, <2>7 DEF Kept, Answers
<1>9. InOrder(d, q, v)
  <2>1. CASE ~(r.why \in {"edit", "back"} /\ r.shown)
    BY <2>1 DEF EditorOK
  <2>2. CASE r.why \in {"edit", "back"} /\ r.shown
    <3>1. /\ v = q[1].text /\ Len(q) \in Nat /\ 1 \in 1 .. Len(q)
      BY <2>2, Queued DEF EditorOK, Fits, Placed
    <3>2. Counts(q[1])
      BY <2>2 DEF EditorOK, Placed, Counts
    <3>3. /\ \A i, j \in 1 .. Len(q) : i <= j /\ Counts(q[i]) /\ Counts(q[j])
               => q[i].text <= q[j].text
          /\ d.at = "mounted" /\ d.step = "ready" =>
               /\ d.timer \in {0, d.text}
               /\ \A i \in 1 .. Len(q) : Counts(q[i]) => q[i].text <= d.text
      BY DEF EditorOK, InOrder
    <3>4. \A i \in 1 .. Len(q) : Counts(q[i]) => v <= q[i].text
      BY <3>1, <3>2, <3>3
    <3> QED
      BY <3>1, <3>2, <3>3, <3>4 DEF InOrder
  <2> QED
    BY <2>1, <2>2
<1>10. Typed(d, q, a, T, t)
  BY DEF EditorOK, Typed, Answers
<1> QED
  BY <1>2, <1>3, <1>4, <1>5, <1>6, <1>7, <1>8, <1>9, <1>10 DEF EditorOK

-----------------------------------------------------------------------------
(* Opening a note. *)

\* An editor is opened.
LEMMA OpenStep ==
  ASSUME IInv, NEW e \in Editors, NEW k \in Opt(NoteIds), Open(e, k)
  PROVE  IInv'
<1> DEFINE d == ed[e]
           m == [Blank EXCEPT !.at = "mounted"]
           n == [m EXCEPT !.note = k]
<1>1. EditorOK(e, d, chain[e], attach[e], wrote[e], Mine(reqs, e), note, typed)
  BY Acting
<1>2. /\ d.at = "new" /\ (k # None => note[k].state # "free")
      /\ Only(e, ed, ed', n) /\ Only(e, chain, chain', chain[e])
      /\ UNCHANGED <<note, reqs, attach, typed, wrote>>
  BY Zenon, Acting DEF Open, Only, OfEditors
<1>3. /\ Blank \in Editor /\ Blank.text = 0 /\ Blank.timer = 0 /\ Blank.got.text = 0
      /\ Blank.step = "loading" /\ Blank.files = {} /\ Blank.note = None
  BY BoundsAreNumbers DEF Blank, Editor, Texts, Opt
<1>4. /\ chain[e] = <<>> /\ Len(chain[e]) = 0 /\ attach[e].step = "none" /\ Mine(reqs, e) = {}
      /\ d.step = "loading" /\ d = Blank
  BY <1>1, <1>2, <1>3 DEF EditorOK, Unopened
<1> HIDE DEF d
<1>5. /\ m \in Editor /\ m.at = "mounted" /\ m.step = "loading" /\ m.text = 0 /\ m.timer = 0
      /\ m.got.text = 0 /\ m.files = {}
  BY Zenon, <1>3, WithAt
<1> HIDE DEF m
<1>6. /\ n \in Editor /\ n.at = "mounted" /\ n.step = "loading" /\ n.text = 0 /\ n.timer = 0
      /\ n.got.text = 0 /\ n.files = {} /\ n.note = k
  BY <1>5, WithNote
<1> HIDE DEF n
<1>7. k # None => Known(k, note)
  BY <1>2 DEF Known, Opt
<1> DEFINE q == chain[e]  a == attach[e]  w == wrote[e]  S == Mine(reqs, e)
<1>8. Fits(n, q, a, w, note) /\ AttachedOnce(q, a)
  BY <1>1, <1>6, <1>7 DEF EditorOK, Fits
<1>9. Unopened(n, q, a, S) /\ Placed(n, q, a, S, note) /\ Kept(e, n, q, S, note)
  BY <1>4, <1>6 DEF Unopened, Placed, Kept
<1>10. Unshown(e, n, q, a, w, S, note)
  BY <1>1, <1>4, <1>6 DEF EditorOK, Unshown
<1>11. Bare(e, n, a, S, note)
  BY <1>1, <1>3, <1>4, <1>6 DEF EditorOK, Bare
<1>12. InOrder(n, q, w)
  BY <1>4, <1>6 DEF InOrder
<1>13. Typed(n, q, a, S, typed)
  BY <1>1, <1>4, <1>6, Acting DEF EditorOK, Typed
<1>14. EditorOK(e, n, q, a, w, S, note, typed)
  BY <1>8, <1>9, <1>10, <1>11, <1>12, <1>13 DEF EditorOK
<1> QED
  BY <1>2, <1>14, Quietly

\* The key of a mounted editor is there, or its note is shown.  Whatever the editor wrote
\* before does not count, so nothing is out of order and no row is the editor's.
LEMMA Shows ==
  ASSUME NEW e, NEW d, NEW q, NEW a, NEW w, NEW S \in SUBSET Request, NEW rows, NEW t \in Texts,
         EditorOK(e, d, q, a, w, S, rows, t), d.at = "mounted", d.step # "ready",
         NEW n \in Editor, n.at = d.at, n.note = d.note, d.note = None => n.files = d.files,
         n.step \in {"keyed", "ready"}, n.step = "keyed" => n.note # None,
         n.text <= t, n.got.text <= t,
         n.step = "ready" => n.timer \in {0, n.text},
         n.step = "keyed" => n.timer = d.timer
  PROVE  EditorOK(e, n, q, a, w, S, rows, t)
<1>1. /\ w = 0 /\ a.step # "create" /\ d.step # "ready"
      /\ \A k \in NoteIds : rows[k].by # e
      /\ \A r \in S : ~r.shown
      /\ \A i \in 1 .. Len(q) : ~q[i].shown
  BY DEF EditorOK, Unshown
<1>2. Fits(n, q, a, w, rows)
  BY DEF EditorOK, Fits
<1>3. Unopened(n, q, a, S) /\ AttachedOnce(q, a)
  BY DEF EditorOK, Unopened
<1>4. Unshown(e, n, q, a, w, S, rows)
  BY <1>1 DEF Unshown
<1>5. Placed(n, q, a, S, rows)
  BY DEF EditorOK, Placed
<1>6. Bare(e, n, a, S, rows)
  BY <1>1 DEF EditorOK, Bare
<1>7. Kept(e, n, q, S, rows)
  <2>1. n.note # None => n.note \in NoteIds
    BY DEF EditorOK, Fits, Known
  <2>2. \A r \in S : r.state = "done" => r.note \in NoteIds
    BY DEF EditorOK, Placed, Known
  <2> QED
    BY <1>1, <2>1, <2>2 DEF Kept
<1>8. InOrder(n, q, w)
  <2>1. n.text \in Nat
    BY EditorFields
  <2> QED
    BY <1>1, <2>1 DEF InOrder, Counts
<1>9. Typed(n, q, a, S, t)
  <2>1. t \in Nat /\ 0 <= t
    BY BoundsAreNumbers DEF Texts
  <2>2. n.timer <= t
    BY <2>1 DEF EditorOK, Typed
  <2> QED
    BY <2>2 DEF EditorOK, Typed
<1> QED
  BY <1>2, <1>3, <1>4, <1>5, <1>6, <1>7, <1>8, <1>9 DEF EditorOK

LEMMA MintKeyStep ==
  ASSUME IInv, NEW e \in Editors, MintKey(e)
  PROVE  IInv'
<1> DEFINE d == ed[e]
           m == [d EXCEPT !.step = "ready"]
           x == IF d.dirty THEN d.text ELSE 0
           n == [m EXCEPT !.timer = x]
<1>1. /\ EditorOK(e, d, chain[e], attach[e], wrote[e], Mine(reqs, e), note, typed)
      /\ d \in Editor /\ Mine(reqs, e) \in SUBSET Request /\ typed \in Texts
  BY Acting
<1>2. /\ d.at = "mounted" /\ d.step = "loading" /\ d.note = None
      /\ Only(e, ed, ed', n) /\ Only(e, chain, chain', chain[e])
      /\ UNCHANGED <<note, reqs, attach, typed, wrote>>
  BY Zenon, Acting DEF MintKey, Mounted, Only, OfEditors
<1> HIDE DEF d
<1>3. d.text \in Texts /\ d.text <= typed /\ d.got.text <= typed
  BY <1>1, EditorFields DEF EditorOK, Typed
<1>4. x \in Texts /\ x \in {0, d.text}
  BY <1>3, BoundsAreNumbers DEF Texts
<1> HIDE DEF x
<1>5. /\ m \in Editor /\ m.step = "ready" /\ m.at = d.at /\ m.note = d.note /\ m.text = d.text
      /\ m.files = d.files /\ m.got = d.got
  BY Zenon, <1>1, WithStep
<1> HIDE DEF m
<1>6. /\ n \in Editor /\ n.step = "ready" /\ n.at = d.at /\ n.note = d.note /\ n.text = d.text
      /\ n.files = d.files /\ n.got = d.got /\ n.timer = x
  BY <1>4, <1>5, WithTimer
<1> HIDE DEF n
<1>7. EditorOK(e, n, chain[e], attach[e], wrote[e], Mine(reqs, e), note, typed)
  BY <1>1, <1>2, <1>3, <1>4, <1>6, Shows
<1> QED
  BY <1>2, <1>7, Quietly

LEMMA FetchStep ==
  ASSUME IInv, NEW e \in Editors, Fetch(e)
  PROVE  IInv'
<1> DEFINE d == ed[e]
           x == [text |-> note[d.note].text, files |-> note[d.note].files]
           m == [d EXCEPT !.step = "keyed"]
           n == [m EXCEPT !.got = x]
<1>1. /\ EditorOK(e, d, chain[e], attach[e], wrote[e], Mine(reqs, e), note, typed)
      /\ d \in Editor /\ Mine(reqs, e) \in SUBSET Request /\ typed \in Texts
      /\ RowsOK(note, typed)
  BY Acting
<1>2. /\ d.at = "mounted" /\ d.step = "loading" /\ d.note # None
      /\ Only(e, ed, ed', n) /\ Only(e, chain, chain', chain[e])
      /\ UNCHANGED <<note, reqs, attach, typed, wrote>>
  BY Zenon, Acting DEF Fetch, Mounted, Only, OfEditors
<1> HIDE DEF d
<1>3. d.note \in NoteIds
  BY <1>1, <1>2 DEF EditorOK, Fits, Known
<1>4. /\ note[d.note].text \in Texts /\ note[d.note].files \in SUBSET Files
      /\ note[d.note].text <= typed
  BY <1>1, <1>3 DEF RowsOK, Note
<1>5. x \in [text : Texts, files : SUBSET Files] /\ x.text <= typed
  BY <1>4
<1> HIDE DEF x
<1>6. d.text <= typed
  BY <1>1 DEF EditorOK, Typed
<1>7. /\ m \in Editor /\ m.step = "keyed" /\ m.at = d.at /\ m.note = d.note /\ m.text = d.text
      /\ m.files = d.files /\ m.timer = d.timer
  BY Zenon, <1>1, WithStep
<1> HIDE DEF m
<1>8. /\ n \in Editor /\ n.step = "keyed" /\ n.at = d.at /\ n.note = d.note /\ n.text = d.text
      /\ n.files = d.files /\ n.timer = d.timer /\ n.got = x
  BY <1>5, <1>7, WithGot
<1> HIDE DEF n
<1>9. EditorOK(e, n, chain[e], attach[e], wrote[e], Mine(reqs, e), note, typed)
  BY <1>1, <1>2, <1>5, <1>6, <1>8, Shows
<1> QED
  BY <1>2, <1>9, Quietly

LEMMA ShowStep ==
  ASSUME IInv, NEW e \in Editors, Show(e)
  PROVE  IInv'
<1> DEFINE d == ed[e]
           x == IF d.dirty THEN d.got.text ELSE 0
           k == [d EXCEPT !.step = "ready"]
           l == [k EXCEPT !.text = d.got.text]
           m == [l EXCEPT !.files = d.got.files]
           n == [m EXCEPT !.timer = x]
<1>1. /\ EditorOK(e, d, chain[e], attach[e], wrote[e], Mine(reqs, e), note, typed)
      /\ d \in Editor /\ Mine(reqs, e) \in SUBSET Request /\ typed \in Texts
  BY Acting
<1>2. /\ d.at = "mounted" /\ d.step = "keyed"
      /\ Only(e, ed, ed', n) /\ Only(e, chain, chain', chain[e])
      /\ UNCHANGED <<note, reqs, attach, typed, wrote>>
  BY Zenon, Acting DEF Show, Mounted, Only, OfEditors
<1> HIDE DEF d
<1>3. d.got.text \in Texts /\ d.got.files \in SUBSET Files /\ d.got.text <= typed /\ d.note # None
  BY <1>1, <1>2, EditorFields DEF EditorOK, Typed, Unshown
<1>4. x \in Texts /\ x \in {0, d.got.text}
  BY <1>3, BoundsAreNumbers DEF Texts
<1> HIDE DEF x
<1>5. k \in Editor /\ k.step = "ready" /\ k.at = d.at /\ k.note = d.note /\ k.got = d.got
  BY Zenon, <1>1, WithStep
<1> HIDE DEF k
<1>6. /\ l \in Editor /\ l.step = "ready" /\ l.at = d.at /\ l.note = d.note /\ l.got = d.got
      /\ l.text = d.got.text
  BY <1>3, <1>5, WithText
<1> HIDE DEF l
<1>7. /\ m \in Editor /\ m.step = "ready" /\ m.at = d.at /\ m.note = d.note /\ m.got = d.got
      /\ m.text = d.got.text
  BY <1>3, <1>6, WithFiles
<1> HIDE DEF m
<1>8. /\ n \in Editor /\ n.step = "ready" /\ n.at = d.at /\ n.note = d.note /\ n.got = d.got
      /\ n.text = d.got.text /\ n.timer = x
  BY <1>4, <1>7, WithTimer
<1> HIDE DEF n
<1>9. EditorOK(e, n, chain[e], attach[e], wrote[e], Mine(reqs, e), note, typed)
  BY <1>1, <1>2, <1>3, <1>4, <1>8, Shows
<1> QED
  BY <1>2, <1>9, Quietly

\* The page is left, and nothing else happens.
LEMMA LeftStep ==
  ASSUME IInv, NEW e \in Editors, ed' = Closed(e),
         UNCHANGED <<note, chain, reqs, attach, typed, wrote>>
  PROVE  IInv'
<1>1. /\ EditorOK(e, ed[e], chain[e], attach[e], wrote[e], Mine(reqs, e), note, typed)
      /\ typed \in Texts /\ OfEditors(ed) /\ OfEditors(chain)
  BY Acting
<1>2. Only(e, ed, ed', Close(ed[e])) /\ Only(e, chain, chain', chain[e])
  BY <1>1 DEF Closed, Only, OfEditors
<1>3. EditorOK(e, Close(ed[e]), chain[e], attach[e], wrote[e], Mine(reqs, e), note, typed)
  BY <1>1, Leaving
<1> QED
  BY <1>2, <1>3, Quietly

-----------------------------------------------------------------------------
(* Editing, and asking for a save. *)

LEMMA EditStep ==
  ASSUME IInv, NEW e \in Editors, Edit(e)
  PROVE  IInv'
<1> DEFINE d == ed[e]
           u == typed + 1
           x == IF d.step = "ready" THEN u ELSE 0
           k == [d EXCEPT !.text = u]
           l == [k EXCEPT !.dirty = TRUE]
           m == [l EXCEPT !.status = "idle"]
           n == [m EXCEPT !.timer = x]
<1>1. /\ EditorOK(e, d, chain[e], attach[e], wrote[e], Mine(reqs, e), note, typed)
      /\ d \in Editor /\ Mine(reqs, e) \in SUBSET Request /\ typed \in Texts /\ typed \in Nat
      /\ RowsOK(note, typed) /\ reqs \subseteq Request
  BY Acting DEF IInv
<1>2. /\ d.at = "mounted" /\ typed < MaxText /\ typed' = u
      /\ Only(e, ed, ed', n) /\ Only(e, chain, chain', chain[e])
      /\ Only(e, attach, attach', attach[e]) /\ Only(e, wrote, wrote', wrote[e])
      /\ UNCHANGED <<note, reqs>>
  BY Zenon, Acting DEF Edit, Mounted, Only, OfEditors
<1>3. u \in Texts /\ typed <= u /\ u \in Nat /\ 0 <= u
  BY <1>1, <1>2, BoundsAreNumbers DEF Texts
<1> HIDE DEF d, u
<1>4. x \in Texts /\ x <= u /\ (d.step = "ready" => x = u)
  BY <1>3, BoundsAreNumbers DEF Texts
<1> HIDE DEF x
<1>5. /\ k \in Editor /\ k.at = d.at /\ k.step = d.step /\ k.note = d.note /\ k.files = d.files
      /\ k.got = d.got /\ k.text = u
  BY <1>1, <1>3, WithText
<1> HIDE DEF k
<1>6. /\ l \in Editor /\ l.at = d.at /\ l.step = d.step /\ l.note = d.note /\ l.files = d.files
      /\ l.got = d.got /\ l.text = u
  BY Zenon, <1>5, WithDirty
<1> HIDE DEF l
<1>7. /\ m \in Editor /\ m.at = d.at /\ m.step = d.step /\ m.note = d.note /\ m.files = d.files
      /\ m.got = d.got /\ m.text = u /\ m.status = "idle"
  BY ZenonT(120), <1>6, WithStatus
<1> HIDE DEF m
<1>8. /\ n \in Editor /\ n.at = d.at /\ n.step = d.step /\ n.note = d.note /\ n.files = d.files
      /\ n.got = d.got /\ n.text = u /\ n.status = "idle" /\ n.timer = x
  BY <1>4, <1>7, WithTimer
<1> HIDE DEF n
<1>9. d.text <= u /\ d.got.text <= u
  <2>1. d.text \in Nat /\ d.got.text \in Nat /\ d.text <= typed /\ d.got.text <= typed
    BY <1>1, EditorFields DEF EditorOK, Typed
  <2> QED
    BY <1>1, <1>3, <2>1
<1>10. EditorOK(e, n, chain[e], attach[e], wrote[e], Mine(reqs, e), note, u)
  <2>1. Alike(n, d)
    BY <1>8 DEF Alike
  <2>2. n.text <= u
    BY <1>3, <1>8
  <2> QED
    BY <1>1, <1>2, <1>3, <1>4, <1>8, <1>9, <2>1, <2>2, Rewording
<1>11. RowsOK(note, u)
  <2>1. \A i \in NoteIds : note[i].text \in Nat
    BY <1>1, BoundsAreNumbers DEF RowsOK, Note, Texts
  <2> QED
    BY <1>1, <1>3, <2>1 DEF RowsOK
<1>12. \A o \in Editors \ {e} : Follows(o, note, note')
  BY <1>2, StaysAsItIs
<1> QED
  BY <1>1, <1>2, <1>3, <1>10, <1>11, <1>12, OneEditor

\* What Enqueue queues.
Queueing(e, text, why) == [text |-> text, why |-> why, shown |-> Shown(e)]

LEMMA EnqueueAppends ==
  ASSUME IInv, NEW e \in Editors, NEW text, NEW why, Enqueue(e, text, why)
  PROVE  Only(e, chain, chain', Append(chain[e], Queueing(e, text, why)))
BY Zenon, Acting DEF Enqueue, Only, OfEditors, Queueing

LEMMA QueueingIsSave ==
  ASSUME NEW e, NEW text \in Texts, NEW why \in {"edit", "attach", "back"}
  PROVE  LET s == Queueing(e, text, why)
         IN /\ s \in QueuedSave /\ s.text = text /\ s.why = why
            /\ (s.shown <=> ed[e].step = "ready")
            /\ Counts(s) <=> ed[e].step = "ready" /\ why # "attach"
BY Zenon DEF Queueing, QueuedSave, Shown, Counts

LEMMA AutosaveStep ==
  ASSUME IInv, NEW e \in Editors, Autosave(e)
  PROVE  IInv'
<1> DEFINE d == ed[e]
           n == [d EXCEPT !.timer = 0]
           s == Queueing(e, d.timer, "edit")
<1>1. /\ EditorOK(e, d, chain[e], attach[e], wrote[e], Mine(reqs, e), note, typed)
      /\ d \in Editor /\ Mine(reqs, e) \in SUBSET Request /\ typed \in Texts
  BY Acting
<1>2. d.timer \in Texts /\ 0 \in Texts
  BY <1>1, EditorFields, BoundsAreNumbers DEF Texts
<1>3. /\ d.timer # 0 /\ Len(chain[e]) < MaxChain /\ Only(e, ed, ed', n)
      /\ UNCHANGED <<note, reqs, attach, typed, wrote>> /\ Enqueue(e, d.timer, "edit")
  BY Zenon, Acting DEF Autosave, Room, Only, OfEditors
<1>4. Only(e, chain, chain', Append(chain[e], s))
  BY <1>3, EnqueueAppends
<1>5. /\ s \in QueuedSave /\ s.text = d.timer /\ s.why = "edit" /\ (s.shown <=> d.step = "ready")
      /\ Counts(s) <=> d.step = "ready"
  BY <1>2, QueueingIsSave
<1> HIDE DEF d, s
<1>6. d.at = "mounted" /\ (d.step = "ready" => d.timer = d.text) /\ d.timer <= typed
  BY <1>1, <1>3 DEF EditorOK, Fits, InOrder, Typed
<1>7. /\ n \in Editor /\ n.at = d.at /\ n.step = d.step /\ n.note = d.note /\ n.files = d.files
      /\ n.got = d.got /\ n.text = d.text /\ n.timer = 0
  BY <1>1, <1>2, WithTimer
<1> HIDE DEF n
<1>8. EditorOK(e, n, Append(chain[e], s), attach[e], wrote[e], Mine(reqs, e), note, typed)
  BY <1>1, <1>3, <1>5, <1>6, <1>7, Enqueued
<1> QED
  BY <1>3, <1>4, <1>8, Quietly

LEMMA RemoveAttachmentStep ==
  ASSUME IInv, NEW e \in Editors, NEW f \in Files, RemoveAttachment(e, f)
  PROVE  IInv'
<1> DEFINE d == ed[e]
           x == d.files \ {f}
           m == [d EXCEPT !.files = x]
           n == [m EXCEPT !.dirty = TRUE]
           s == Queueing(e, d.text, "edit")
<1>1. /\ EditorOK(e, d, chain[e], attach[e], wrote[e], Mine(reqs, e), note, typed)
      /\ d \in Editor /\ Mine(reqs, e) \in SUBSET Request /\ typed \in Texts
  BY Acting
<1>2. d.text \in Texts /\ x \in SUBSET Files
  BY <1>1, EditorFields
<1>3. /\ d.at = "mounted" /\ f \in d.files /\ Len(chain[e]) < MaxChain /\ Only(e, ed, ed', n)
      /\ UNCHANGED <<note, reqs, attach, typed, wrote>> /\ Enqueue(e, d.text, "edit")
  BY Zenon, Acting DEF RemoveAttachment, Mounted, Room, Only, OfEditors
<1>4. Only(e, chain, chain', Append(chain[e], s))
  BY <1>3, EnqueueAppends
<1>5. /\ s \in QueuedSave /\ s.text = d.text /\ s.why = "edit" /\ (s.shown <=> d.step = "ready")
      /\ Counts(s) <=> d.step = "ready"
  BY <1>2, QueueingIsSave
<1> HIDE DEF d, s, x
<1>6. ~(d.note = None \/ attach[e].step = "create") /\ d.text <= typed
  BY <1>1, <1>3 DEF EditorOK, Bare, Typed
<1>7. /\ m \in Editor /\ m.at = d.at /\ m.step = d.step /\ m.note = d.note
      /\ m.got = d.got /\ m.text = d.text /\ m.timer = d.timer
  BY <1>1, <1>2, WithFiles
<1> HIDE DEF m
<1>8. /\ n \in Editor /\ n.at = d.at /\ n.step = d.step /\ n.note = d.note
      /\ n.got = d.got /\ n.text = d.text /\ n.timer = d.timer
  BY Zenon, <1>7, WithDirty
<1> HIDE DEF n
<1>9. EditorOK(e, n, Append(chain[e], s), attach[e], wrote[e], Mine(reqs, e), note, typed)
  BY <1>1, <1>3, <1>5, <1>6, <1>8, Enqueued
<1> QED
  BY <1>3, <1>4, <1>9, Quietly

LEMMA BackStep ==
  ASSUME IInv, NEW e \in Editors, Back(e)
  PROVE  IInv'
<1> DEFINE d == ed[e]
           s == Queueing(e, d.text, "back")
<1>1. CASE ~ed[e].dirty /\ ed' = Closed(e) /\ UNCHANGED chain
  BY <1>1, LeftStep DEF Back
<1>2. CASE ed[e].dirty /\ Room(e) /\ Enqueue(e, ed[e].text, "back") /\ UNCHANGED ed
  <2>1. /\ EditorOK(e, d, chain[e], attach[e], wrote[e], Mine(reqs, e), note, typed)
        /\ d \in Editor /\ Mine(reqs, e) \in SUBSET Request /\ typed \in Texts
    BY Acting
  <2>2. d.text \in Texts
    BY <2>1, EditorFields
  <2>3. /\ d.at = "mounted" /\ Len(chain[e]) < MaxChain /\ Only(e, ed, ed', d)
        /\ UNCHANGED <<note, reqs, attach, typed, wrote>> /\ Enqueue(e, d.text, "back")
    BY <1>2, Acting DEF Back, Mounted, Room, Only, OfEditors
  <2>4. Only(e, chain, chain', Append(chain[e], s))
    BY <2>3, EnqueueAppends
  <2>5. /\ s \in QueuedSave /\ s.text = d.text /\ s.why = "back" /\ (s.shown <=> d.step = "ready")
        /\ Counts(s) <=> d.step = "ready"
    BY <2>2, QueueingIsSave
  <2> HIDE DEF d, s
  <2>6. d.text <= typed
    BY <2>1 DEF EditorOK, Typed
  <2>7. EditorOK(e, d, Append(chain[e], s), attach[e], wrote[e], Mine(reqs, e), note, typed)
    BY <2>1, <2>3, <2>5, <2>6, Enqueued
  <2> QED
    BY <2>3, <2>4, <2>7, Quietly
<1> QED
  BY <1>1, <1>2 DEF Back

-----------------------------------------------------------------------------
(* The saves of the chain. *)

\* The requests of the chain are those of the editor that are not of addAttachment.
LEMMA SavesAreMine ==
  ASSUME NEW e, NEW r
  PROVE  /\ r \in Saves(e) <=> r \in Mine(reqs, e) /\ r.why # "file"
         /\ r \in Steps(e) <=> r \in Mine(reqs, e) /\ r.why = "file"
BY DEF Saves, Steps, Mine

\* The head of the chain is settled, with the editor n.
LEMMA SettledStep ==
  ASSUME IInv, NEW e \in Editors, NEW n \in Editor, NEW ok \in BOOLEAN,
         chain[e] # <<>>, Settled(e, ok, n),
         reqs' \subseteq reqs, \A o \in Editors \ {e} : Mine(reqs', o) = Mine(reqs, o),
         \A r \in Mine(reqs', e) : r.why = "file",
         UNCHANGED <<note, typed, wrote>>,
         n.at = ed[e].at, n.step = ed[e].step, n.text = ed[e].text, n.files = ed[e].files,
         n.got = ed[e].got, n.timer = ed[e].timer,
         n.note # None => Known(n.note, note), n.note = None => ed[e].note = None,
         n.note # None /\ Len(chain[e]) = 1 /\ n.step = "ready" /\ n.status = "saved" /\
           note[n.note].by = e /\ note[n.note].state = "live" => note[n.note].files = n.files
  PROVE  IInv'
<1> DEFINE d == ed[e]
           q == chain[e]
           b == IF q[1].why = "attach" THEN NoAttach ELSE attach[e]
           S == Mine(reqs', e)
           w == wrote[e]
<1>1. /\ EditorOK(e, d, q, attach[e], w, Mine(reqs, e), note, typed)
      /\ d \in Editor /\ typed \in Texts /\ typed \in Nat /\ RowsOK(note, typed)
      /\ Mine(reqs, e) \subseteq Request
  BY Acting
<1>2. Len(q) \in Nat /\ Len(q) > 0 /\ Head(q) = q[1]
  <2>1. q \in Seq(QueuedSave)
    BY <1>1 DEF EditorOK, Fits
  <2> QED
    BY <2>1
<1>3. S \subseteq Mine(reqs, e) /\ S \in SUBSET Request /\ reqs' \subseteq Request
  BY <1>1 DEF Mine, IInv
<1>4. EditorOK(e, d, q, attach[e], w, S, note, typed)
  BY <1>1, <1>3, Answered
<1>5. EditorOK(e, n, Tail(q), b, w, S, note, typed)
  BY ZenonT(120), <1>1, <1>2, <1>3, <1>4, Dequeued
<1>6. EditorOK(e, Close(n), Tail(q), b, w, S, note, typed)
  BY <1>1, <1>5, Leaving
<1>7. PICK c : /\ Only(e, ed, ed', c) /\ (c = n \/ c = Close(n))
  <2>1. Only(e, ed, ed', IF ed[e].at = "left" \/ (ok /\ Head(chain[e]).why = "back")
                           THEN Close(n) ELSE n)
    BY Zenon, Acting DEF Settled, Only, OfEditors
  <2> QED
    BY <2>1
<1>8. Only(e, chain, chain', Tail(q)) /\ Only(e, wrote, wrote', w)
  BY Zenon, Acting DEF Settled, Only, OfEditors
<1>9. Only(e, attach, attach', b)
  BY <1>2, Acting DEF Settled, Only, OfEditors
<1>10. EditorOK(e, c, Tail(q), b, w, S, note', typed')
  BY <1>5, <1>6, <1>7
<1>11. typed <= typed' /\ typed' \in Texts /\ RowsOK(note', typed')
  BY <1>1
<1>12. \A o \in Editors \ {e} : Follows(o, note, note')
  BY StaysAsItIs
<1> HIDE DEF d, q, b, S, w
<1> QED
  BY <1>3, <1>7, <1>8, <1>9, <1>10, <1>11, <1>12, OneEditor DEF S

LEMMA SkipSaveStep ==
  ASSUME IInv, NEW e \in Editors, SkipSave(e)
  PROVE  IInv'
<1>1. /\ EditorOK(e, ed[e], chain[e], attach[e], wrote[e], Mine(reqs, e), note, typed)
      /\ ed[e] \in Editor
  BY Acting
<1>2. ed[e].note # None => Known(ed[e].note, note)
  BY <1>1 DEF EditorOK, Fits
<1>3. \A r \in Mine(reqs, e) : r.why = "file"
  BY SavesAreMine DEF SkipSave
<1>4. ed[e].note = None \/ ed[e].step # "ready"
  BY Zenon DEF SkipSave, Nothing, Keyed
<1>5. PICK ok \in BOOLEAN : Settled(e, ok, ed[e])
  BY Zenon DEF SkipSave
<1>6. chain[e] # <<>> /\ UNCHANGED <<note, reqs, typed, wrote>>
  BY DEF SkipSave
<1> QED
  BY <1>1, <1>2, <1>3, <1>4, <1>5, <1>6, SettledStep

\* Without the one request of the chain there is none.
LEMMA WithoutSave ==
  ASSUME IInv, NEW e \in Editors, NEW r \in Saves(e), reqs' = reqs \ {r}
  PROVE  /\ reqs' \subseteq reqs /\ \A o \in Editors \ {e} : Mine(reqs', o) = Mine(reqs, o)
         /\ \A p \in Mine(reqs', e) : p.why = "file"
         /\ chain[e] # <<>>
<1>1. EditorOK(e, ed[e], chain[e], attach[e], wrote[e], Mine(reqs, e), note, typed)
  BY Acting
<1>2. r \in Mine(reqs, e) /\ r.why # "file"
  BY SavesAreMine
<1>3. \A p \in Mine(reqs, e) : p.why # "file" => p = r
  BY <1>1, <1>2 DEF EditorOK, Placed
<1>4. Len(chain[e]) > 0
  BY <1>1, <1>2 DEF EditorOK, Placed
<1> QED
  BY <1>2, <1>3, <1>4 DEF Mine

LEMMA SaveFailedStep ==
  ASSUME IInv, NEW e \in Editors, SaveFailed(e)
  PROVE  IInv'
<1>1. PICK r \in Saves(e) : /\ reqs' = reqs \ {r}
                            /\ Settled(e, FALSE, [ed[e] EXCEPT !.status = "error"])
                            /\ UNCHANGED <<note, typed, wrote>>
  BY Zenon DEF SaveFailed
<1> DEFINE n == [ed[e] EXCEPT !.status = "error"]
<1>2. /\ EditorOK(e, ed[e], chain[e], attach[e], wrote[e], Mine(reqs, e), note, typed)
      /\ ed[e] \in Editor
  BY Acting
<1>3. /\ n \in Editor /\ n.at = ed[e].at /\ n.step = ed[e].step /\ n.text = ed[e].text
      /\ n.files = ed[e].files /\ n.got = ed[e].got /\ n.timer = ed[e].timer
      /\ n.note = ed[e].note /\ n.status = "error"
  BY Zenon, <1>2, WithStatus
<1>4. Settled(e, FALSE, n)
  BY Zenon, <1>1
<1> HIDE DEF n
<1>5. n.note # None => Known(n.note, note)
  BY <1>2, <1>3 DEF EditorOK, Fits
<1> QED
  BY Zenon, <1>1, <1>3, <1>4, <1>5, WithoutSave, SettledStep

LEMMA SaveDoneStep ==
  ASSUME IInv, NEW e \in Editors, SaveDone(e)
  PROVE  IInv'
<1>1. PICK r \in Saves(e) :
         /\ r.state = "done" /\ reqs' = reqs \ {r}
         /\ Settled(e, TRUE, [ed[e] EXCEPT !.note = r.note, !.dirty = FALSE, !.status = "saved"])
         /\ UNCHANGED <<note, typed, wrote>>
  BY Zenon DEF SaveDone
<1> DEFINE d == ed[e]
           k == [d EXCEPT !.note = r.note]
           l == [k EXCEPT !.dirty = FALSE]
           n == [l EXCEPT !.status = "saved"]
<1>2. /\ EditorOK(e, d, chain[e], attach[e], wrote[e], Mine(reqs, e), note, typed)
      /\ d \in Editor
  BY Acting
<1>3. r \in Mine(reqs, e) /\ r.why # "file"
  BY SavesAreMine
<1>4. Settled(e, TRUE, n)
  BY Zenon, <1>1
<1>5. Known(r.note, note) /\ r.note \in Opt(NoteIds) /\ r.note # None
  BY <1>1, <1>2, <1>3, NoneIsNothing DEF EditorOK, Placed, Known, Opt
<1>6. /\ k \in Editor /\ k.at = d.at /\ k.step = d.step /\ k.text = d.text
      /\ k.files = d.files /\ k.got = d.got /\ k.timer = d.timer /\ k.note = r.note
  BY <1>2, <1>5, WithNote
<1> HIDE DEF k
<1>7. /\ l \in Editor /\ l.at = d.at /\ l.step = d.step /\ l.text = d.text
      /\ l.files = d.files /\ l.got = d.got /\ l.timer = d.timer /\ l.note = r.note
  BY Zenon, <1>6, WithDirty
<1> HIDE DEF l
<1>8. /\ n \in Editor /\ n.at = d.at /\ n.step = d.step /\ n.text = d.text
      /\ n.files = d.files /\ n.got = d.got /\ n.timer = d.timer /\ n.note = r.note
  BY ZenonT(120), <1>7, WithStatus
<1> HIDE DEF n
<1>9. Len(chain[e]) = 1 /\ note[r.note].by = e /\ note[r.note].state = "live" =>
        note[r.note].files = d.files
  <2>1. /\ note[r.note].by = e /\ note[r.note].state = "live" =>
             r.shown /\ note[r.note].files = r.files
        /\ r.shown /\ Len(chain[e]) = 1 => r.files = d.files
    BY <1>1, <1>2, <1>3 DEF EditorOK, Kept
  <2> QED
    BY <2>1
<1> QED
  BY ZenonT(120), <1>1, <1>4, <1>5, <1>8, <1>9, WithoutSave, SettledStep

\* A request of e more.
LEMMA OneMore ==
  ASSUME IInv, NEW e \in Editors, NEW r \in Request, r.ed = e, reqs' = reqs \cup {r}
  PROVE  /\ reqs' \subseteq Request /\ Mine(reqs', e) = Mine(reqs, e) \cup {r}
         /\ \A o \in Editors \ {e} : Mine(reqs', o) = Mine(reqs, o)
BY DEF IInv, Mine

\* A request as it is asked.
LEMMA AskedRequest ==
  ASSUME IInv, NEW e \in Editors, NEW kind \in {"create", "patch", "upload"},
         NEW n \in Opt(NoteIds), NEW s,
         s.text \in Texts, s.shown \in BOOLEAN, s.why \in {"edit", "attach", "back", "file"}
  PROVE  LET r == Asked(e, kind, n, s)
         IN /\ r \in Request /\ r.ed = e /\ r.kind = kind /\ r.note = n /\ r.why = s.why
            /\ r.text = s.text /\ r.shown = s.shown /\ r.files = ed[e].files /\ r.state = "sent"
<1>1. ed[e].files \in SUBSET Files
  BY Acting, EditorFields
<1> QED
  BY <1>1 DEF Asked, Request

LEMMA RunSaveStep ==
  ASSUME IInv, NEW e \in Editors, RunSave(e)
  PROVE  IInv'
<1> DEFINE d == ed[e]
           q == chain[e]
           x == IF d.at = "mounted" THEN "saving" ELSE d.status
           n == [d EXCEPT !.status = x]
           kind == IF d.note = None THEN "create" ELSE "patch"
           r == Asked(e, kind, d.note, q[1])
           S == Mine(reqs, e)
<1>1. /\ EditorOK(e, d, q, attach[e], wrote[e], S, note, typed)
      /\ d \in Editor /\ S \in SUBSET Request /\ typed \in Texts /\ typed \in Nat
      /\ RowsOK(note, typed)
  BY Acting
<1>2. /\ q \in Seq(QueuedSave) /\ q # <<>> /\ Len(q) > 0 /\ Head(q) = q[1]
      /\ q[1] \in QueuedSave /\ 1 \in 1 .. Len(q)
  <2>1. q \in Seq(QueuedSave) /\ q # <<>>
    BY <1>1 DEF EditorOK, Fits, RunSave
  <2>2. Len(q) > 0
    BY <2>1
  <2> QED
    BY <2>1, <2>2, Dropped
<1>3. /\ Only(e, ed, ed', n) /\ Only(e, chain, chain', q)
      /\ Only(e, attach, attach', attach[e]) /\ Only(e, wrote, wrote', wrote[e])
      /\ UNCHANGED <<note, typed>>
  BY Zenon, Acting DEF RunSave, Mounted, Only, OfEditors
<1>4. reqs' = reqs \cup {r} /\ d.step # "loading"
  BY <1>2 DEF RunSave, Send, Keyed
<1>5. \A o \in S : o.why = "file"
  BY SavesAreMine DEF RunSave
<1>6. d.note \in Opt(NoteIds) /\ (d.note # None => Known(d.note, note))
  BY <1>1 DEF EditorOK, Fits, Editor
<1>7. q[1].text \in Texts /\ q[1].shown \in BOOLEAN /\ q[1].why \in {"edit", "attach", "back"}
  BY <1>2, SaveFields
<1>8. /\ r \in Request /\ r.ed = e /\ r.kind = kind /\ r.note = d.note /\ r.why = q[1].why
      /\ r.text = q[1].text /\ r.shown = q[1].shown /\ r.files = d.files /\ r.state = "sent"
  BY <1>6, <1>7, AskedRequest
<1> HIDE DEF d, q, r
<1>9. x \in {"idle", "saving", "saved", "error"} /\ x \in {d.status, "saving"}
  BY <1>1 DEF Editor
<1> HIDE DEF x
<1>10. /\ n \in Editor /\ n.at = d.at /\ n.step = d.step /\ n.note = d.note /\ n.files = d.files
       /\ n.got = d.got /\ n.text = d.text /\ n.timer = d.timer /\ n.status = x
  BY ZenonT(120), <1>1, <1>9, WithStatus
<1> HIDE DEF n
<1>11. d.at # "new"
  <2>1. d.at = "new" => q = <<>>
    BY <1>1 DEF EditorOK, Unopened
  <2> QED
    BY <1>2, <2>1
<1>12. EditorOK(e, n, q, attach[e], wrote[e], S, note, typed)
  <2>1. Alike(n, d)
    BY <1>10 DEF Alike
  <2>2. d.text \in Nat /\ d.text <= d.text /\ typed <= typed
    BY <1>1, EditorFields
  <2>3. /\ d.at # "mounted" => d.timer = 0
        /\ d.at = "mounted" /\ d.step = "ready" => d.timer \in {0, d.text}
        /\ d.text <= typed /\ d.got.text <= typed /\ d.timer <= typed
    BY <1>1 DEF EditorOK, Fits, InOrder, Typed
  <2> QED
    BY <1>1, <1>9, <1>10, <1>11, <2>1, <2>2, <2>3, Rewording
<1>13. EditorOK(e, n, q, attach[e], wrote[e], S \cup {r}, note, typed)
  <2>1. attach[e] \in Attach /\ attach[e].text <= typed
    BY <1>1 DEF EditorOK, Fits, Typed
  <2>2. r.text <= typed
    BY <1>1, <1>2, <1>8 DEF EditorOK, Typed
  <2>3. q[1].shown => d.step = "ready"
    BY <1>1, <1>2 DEF EditorOK, Unshown
  <2>4. r.kind # "create" => Known(r.note, note)
    BY <1>6, <1>8
  <2>5. r.why # "file" /\ r.kind # "upload"
    BY <1>7, <1>8
  <2> QED
    BY ZenonT(120), <1>1, <1>2, <1>5, <1>8, <1>10, <1>11, <1>12, <2>1, <2>2, <2>3, <2>4, <2>5, Asks
<1>14. /\ reqs' \subseteq Request /\ Mine(reqs', e) = S \cup {r}
       /\ \A o \in Editors \ {e} : Mine(reqs', o) = Mine(reqs, o)
  BY Zenon, <1>4, <1>8, OneMore
<1>15. typed <= typed' /\ typed' \in Texts /\ RowsOK(note', typed')
  BY <1>1, <1>3
<1>16. \A o \in Editors \ {e} : Follows(o, note, note')
  BY <1>3, StaysAsItIs
<1>17. EditorOK(e, n, q, attach[e], wrote[e], Mine(reqs', e), note', typed')
  BY <1>3, <1>13, <1>14
<1> HIDE DEF S
<1> QED
  BY <1>3, <1>14, <1>15, <1>16, <1>17, OneEditor

-----------------------------------------------------------------------------
(* Requests that are served, refused or lost. *)

\* What an answer puts in the place of r.
Reply(r, state, n) == [[r EXCEPT !.state = state] EXCEPT !.note = n]

LEMMA ReplyFields ==
  ASSUME NEW r \in Request, NEW state \in {"sent", "done", "failed"}, NEW n \in Opt(NoteIds)
  PROVE  LET p == Reply(r, state, n)
         IN p \in Request /\ Answers(p, r) /\ p.state = state /\ p.note = n
<1> DEFINE k == [r EXCEPT !.state = state]
           p == [k EXCEPT !.note = n]
<1>1. k \in Request /\ Answers(k, r) /\ k.state = state
  BY DEF Request, Answers
<1> HIDE DEF k
<1>2. p \in Request /\ Answers(p, k) /\ p.state = k.state /\ p.note = n
  BY <1>1 DEF Request, Answers
<1>3. Answers(p, r)
  BY <1>1, <1>2 DEF Answers
<1> QED
  BY <1>1, <1>2, <1>3 DEF Reply, k

\* One request of e is answered.
LEMMA AnswerStep ==
  ASSUME IInv, NEW e \in Editors, NEW r \in Mine(reqs, e),
         NEW state \in {"done", "failed"}, NEW n \in Opt(NoteIds), Answer(r, state, n)
  PROVE  LET p == Reply(r, state, n)
         IN /\ reqs' \subseteq Request
            /\ Mine(reqs', e) = (Mine(reqs, e) \ {r}) \cup {p}
            /\ \A o \in Editors \ {e} : Mine(reqs', o) = Mine(reqs, o)
<1> DEFINE p == Reply(r, state, n)
<1>1. r \in Request /\ r \in reqs /\ r.ed = e
  BY DEF Mine, IInv
<1>2. p \in Request /\ p.ed = e
  BY <1>1, ReplyFields DEF Answers
<1>3. reqs' = (reqs \ {r}) \cup {p}
  BY DEF Answer, Reply
<1> HIDE DEF p
<1>4. reqs' \subseteq Request
  BY <1>2, <1>3 DEF IInv
<1> QED
  BY <1>1, <1>2, <1>3, <1>4 DEF Mine, p

\* Rows and the other parts of the state stay.
LEMMA RepliedStep ==
  ASSUME IInv, NEW e \in Editors, NEW r \in Mine(reqs, e),
         NEW state \in {"done", "failed"}, Answer(r, state, r.note),
         r.kind # "create" \/ state = "done" => Known(r.note, note),
         r.why # "file" => state # "done",
         UNCHANGED <<note, ed, chain, attach, typed, wrote>>
  PROVE  IInv'
<1> DEFINE p == Reply(r, state, r.note)
           S == Mine(reqs, e)
<1>1. /\ EditorOK(e, ed[e], chain[e], attach[e], wrote[e], S, note, typed)
      /\ S \in SUBSET Request /\ typed \in Texts /\ typed \in Nat /\ RowsOK(note, typed)
      /\ OfEditors(ed) /\ OfEditors(chain) /\ OfEditors(attach) /\ OfEditors(wrote)
  BY Acting
<1>2. r \in Request /\ r.note \in Opt(NoteIds)
  BY <1>1 DEF Request
<1>3. Answers(p, r) /\ p.state = state /\ p.note = r.note
  BY <1>2, ReplyFields
<1>4. /\ reqs' \subseteq Request /\ Mine(reqs', e) = (S \ {r}) \cup {p}
      /\ \A o \in Editors \ {e} : Mine(reqs', o) = Mine(reqs, o)
  BY <1>2, AnswerStep
<1> HIDE DEF p
<1>5. EditorOK(e, ed[e], chain[e], attach[e], wrote[e], (S \ {r}) \cup {p}, note, typed)
  <2>1. /\ p.kind # "create" \/ p.state = "done" => Known(p.note, note)
        /\ p.why # "file" => p.state # "done"
    BY <1>3 DEF Answers
  <2> QED
    BY <1>1, <1>3, <2>1, Replied
<1>6. /\ Only(e, ed, ed', ed[e]) /\ Only(e, chain, chain', chain[e])
      /\ Only(e, attach, attach', attach[e]) /\ Only(e, wrote, wrote', wrote[e])
  BY <1>1, Same
<1>7. typed <= typed' /\ typed' \in Texts /\ RowsOK(note', typed')
  BY <1>1
<1>8. \A o \in Editors \ {e} : Follows(o, note, note')
  BY StaysAsItIs
<1>9. EditorOK(e, ed[e], chain[e], attach[e], wrote[e], Mine(reqs', e), note', typed')
  BY <1>4, <1>5
<1> HIDE DEF S
<1> QED
  BY <1>4, <1>6, <1>7, <1>8, <1>9, OneEditor

LEMMA FailsStep ==
  ASSUME IInv, NEW e \in Editors, NEW r \in Mine(reqs, e), Fails(r)
  PROVE  IInv'
<1>1. EditorOK(e, ed[e], chain[e], attach[e], wrote[e], Mine(reqs, e), note, typed)
  BY Acting
<1>2. r.kind # "create" => Known(r.note, note)
  BY <1>1 DEF EditorOK, Placed
<1> QED
  BY <1>2, RepliedStep DEF Fails

LEMMA UploadStep ==
  ASSUME IInv, NEW e \in Editors, NEW r \in Mine(reqs, e), Upload(r)
  PROVE  IInv'
<1>1. EditorOK(e, ed[e], chain[e], attach[e], wrote[e], Mine(reqs, e), note, typed)
  BY Acting
<1>2. r.kind = "upload" /\ Known(r.note, note) /\ r.why = "file"
  BY <1>1 DEF EditorOK, Placed, Upload
<1> QED
  BY <1>2, RepliedStep DEF Upload

\* A row as a save writes it.
LEMMA RowFields ==
  ASSUME NEW text \in Texts, NEW files \in SUBSET Files, NEW by \in Opt(Editors)
  PROVE  LET x == Row(text, files, by)
         IN /\ x \in Note /\ x.state = "live" /\ x.text = text /\ x.files = files /\ x.by = by
BY DEF Row, Note

\* The row m is written by the request r.
LEMMA WrittenStep ==
  ASSUME IInv, NEW e \in Editors, NEW r \in Mine(reqs, e), NEW m \in NoteIds,
         r.state = "sent",
         \/ r.kind = "create" /\ note[m].state = "free"
         \/ r.kind = "patch" /\ r.note = m,
         note' = [note EXCEPT ![m] = Row(r.text, r.files, Writer(r))],
         Answer(r, "done", m), Wrote(r), UNCHANGED <<ed, chain, attach, typed>>
  PROVE  IInv'
<1> DEFINE p == Reply(r, "done", m)
           S == Mine(reqs, e)
           v == Latest(r, wrote[e])
           x == Row(r.text, r.files, Writer(r))
<1>1. /\ EditorOK(e, ed[e], chain[e], attach[e], wrote[e], S, note, typed)
      /\ S \in SUBSET Request /\ typed \in Texts /\ typed \in Nat /\ RowsOK(note, typed)
      /\ OfEditors(ed) /\ OfEditors(chain) /\ OfEditors(attach) /\ OfEditors(wrote)
  BY Acting
<1>2. /\ r \in Request /\ m \in Opt(NoteIds) /\ r.text \in Texts /\ r.files \in SUBSET Files
      /\ r.ed = e
  BY <1>1 DEF Request, Opt, Mine
<1>3. Answers(p, r) /\ p.state = "done" /\ p.note = m
  BY <1>2, ReplyFields
<1>4. /\ reqs' \subseteq Request /\ Mine(reqs', e) = (S \ {r}) \cup {p}
      /\ \A o \in Editors \ {e} : Mine(reqs', o) = Mine(reqs, o)
  BY <1>2, AnswerStep
<1> HIDE DEF p
<1>5. Writer(r) \in Opt(Editors)
  BY <1>2 DEF Writer, Opt
<1>6. x \in Note /\ x.state = "live" /\ x.text = r.text /\ x.files = r.files /\ x.by = Writer(r)
  BY <1>2, <1>5, RowFields
<1>7. /\ note' \in [NoteIds -> Note] /\ note'[m] = x
      /\ \A n \in NoteIds \ {m} : note'[n] = note[n]
  BY <1>1, <1>6 DEF RowsOK
<1> HIDE DEF x
<1>8. RowsOK(note', typed)
  <2>1. r.text <= typed
    BY <1>1 DEF EditorOK, Typed
  <2> QED
    BY <1>1, <1>6, <1>7, <2>1 DEF RowsOK
<1>9. EditorOK(e, ed[e], chain[e], attach[e], v, (S \ {r}) \cup {p}, note', typed)
  <2>1. note'[m].state = "live" /\ note'[m].files = r.files /\ note'[m].by = Writer(r)
    BY <1>6, <1>7
  <2>2. Writes(r, m, note, note')
    BY <1>7, <2>1 DEF Writes
  <2> QED
    BY <1>1, <1>2, <1>3, <2>2, Written
<1>10. ASSUME NEW o \in Editors \ {e}
       PROVE  Follows(o, note, note')
  <2>1. Writer(r) # o
    BY <1>2, NoneIsNothing DEF Writer
  <2> QED
    BY <1>6, <1>7, <2>1 DEF Follows
<1>11. Only(e, wrote, wrote', v)
  BY <1>1, <1>2 DEF Wrote, Latest, Only, OfEditors
<1>12. /\ Only(e, ed, ed', ed[e]) /\ Only(e, chain, chain', chain[e])
       /\ Only(e, attach, attach', attach[e])
  BY <1>1, Same
<1>13. typed <= typed' /\ typed' \in Texts /\ RowsOK(note', typed')
  BY <1>1, <1>8
<1>14. EditorOK(e, ed[e], chain[e], attach[e], v, Mine(reqs', e), note', typed')
  BY <1>4, <1>9
<1> HIDE DEF S, v
<1> QED
  BY Zenon, <1>4, <1>10, <1>11, <1>12, <1>13, <1>14, OneEditor

LEMMA CreateStep ==
  ASSUME IInv, NEW e \in Editors, NEW r \in Mine(reqs, e), Create(r)
  PROVE  IInv'
<1>1. PICK m \in NoteIds :
        /\ note[m].state = "free"
        /\ note' = [note EXCEPT ![m] = Row(r.text, r.files, Writer(r))]
        /\ Answer(r, "done", m)
  BY Zenon DEF Create
<1> QED
  BY <1>1, WrittenStep DEF Create

LEMMA PatchStep ==
  ASSUME IInv, NEW e \in Editors, NEW r \in Mine(reqs, e), Patch(r)
  PROVE  IInv'
<1>1. EditorOK(e, ed[e], chain[e], attach[e], wrote[e], Mine(reqs, e), note, typed)
  BY Acting
<1>2. r.note \in NoteIds
  BY <1>1 DEF EditorOK, Placed, Known, Patch
<1> QED
  BY Zenon, <1>2, WrittenStep DEF Patch

\* A request of e is answered, whatever it is for.
LEMMA AnswerIsServed ==
  ASSUME IInv, NEW e \in Editors, ServedSave(e) \/ ServedStep(e)
  PROVE  IInv'
<1>1. PICK r \in Mine(reqs, e) : Served(r)
  BY SavesAreMine DEF ServedSave, ServedStep
<1> QED
  BY <1>1, CreateStep, PatchStep, UploadStep, FailsStep DEF Served

-----------------------------------------------------------------------------
(* Attachments. *)

LEMMA AddAttachmentStep ==
  ASSUME IInv, NEW e \in Editors, NEW f \in Files, AddAttachment(e, f)
  PROVE  IInv'
<1> DEFINE d == ed[e]
           a == attach[e]
           kind == IF d.note = None THEN "create" ELSE "upload"
           b == [step |-> kind, text |-> d.text, file |-> {f}]
           s == AskedNow(e)
           r == Asked(e, kind, d.note, s)
           S == Mine(reqs, e)
<1>1. /\ EditorOK(e, d, chain[e], a, wrote[e], S, note, typed)
      /\ d \in Editor /\ S \in SUBSET Request /\ typed \in Texts /\ typed \in Nat
      /\ RowsOK(note, typed) /\ OfEditors(ed) /\ OfEditors(chain) /\ OfEditors(attach)
      /\ OfEditors(wrote)
  BY Acting
<1>2. /\ d.at = "mounted" /\ d.step # "loading" /\ a.step = "none"
      /\ Only(e, ed, ed', d) /\ Only(e, chain, chain', chain[e])
      /\ Only(e, attach, attach', b) /\ Only(e, wrote, wrote', wrote[e])
      /\ UNCHANGED <<note, typed>>
  BY Zenon, <1>1 DEF AddAttachment, Mounted, Keyed, Only, OfEditors
<1>3. reqs' = reqs \cup {r}
  BY DEF AddAttachment, Send
<1>4. d.note \in Opt(NoteIds) /\ (d.note # None => Known(d.note, note))
  BY <1>1 DEF EditorOK, Fits, Editor
<1>5. d.text \in Texts
  BY <1>1, EditorFields
<1>6. /\ s.text = d.text /\ s.why = "file" /\ s.shown \in BOOLEAN
      /\ s.shown <=> d.step = "ready"
  BY Zenon DEF AskedNow, Shown
<1> HIDE DEF s
<1>7. /\ r \in Request /\ r.ed = e /\ r.kind = kind /\ r.note = d.note /\ r.why = "file"
      /\ r.text = d.text /\ r.shown = s.shown /\ r.files = d.files /\ r.state = "sent"
  BY <1>4, <1>5, <1>6, AskedRequest
<1> HIDE DEF r
<1>8. b \in Attach /\ b.step = kind /\ b.text = d.text
  BY <1>5 DEF Attach
<1> HIDE DEF b, d
<1>9. d.text <= typed /\ (d.note = None => d.step = "ready")
  <2>1. d.step = "keyed" => d.note # None
    BY <1>1 DEF EditorOK, Unshown
  <2> QED
    BY <1>1, <1>2, <2>1 DEF EditorOK, Typed, Editor
<1>10. \A o \in S : o.why # "file"
  <2>1. \A o \in S : o.kind # "none"
    BY <1>1 DEF Request
  <2> QED
    BY <1>1, <1>2, <2>1 DEF EditorOK, Placed
<1>11. EditorOK(e, d, chain[e], b, wrote[e], S \cup {r}, note, typed)
  <2>1. /\ r.kind # "create" => Known(r.note, note)
        /\ r.shown => d.step = "ready"
        /\ r.text <= typed /\ b.text <= typed
    BY <1>4, <1>6, <1>7, <1>8, <1>9
  <2>2. /\ r.kind = b.step /\ r.kind # "patch"
        /\ r.kind = "upload" => d.note # None
        /\ r.kind = "create" => d.note = None /\ d.step = "ready"
    BY <1>7, <1>8, <1>9
  <2> QED
    BY <1>1, <1>2, <1>7, <1>8, <1>10, <2>1, <2>2, Asks
<1>12. /\ reqs' \subseteq Request /\ Mine(reqs', e) = S \cup {r}
       /\ \A o \in Editors \ {e} : Mine(reqs', o) = Mine(reqs, o)
  BY <1>3, <1>7, OneMore
<1>13. typed <= typed' /\ typed' \in Texts /\ RowsOK(note', typed')
  BY <1>1, <1>2
<1>14. \A o \in Editors \ {e} : Follows(o, note, note')
  BY <1>2, StaysAsItIs
<1>15. EditorOK(e, d, chain[e], b, wrote[e], Mine(reqs', e), note', typed')
  BY <1>2, <1>11, <1>12
<1> HIDE DEF S
<1> QED
  BY <1>2, <1>12, <1>13, <1>14, <1>15, OneEditor

\* The note for the attachment has been made, and the upload is asked for.
LEMMA NoteMade ==
  ASSUME NEW e, NEW d, NEW q, NEW a, NEW w, NEW S \in SUBSET Request, NEW rows, NEW t \in Texts,
         EditorOK(e, d, q, a, w, S, rows, t),
         NEW r \in S, r.why = "file", r.kind = "create", r.state = "done",
         NEW p, p.ed = r.ed, p.why = "file", p.kind = "upload", p.note = r.note, p.text = r.text,
         p.files = r.files, p.shown = r.shown, p.state = "sent",
         NEW n \in Editor, n.at = d.at, n.step = d.step, n.text = d.text, n.files = d.files,
         n.got = d.got, n.timer = d.timer, n.status = d.status, n.note = r.note,
         NEW b \in Attach, b.step = "upload", b.text = a.text
  PROVE  EditorOK(e, n, q, b, w, (S \ {r}) \cup {p}, rows, t)
<1> DEFINE T == (S \ {r}) \cup {p}
<1>1. a.step = "create" /\ Known(r.note, rows) /\ r.note # None /\ r.note \in NoteIds
  BY NoneIsNothing DEF EditorOK, Placed, Known
<1>2. d.step = "ready"
  BY <1>1 DEF EditorOK, Unshown
<1>3. Fits(n, q, b, w, rows)
  BY <1>1 DEF EditorOK, Fits
<1>4. Unopened(n, q, b, T)
  BY DEF EditorOK, Unopened
<1>5. Unshown(e, n, q, b, w, T, rows)
  BY <1>2 DEF Unshown
<1>6. Placed(n, q, b, T, rows)
  <2>1. \A o \in S \ {r} : o.why # "file"
    BY DEF EditorOK, Placed
  <2>2. ASSUME NEW o \in T
        PROVE  /\ o.kind # "create" \/ o.state = "done" => Known(o.note, rows)
               /\ o.why = "file" => o.kind = b.step /\ o.kind # "patch"
               /\ o.why = "file" /\ o.kind = "upload" => n.note # None
               /\ o.why # "file" => /\ o.kind # "upload" /\ Len(q) > 0
                                    /\ q[1].text = o.text /\ q[1].why = o.why
                                    /\ q[1].shown = o.shown
    BY <1>1, <2>1 DEF EditorOK, Placed
  <2>3. ASSUME NEW o \in T, NEW k \in T, o.why = "file" <=> k.why = "file"
        PROVE  o = k
    BY <2>1, <2>3 DEF EditorOK, Placed
  <2> QED
    BY <2>2, <2>3 DEF Placed
<1>7. AttachedOnce(q, b)
  BY <1>1 DEF EditorOK, AttachedOnce
<1>8. Bare(e, n, b, T, rows)
  BY <1>1 DEF Bare
<1>9. Kept(e, n, q, T, rows)
  <2>1. d.files = {} /\ \A k \in NoteIds : rows[k].by = e => rows[k].files = {}
    BY <1>1 DEF EditorOK, Bare
  <2> QED
    BY <1>1, <2>1 DEF EditorOK, Kept
<1>10. InOrder(n, q, w)
  BY DEF EditorOK, InOrder
<1>11. Typed(n, q, b, T, t)
  BY DEF EditorOK, Typed
<1> QED
  BY <1>3, <1>4, <1>5, <1>6, <1>7, <1>8, <1>9, <1>10, <1>11 DEF EditorOK

\* addAttachment has no request any more.
LEMMA NoStepLeft ==
  ASSUME NEW e, NEW d, NEW q, NEW a, NEW w, NEW S \in SUBSET Request, NEW rows, NEW t \in Texts,
         EditorOK(e, d, q, a, w, S, rows, t), NEW r \in S, r.why = "file",
         NEW b \in Attach, b.step \in {"none", "save"}, b.text <= t
  PROVE  EditorOK(e, d, q, b, w, S \ {r}, rows, t)
<1> DEFINE T == S \ {r}
<1>1. a.step \in {"create", "upload"} /\ d.at # "new"
  <2>1. r.kind \in {"create", "patch", "upload"}
    BY DEF Request
  <2> QED
    BY <2>1 DEF EditorOK, Placed, Unopened
<1>2. \A o \in T : o.why # "file"
  BY DEF EditorOK, Placed
<1>3. Fits(d, q, b, w, rows) /\ Unopened(d, q, b, T) /\ InOrder(d, q, w)
  BY <1>1 DEF EditorOK, Fits, Unopened
<1>4. Unshown(e, d, q, b, w, T, rows)
  BY DEF EditorOK, Unshown
<1>5. Placed(d, q, b, T, rows)
  BY <1>2 DEF EditorOK, Placed
<1>6. AttachedOnce(q, b)
  BY <1>1 DEF EditorOK, AttachedOnce
<1>7. Bare(e, d, b, T, rows)
  BY DEF EditorOK, Bare
<1>8. Kept(e, d, q, T, rows)
  BY DEF EditorOK, Kept
<1>9. Typed(d, q, b, T, t)
  BY DEF EditorOK, Typed
<1> QED
  BY <1>3, <1>4, <1>5, <1>6, <1>7, <1>8, <1>9 DEF EditorOK

\* An attachment's step changes.
LEMMA WithAttachStep ==
  ASSUME NEW a \in Attach, NEW x \in {"none", "create", "upload", "save"}
  PROVE  LET b == [a EXCEPT !.step = x]
         IN b \in Attach /\ b.step = x /\ b.text = a.text
BY DEF Attach

LEMMA AttachCreatedStep ==
  ASSUME IInv, NEW e \in Editors, AttachCreated(e)
  PROVE  IInv'
<1> DEFINE d == ed[e]
           a == attach[e]
           S == Mine(reqs, e)
<1>1. PICK r \in Steps(e) :
        /\ r.state = "done" /\ r.kind = "create"
        /\ ed' = [ed EXCEPT ![e].note = r.note]
        /\ attach' = [attach EXCEPT ![e].step = "upload"]
        /\ reqs' = (reqs \ {r}) \cup {[r EXCEPT !.kind = "upload", !.state = "sent"]}
        /\ UNCHANGED <<note, chain, typed, wrote>>
  BY Zenon DEF AttachCreated
<1> DEFINE n == [d EXCEPT !.note = r.note]
           b == [a EXCEPT !.step = "upload"]
           k == [r EXCEPT !.kind = "upload"]
           p == [k EXCEPT !.state = "sent"]
<1>2. /\ EditorOK(e, d, chain[e], a, wrote[e], S, note, typed)
      /\ d \in Editor /\ S \in SUBSET Request /\ typed \in Texts /\ typed \in Nat
      /\ RowsOK(note, typed) /\ OfEditors(ed) /\ OfEditors(chain) /\ OfEditors(attach)
      /\ OfEditors(wrote)
  BY Acting
<1>3. r \in S /\ r.why = "file" /\ r \in Request /\ r.ed = e /\ r \in reqs
  BY <1>2, SavesAreMine DEF Mine
<1>4. a \in Attach /\ r.note \in Opt(NoteIds)
  BY <1>2, <1>3 DEF EditorOK, Fits, Request
<1>5. /\ Only(e, ed, ed', n) /\ Only(e, chain, chain', chain[e])
      /\ Only(e, attach, attach', b) /\ Only(e, wrote, wrote', wrote[e])
      /\ UNCHANGED <<note, typed>> /\ reqs' = (reqs \ {r}) \cup {p}
  BY Zenon, <1>1, <1>2 DEF Only, OfEditors
<1>6. /\ n \in Editor /\ n.at = d.at /\ n.step = d.step /\ n.text = d.text /\ n.files = d.files
      /\ n.got = d.got /\ n.timer = d.timer /\ n.status = d.status /\ n.note = r.note
  BY <1>2, <1>4, WithNote
<1>7. b \in Attach /\ b.step = "upload" /\ b.text = a.text
  BY Zenon, <1>4, WithAttachStep
<1>8. /\ k \in Request /\ k.ed = r.ed /\ k.why = r.why /\ k.kind = "upload" /\ k.note = r.note
      /\ k.text = r.text /\ k.files = r.files /\ k.shown = r.shown
  BY <1>3 DEF Request
<1> HIDE DEF k
<1>9. /\ p \in Request /\ p.ed = r.ed /\ p.why = r.why /\ p.kind = "upload" /\ p.note = r.note
      /\ p.text = r.text /\ p.files = r.files /\ p.shown = r.shown /\ p.state = "sent"
  BY <1>8 DEF Request
<1> HIDE DEF n, b, p, d, a
<1>10. EditorOK(e, n, chain[e], b, wrote[e], (S \ {r}) \cup {p}, note, typed)
  BY <1>1, <1>2, <1>3, <1>6, <1>7, <1>9, NoteMade
<1>11. /\ reqs' \subseteq Request /\ Mine(reqs', e) = (S \ {r}) \cup {p}
       /\ \A o \in Editors \ {e} : Mine(reqs', o) = Mine(reqs, o)
  BY <1>3, <1>5, <1>9 DEF IInv, Mine
<1>12. typed <= typed' /\ typed' \in Texts /\ RowsOK(note', typed')
  BY <1>2, <1>5
<1>13. \A o \in Editors \ {e} : Follows(o, note, note')
  BY <1>5, StaysAsItIs
<1>14. EditorOK(e, n, chain[e], b, wrote[e], Mine(reqs', e), note', typed')
  BY <1>5, <1>10, <1>11
<1> HIDE DEF S
<1> QED
  BY <1>5, <1>11, <1>12, <1>13, <1>14, OneEditor

\* Without the request r of e.
LEMMA OneLess ==
  ASSUME IInv, NEW e \in Editors, NEW r \in Steps(e), reqs' = reqs \ {r}
  PROVE  /\ reqs' \subseteq Request /\ Mine(reqs', e) = Mine(reqs, e) \ {r}
         /\ \A o \in Editors \ {e} : Mine(reqs', o) = Mine(reqs, o)
BY DEF IInv, Mine, Steps

LEMMA AttachUploadedStep ==
  ASSUME IInv, NEW e \in Editors, AttachUploaded(e)
  PROVE  IInv'
<1> DEFINE d == ed[e]
           a == attach[e]
           q == chain[e]
           S == Mine(reqs, e)
           x == d.files \cup a.file
           y == d.at = "mounted"
           m == [d EXCEPT !.files = x]
           n == [m EXCEPT !.dirty = y]
           b == [a EXCEPT !.step = "save"]
           s == Queueing(e, a.text, "attach")
<1>1. PICK r \in Steps(e) :
        /\ r.state = "done" /\ r.kind = "upload" /\ reqs' = reqs \ {r}
        /\ Len(q) < MaxChain /\ Enqueue(e, a.text, "attach")
  BY DEF AttachUploaded, Room
<1>2. /\ EditorOK(e, d, q, a, wrote[e], S, note, typed)
      /\ d \in Editor /\ S \in SUBSET Request /\ typed \in Texts /\ typed \in Nat
      /\ RowsOK(note, typed) /\ OfEditors(ed) /\ OfEditors(chain) /\ OfEditors(attach)
      /\ OfEditors(wrote)
  BY Acting
<1>3. r \in S /\ r.why = "file"
  BY <1>2, SavesAreMine
<1>4. /\ Only(e, ed, ed', n)
      /\ Only(e, attach, attach', b) /\ Only(e, wrote, wrote', wrote[e])
      /\ UNCHANGED <<note, typed>>
  BY Zenon, <1>2 DEF AttachUploaded, Mounted, Only, OfEditors
<1>5. Only(e, chain, chain', Append(q, s))
  BY <1>1, EnqueueAppends
<1>6. a \in Attach /\ a.text <= typed /\ a.text \in Texts /\ a.file \in SUBSET Files
  BY <1>2 DEF EditorOK, Fits, Typed, Attach
<1>7. a.step = "upload" /\ d.note # None /\ d.at # "new"
  BY <1>1, <1>2, <1>3 DEF EditorOK, Placed, Unopened
<1>8. \A i \in 1 .. Len(q) : q[i].why # "attach"
  BY <1>2, <1>7 DEF EditorOK, AttachedOnce
<1>9. s \in QueuedSave /\ s.text = a.text /\ (s.shown <=> d.step = "ready") /\ ~Counts(s)
  BY <1>6, QueueingIsSave
<1>10. b \in Attach /\ b.step = "save" /\ b.text = a.text
  BY Zenon, <1>6, WithAttachStep
<1>11. x \in SUBSET Files /\ y \in BOOLEAN
  BY <1>2, <1>6, EditorFields
<1> HIDE DEF d, a, q, s, b, x, y
<1>12. /\ m \in Editor /\ m.at = d.at /\ m.step = d.step /\ m.note = d.note
       /\ m.got = d.got /\ m.text = d.text /\ m.timer = d.timer
  BY <1>2, <1>11, WithFiles
<1> HIDE DEF m
<1>13. /\ n \in Editor /\ n.at = d.at /\ n.step = d.step /\ n.note = d.note
       /\ n.got = d.got /\ n.text = d.text /\ n.timer = d.timer
  BY <1>11, <1>12, WithDirty
<1> HIDE DEF n
<1>14. EditorOK(e, d, q, b, wrote[e], S \ {r}, note, typed)
  BY <1>2, <1>3, <1>6, <1>10, NoStepLeft
<1>15. EditorOK(e, n, Append(q, s), b, wrote[e], S \ {r}, note, typed)
  <2>1. S \ {r} \in SUBSET Request
    BY <1>2
  <2>2. ~(d.note = None \/ b.step = "create")
    BY <1>7, <1>10
  <2> QED
    BY <1>1, <1>2, <1>6, <1>7, <1>8, <1>9, <1>10, <1>13, <1>14, <2>1, <2>2, Enqueued
<1>16. /\ reqs' \subseteq Request /\ Mine(reqs', e) = S \ {r}
       /\ \A o \in Editors \ {e} : Mine(reqs', o) = Mine(reqs, o)
  BY Zenon, <1>1, OneLess
<1>17. typed <= typed' /\ typed' \in Texts /\ RowsOK(note', typed')
  BY <1>2, <1>4
<1>18. \A o \in Editors \ {e} : Follows(o, note, note')
  BY <1>4, StaysAsItIs
<1>19. EditorOK(e, n, Append(q, s), b, wrote[e], Mine(reqs', e), note', typed')
  BY <1>4, <1>15, <1>16
<1> HIDE DEF S
<1> QED
  BY <1>4, <1>5, <1>16, <1>17, <1>18, <1>19, OneEditor

LEMMA AttachFailedStep ==
  ASSUME IInv, NEW e \in Editors, AttachFailed(e)
  PROVE  IInv'
<1> DEFINE S == Mine(reqs, e)
<1>1. PICK r \in Steps(e) : reqs' = reqs \ {r}
  BY DEF AttachFailed
<1>2. /\ EditorOK(e, ed[e], chain[e], attach[e], wrote[e], S, note, typed)
      /\ S \in SUBSET Request /\ typed \in Texts /\ typed \in Nat
      /\ RowsOK(note, typed) /\ OfEditors(ed) /\ OfEditors(chain) /\ OfEditors(attach)
      /\ OfEditors(wrote)
  BY Acting
<1>3. r \in S /\ r.why = "file"
  BY <1>2, SavesAreMine
<1>4. NoAttach \in Attach /\ NoAttach.step = "none" /\ NoAttach.text <= typed
  BY <1>2, BoundsAreNumbers DEF NoAttach, Attach, Texts
<1>5. EditorOK(e, ed[e], chain[e], NoAttach, wrote[e], S \ {r}, note, typed)
  BY <1>2, <1>3, <1>4, NoStepLeft
<1>6. /\ Only(e, ed, ed', ed[e]) /\ Only(e, chain, chain', chain[e])
      /\ Only(e, attach, attach', NoAttach) /\ Only(e, wrote, wrote', wrote[e])
      /\ UNCHANGED <<note, typed>>
  BY Zenon, <1>2 DEF AttachFailed, Only, OfEditors
<1>7. /\ reqs' \subseteq Request /\ Mine(reqs', e) = S \ {r}
      /\ \A o \in Editors \ {e} : Mine(reqs', o) = Mine(reqs, o)
  BY <1>1, OneLess
<1>8. typed <= typed' /\ typed' \in Texts /\ RowsOK(note', typed')
  BY <1>2, <1>6
<1>9. \A o \in Editors \ {e} : Follows(o, note, note')
  BY <1>6, StaysAsItIs
<1>10. EditorOK(e, ed[e], chain[e], NoAttach, wrote[e], Mine(reqs', e), note', typed')
  BY <1>5, <1>6, <1>7
<1> HIDE DEF S
<1> QED
  BY <1>6, <1>7, <1>8, <1>9, <1>10, OneEditor

-----------------------------------------------------------------------------
(* Notes that are deleted. *)

\* A row is marked deleted.
LEMMA RowDeleted ==
  ASSUME IInv, NEW n \in NoteIds, note' = [note EXCEPT ![n] = Deleted]
  PROVE  RowsOK(note', typed) /\ \A o \in Editors : Follows(o, note, note')
<1>1. typed \in Nat /\ RowsOK(note, typed)
  BY BoundsAreNumbers DEF IInv, Texts
<1>2. Deleted \in Note /\ Deleted.state = "deleted" /\ Deleted.text = 0 /\ Deleted.by = None
  <2>1. Row(0, {}, None) \in Note /\ Row(0, {}, None).text = 0 /\ Row(0, {}, None).by = None
    BY BoundsAreNumbers DEF Row, Note, Texts, Opt
  <2> QED
    BY <2>1 DEF Deleted, Note
<1> HIDE DEF Deleted
<1>3. /\ note' \in [NoteIds -> Note] /\ note'[n] = Deleted
      /\ \A k \in NoteIds \ {n} : note'[k] = note[k]
  BY <1>1, <1>2 DEF RowsOK
<1>4. RowsOK(note', typed)
  BY <1>1, <1>2, <1>3 DEF RowsOK
<1>5. ASSUME NEW o \in Editors PROVE Follows(o, note, note')
  BY <1>2, <1>3, NoneIsNothing DEF Follows
<1> QED
  BY Zenon, <1>4, <1>5

LEMMA DeleteStep ==
  ASSUME IInv, NEW e \in Editors, Delete(e)
  PROVE  IInv'
<1>1. CASE UNCHANGED note
  BY <1>1, LeftStep DEF Delete
<1>2. CASE /\ ed[e].note # None /\ note[ed[e].note].state = "live"
           /\ note' = [note EXCEPT ![ed[e].note] = Deleted]
  <2> DEFINE S == Mine(reqs, e)
             c == Close(ed[e])
  <2>1. /\ EditorOK(e, ed[e], chain[e], attach[e], wrote[e], S, note, typed)
        /\ S \in SUBSET Request /\ typed \in Texts /\ typed \in Nat
        /\ OfEditors(ed) /\ OfEditors(chain) /\ OfEditors(attach) /\ OfEditors(wrote)
    BY Acting
  <2>2. ed[e].note \in NoteIds
    BY <1>2, <2>1 DEF EditorOK, Fits, Known
  <2>3. RowsOK(note', typed) /\ \A o \in Editors : Follows(o, note, note')
    BY Zenon, <1>2, <2>2, RowDeleted
  <2>4. EditorOK(e, c, chain[e], attach[e], wrote[e], S, note, typed)
    BY <2>1, Leaving
  <2>5. typed <= typed
    BY <2>1
  <2>6. EditorOK(e, c, chain[e], attach[e], wrote[e], S, note', typed)
    BY <2>1, <2>3, <2>4, <2>5, Bystander
  <2>7. /\ Only(e, ed, ed', c) /\ Only(e, chain, chain', chain[e])
        /\ Only(e, attach, attach', attach[e]) /\ Only(e, wrote, wrote', wrote[e])
        /\ UNCHANGED <<reqs, typed>>
    BY Zenon, <2>1 DEF Delete, Closed, Only, OfEditors
  <2>8. reqs' \subseteq Request /\ \A o \in Editors \ {e} : Mine(reqs', o) = Mine(reqs, o)
    BY <2>7 DEF IInv
  <2>9. typed <= typed' /\ typed' \in Texts /\ RowsOK(note', typed')
    BY <2>1, <2>3, <2>7
  <2>10. EditorOK(e, c, chain[e], attach[e], wrote[e], Mine(reqs', e), note', typed')
    BY <2>6, <2>7
  <2> HIDE DEF S, c
  <2> QED
    BY <2>3, <2>7, <2>8, <2>9, <2>10, OneEditor
<1> QED
  BY <1>1, <1>2 DEF Delete

LEMMA DeleteFromListStep ==
  ASSUME IInv, NEW n \in NoteIds, DeleteFromList(n)
  PROVE  IInv'
<1>1. note' = [note EXCEPT ![n] = Deleted] /\ UNCHANGED <<ed, chain, reqs, attach, typed, wrote>>
  BY DEF DeleteFromList
<1>2. RowsOK(note', typed) /\ \A o \in Editors : Follows(o, note, note')
  BY Zenon, <1>1, RowDeleted
<1>3. ASSUME NEW o \in Editors
      PROVE  EditorOK(o, ed[o], chain[o], attach[o], wrote[o], Mine(reqs, o), note', typed)
  <2>1. /\ EditorOK(o, ed[o], chain[o], attach[o], wrote[o], Mine(reqs, o), note, typed)
        /\ Mine(reqs, o) \subseteq Request /\ typed \in Texts /\ typed <= typed
    BY Acting
  <2> QED
    BY <1>2, <2>1, Bystander
<1> QED
  BY Zenon, <1>1, <1>2, <1>3 DEF IInv

-----------------------------------------------------------------------------
(* The invariant. *)

LEMMA InitInv == Init => IInv
<1> SUFFICES ASSUME Init PROVE IInv
  OBVIOUS
<1>1. PICK old \in SUBSET Existing, files \in SUBSET Files :
        /\ note = [n \in NoteIds |-> IF n \in old THEN Row(1, files, None) ELSE Free]
        /\ typed = IF old = {} THEN 0 ELSE 1
  BY Zenon DEF Init
<1>2. 0 \in Texts /\ 1 \in Texts /\ typed \in Texts /\ typed \in Nat
  BY <1>1, BoundsAreNumbers DEF Texts
<1>3. LET x == Row(1, files, None) IN x \in Note /\ x.text = 1 /\ x.by = None
  BY <1>2, RowFields DEF Opt
<1>4. Free \in Note /\ Free.text = 0 /\ Free.by = None
  <2>1. Row(0, {}, None) \in Note /\ Row(0, {}, None).text = 0 /\ Row(0, {}, None).by = None
    BY <1>2 DEF Row, Note, Opt
  <2> QED
    BY <2>1 DEF Free, Note
<1> HIDE DEF Free
<1>5. /\ note \in [NoteIds -> Note]
      /\ \A n \in NoteIds : note[n].text <= typed /\ note[n].by = None
  <2>1. ASSUME NEW n \in NoteIds
        PROVE  /\ note[n] \in Note /\ note[n].by = None
               /\ \/ note[n].text = 0
                  \/ note[n].text = 1 /\ n \in old
    BY <1>1, <1>3, <1>4, <2>1
  <2>2. \A n \in NoteIds : note[n].text <= typed
    BY <1>1, <1>2, <2>1
  <2> QED
    BY <1>1, <2>1, <2>2
<1>6. /\ Blank \in Editor /\ Blank.text = 0 /\ Blank.timer = 0 /\ Blank.got.text = 0
      /\ Blank.step = "loading" /\ Blank.files = {} /\ Blank.note = None /\ Blank.at = "new"
  BY <1>2 DEF Blank, Editor, Opt
<1>7. NoAttach \in Attach /\ NoAttach.step = "none" /\ NoAttach.text = 0
  BY <1>2 DEF NoAttach, Attach
<1> HIDE DEF Blank, NoAttach
<1>8. <<>> \in Seq(QueuedSave) /\ Len(<<>>) = 0 /\ 1 .. Len(<<>>) = {} /\ Len(<<>>) <= MaxChain
  BY BoundsAreNumbers
<1>9. ASSUME NEW e \in Editors
      PROVE  EditorOK(e, Blank, <<>>, NoAttach, 0, {}, note, typed)
  <2>1. \A n \in NoteIds : note[n].by # e
    BY <1>5, NoneIsNothing
  <2>2. Fits(Blank, <<>>, NoAttach, 0, note)
    BY <1>2, <1>6, <1>7, <1>8 DEF Fits
  <2>3. Unopened(Blank, <<>>, NoAttach, {})
    BY <1>7 DEF Unopened
  <2>4. Unshown(e, Blank, <<>>, NoAttach, 0, {}, note)
    BY <1>6, <1>7, <1>8, <2>1 DEF Unshown
  <2>5. Placed(Blank, <<>>, NoAttach, {}, note) /\ AttachedOnce(<<>>, NoAttach)
    BY <1>8 DEF Placed, AttachedOnce
  <2>6. Bare(e, Blank, NoAttach, {}, note)
    BY <1>6, <2>1 DEF Bare
  <2>7. Kept(e, Blank, <<>>, {}, note)
    BY <1>6 DEF Kept
  <2>8. InOrder(Blank, <<>>, 0)
    BY <1>6, <1>8 DEF InOrder
  <2>9. Typed(Blank, <<>>, NoAttach, {}, typed)
    BY <1>2, <1>6, <1>7, <1>8 DEF Typed
  <2> QED
    BY <2>2, <2>3, <2>4, <2>5, <2>6, <2>7, <2>8, <2>9 DEF EditorOK
<1>10. /\ OfEditors(ed) /\ OfEditors(chain) /\ OfEditors(attach) /\ OfEditors(wrote)
       /\ reqs = {}
       /\ \A e \in Editors : /\ ed[e] = Blank /\ chain[e] = <<>>
                             /\ attach[e] = NoAttach /\ wrote[e] = 0
  BY DEF Init, OfEditors
<1>11. RowsOK(note, typed)
  BY <1>5 DEF RowsOK
<1>12. \A e \in Editors : Mine(reqs, e) = {}
  BY <1>10 DEF Mine
<1> QED
  BY Zenon, <1>2, <1>9, <1>10, <1>11, <1>12 DEF IInv

LEMMA StepInv == IInv /\ [Next]_vars => IInv'
<1> SUFFICES ASSUME IInv, [Next]_vars PROVE IInv'
  OBVIOUS
<1>1. CASE UNCHANGED vars
  BY <1>1 DEF vars, IInv
<1>2. ASSUME NEW e \in Editors, Loading(e)
      PROVE  IInv'
  BY <1>2, MintKeyStep, FetchStep, ShowStep, LeftStep DEF Loading, LoadFails
<1>3. ASSUME NEW e \in Editors, Saving(e)
      PROVE  IInv'
  BY <1>3, AutosaveStep, SkipSaveStep, RunSaveStep, SaveDoneStep, SaveFailedStep DEF Saving
<1>4. ASSUME NEW e \in Editors, Attaching(e)
      PROVE  IInv'
  BY <1>4, AttachCreatedStep, AttachUploadedStep, AttachFailedStep DEF Attaching
<1>5. ASSUME NEW e \in Editors, Leave(e)
      PROVE  IInv'
  BY <1>5, LeftStep DEF Leave
<1>6. CASE Next
  <2>1. CASE \E n \in NoteIds : DeleteFromList(n)
    BY <2>1, DeleteFromListStep
  <2>2. ASSUME NEW e \in Editors,
               \/ Loading(e) \/ Saving(e) \/ Attaching(e)
               \/ ServedSave(e) \/ ServedStep(e)
               \/ \E n \in Opt(NoteIds) : Open(e, n)
               \/ Edit(e) \/ Back(e) \/ Leave(e) \/ Delete(e)
               \/ \E f \in Files : AddAttachment(e, f) \/ RemoveAttachment(e, f)
        PROVE  IInv'
    BY <1>2, <1>3, <1>4, <1>5, <2>2, AnswerIsServed, OpenStep, EditStep, BackStep, DeleteStep,
       AddAttachmentStep, RemoveAttachmentStep
  <2> QED
    BY <1>6, <2>1, <2>2 DEF Next
<1> QED
  BY <1>1, <1>6

-----------------------------------------------------------------------------
(* Theorems *)

\* The rows, the editors with their queues and requests, and the history always have their
\* types; what an editor edits exists or existed, and a page that is left has no autosave.
THEOREM TypeCorrect == Spec => []TypeOK
<1>1. IInv => TypeOK
  <2> SUFFICES ASSUME IInv PROVE TypeOK
    OBVIOUS
  <2>1. \A e \in Editors : Fits(ed[e], chain[e], attach[e], wrote[e], note)
    BY DEF IInv, EditorOK
  <2>2. \A e \in Editors : chain[e] \in Seq(QueuedSave) /\ Len(chain[e]) <= MaxChain
    BY <2>1 DEF Fits
  <2>3. \A e \in Editors : /\ ed[e].note # None => note[ed[e].note].state # "free"
                           /\ ~Mounted(e) => ed[e].timer = 0
    BY <2>1 DEF Fits, Known, Mounted
  <2>4. note \in [NoteIds -> Note] /\ reqs \subseteq Request /\ typed \in Texts
    BY DEF IInv, RowsOK
  <2> QED
    BY <2>1, <2>2, <2>3, <2>4 DEF TypeOK, Fits, IInv, OfEditors
<1> QED
  BY <1>1, InitInv, StepInv, PTL DEF Spec

\* When an editor is quiet and was the last to write its row, the row lists the files the
\* editor shows: attachmentsRef and saveChain lose no file that is added or removed while
\* saves and uploads are under way.
THEOREM RowListsFiles == Spec => []FilesAsShown
<1>1. IInv => FilesAsShown
  <2> SUFFICES ASSUME IInv, NEW e \in Editors, Mounted(e), ed[e].note # None,
                      ed[e].status = "saved", ~AtWork(e),
                      note[ed[e].note].by = e, note[ed[e].note].state = "live"
               PROVE  note[ed[e].note].files = ed[e].files
    BY DEF FilesAsShown
  <2>1. EditorOK(e, ed[e], chain[e], attach[e], wrote[e], Mine(reqs, e), note, typed)
    BY Acting
  <2>2. Len(chain[e]) = 0
    BY DEF AtWork
  <2>3. ed[e].note \in NoteIds
    BY <2>1 DEF EditorOK, Fits, Known
  <2>4. ed[e].step = "ready"
    BY <2>1, <2>3 DEF EditorOK, Unshown
  <2> QED
    BY <2>1, <2>2, <2>4 DEF EditorOK, Kept
<1> QED
  BY <1>1, InitInv, StepInv, PTL DEF Spec

\* The saves of one editor reach its row in the order of the edits: one request of the chain
\* is under way at a time, and the next has a later text.
THEOREM SavesKeepOrder == Spec => SavesInOrder
<1>1. IInv /\ [Next]_vars => [\A e \in Editors : wrote'[e] >= wrote[e]]_vars
  <2> SUFFICES ASSUME IInv, [Next]_vars, NEW e \in Editors PROVE wrote'[e] >= wrote[e]
    OBVIOUS
  <2>1. wrote[e] \in Nat
    BY BoundsAreNumbers DEF IInv, EditorOK, Fits, Texts
  <2>2. CASE wrote' = wrote
    BY <2>1, <2>2
  <2>3. ASSUME NEW o \in Editors, NEW r \in Mine(reqs, o), r.state = "sent", Wrote(r)
        PROVE  wrote'[e] >= wrote[e]
    <3>1. CASE o = e /\ r.why \in {"edit", "back"} /\ r.shown
      <4>1. EditorOK(e, ed[e], chain[e], attach[e], wrote[e], Mine(reqs, e), note, typed)
        BY Acting
      <4>2. /\ chain[e][1].text = r.text /\ Counts(chain[e][1]) /\ 1 \in 1 .. Len(chain[e])
            /\ chain[e][1] \in QueuedSave
        BY <2>3, <3>1, <4>1, Queued DEF EditorOK, Fits, Placed, Counts
      <4>3. wrote[e] <= r.text /\ r.text \in Nat
        BY <4>1, <4>2, SaveFields DEF EditorOK, InOrder
      <4>4. wrote'[e] = r.text
        BY Zenon, <2>3, <3>1, Acting DEF Wrote, Mine, OfEditors
      <4> QED
        BY <2>1, <4>3, <4>4
    <3>2. CASE ~(o = e /\ r.why \in {"edit", "back"} /\ r.shown)
      <4>1. wrote'[e] = wrote[e]
        BY <2>3, <3>2 DEF Wrote, Mine
      <4> QED
        BY <2>1, <4>1
    <3> QED
      BY <3>1, <3>2
  <2>4. ASSUME NEW o \in Editors, ServedSave(o) \/ ServedStep(o)
        PROVE  wrote'[e] >= wrote[e]
    <3>1. PICK r \in Mine(reqs, o) : Served(r)
      BY <2>4, SavesAreMine DEF ServedSave, ServedStep
    <3> QED
      BY <2>2, <2>3, <3>1 DEF Served, Create, Patch, Upload, Fails
  <2>5. ASSUME NEW o \in Editors, Loading(o) \/ Saving(o) \/ Attaching(o)
        PROVE  wrote' = wrote
    BY ZenonT(120), <2>5 DEF Loading, MintKey, Fetch, Show, LoadFails, Saving, Autosave, SkipSave, RunSave,
                SaveDone, SaveFailed, Attaching, AttachCreated, AttachUploaded, AttachFailed
  <2>6. CASE Next
    BY ZenonT(120), <2>2, <2>4, <2>5, <2>6
       DEF Next, Open, Edit, Back, Leave, Delete, AddAttachment, RemoveAttachment, DeleteFromList
  <2>7. CASE UNCHANGED vars
    BY <2>2, <2>7 DEF vars
  <2> QED
    BY <2>6, <2>7
<1> QED
  BY <1>1, InitInv, StepInv, PTL DEF Spec, SavesInOrder

-----------------------------------------------------------------------------
(* Blobs: no file is lost while something keeps referring to it. *)

\* Every steadily held blob has a holder, perhaps a request still in progress.
Held == steady \subseteq MediaOf(Messages) \cup noted \cup patch

\* ... and once it is old, one whose reference has committed.
OldIsReferenced == \A b \in steady : file[b] = "old" => b \in Referenced

\* A message being unsent no longer holds its blob.
UnsendingLetGo ==
  \A m \in unsending : /\ msg[m].pc \in {"sent", "unsent", "swept"}
                       /\ msg[m].media \cap steady = {}

PatchInProgress == ~patching => patch = {}

\* What the collection may delete is not young, and not steadily held once it
\* has read the references.
CollectionIsSafe ==
  /\ gc.pc \in {"listed", "read"} => \A b \in gc.candidates : file[b] \in {"old", "gone"}
  /\ gc.pc = "read" => (gc.candidates \ gc.referenced) \cap steady = {}

BlobsInv ==
  /\ BlobsTypeOK
  /\ SteadyFilesStay
  /\ Held
  /\ OldIsReferenced
  /\ UnsendingLetGo
  /\ PatchInProgress
  /\ CollectionIsSafe

USE DEF Ages, Here

\* The initial states satisfy the invariant.
LEMMA BlobsInvInit == BlobsInit => BlobsInv
<1> SUFFICES ASSUME BlobsInit PROVE BlobsInv
  OBVIOUS
<1>1. BlobsTypeOK
  BY Zenon DEF BlobsInit, BlobsTypeOK, Gc, NoGc
<1>2. SteadyFilesStay /\ Held /\ OldIsReferenced /\ UnsendingLetGo /\ PatchInProgress
  BY DEF BlobsInit, SteadyFilesStay, Held, OldIsReferenced, UnsendingLetGo, PatchInProgress
<1>3. CollectionIsSafe
  BY DEF BlobsInit, NoGc, CollectionIsSafe
<1> QED
  BY <1>1, <1>2, <1>3 DEF BlobsInv

\* Uploads and the passing of time.
LEMMA BlobUploadStep ==
  ASSUME BlobsInv, NEW b \in Blobs,
         Save(b) \/ Record(b) \/ UploadFails(b) \/ FileAges(b) \/ RowAges(b)
  PROVE  BlobsInv'
<1>1. CASE Save(b)
  <2>1. BlobsTypeOK'
    BY <1>1 DEF Save, sweeps, BlobsInv, BlobsTypeOK
  <2>2. SteadyFilesStay' /\ OldIsReferenced'
    BY <1>1
       DEF Save, sweeps, BlobsInv, BlobsTypeOK, SteadyFilesStay, OldIsReferenced, Referenced,
           Sent, MediaOf
  <2>3. Held' /\ UnsendingLetGo' /\ PatchInProgress'
    BY <1>1 DEF Save, sweeps, BlobsInv, Held, UnsendingLetGo, PatchInProgress, MediaOf
  <2>4. CollectionIsSafe'
    BY <1>1 DEF Save, sweeps, BlobsInv, BlobsTypeOK, Gc, CollectionIsSafe
  <2> QED
    BY <2>1, <2>2, <2>3, <2>4 DEF BlobsInv
<1>2. CASE Record(b)
  <2>1. BlobsTypeOK'
    BY <1>2 DEF Record, sweeps, BlobsInv, BlobsTypeOK
  <2> QED
    BY <1>2, <2>1
       DEF Record, sweeps, BlobsInv, SteadyFilesStay, Held, OldIsReferenced, UnsendingLetGo,
           PatchInProgress, CollectionIsSafe, MediaOf, Referenced, Sent
<1>3. CASE UploadFails(b)
  <2>1. BlobsTypeOK'
    BY <1>3 DEF UploadFails, sweeps, BlobsInv, BlobsTypeOK
  <2> QED
    BY <1>3, <2>1
       DEF UploadFails, sweeps, BlobsInv, SteadyFilesStay, Held, OldIsReferenced,
           UnsendingLetGo, PatchInProgress, CollectionIsSafe, MediaOf, Referenced, Sent
<1>4. CASE FileAges(b)
  <2>1. BlobsTypeOK'
    BY <1>4 DEF FileAges, requests, sweeps, BlobsInv, BlobsTypeOK
  <2>2. SteadyFilesStay'
    BY <1>4 DEF FileAges, BlobsInv, BlobsTypeOK, SteadyFilesStay
  <2>3. b \in steady => b \in Referenced
    BY <1>4 DEF FileAges, BlobsInv, BlobsTypeOK, Held, InHand, Referenced, MediaOf, Sent
  <2>4. OldIsReferenced'
    BY <1>4, <2>3
       DEF FileAges, requests, sweeps, BlobsInv, BlobsTypeOK, OldIsReferenced, Referenced, Sent,
           MediaOf
  <2>5. Held' /\ UnsendingLetGo' /\ PatchInProgress'
    BY <1>4
       DEF FileAges, requests, sweeps, BlobsInv, Held, UnsendingLetGo, PatchInProgress, MediaOf
  <2>6. CollectionIsSafe'
    BY <1>4 DEF FileAges, requests, sweeps, BlobsInv, BlobsTypeOK, Gc, CollectionIsSafe
  <2> QED
    BY <2>1, <2>2, <2>4, <2>5, <2>6 DEF BlobsInv
<1>5. CASE RowAges(b)
  <2>1. BlobsTypeOK'
    BY <1>5 DEF RowAges, requests, sweeps, BlobsInv, BlobsTypeOK
  <2> QED
    BY <1>5, <2>1
       DEF RowAges, requests, sweeps, BlobsInv, SteadyFilesStay, Held, OldIsReferenced,
           UnsendingLetGo, PatchInProgress, CollectionIsSafe, MediaOf, Referenced, Sent
<1> QED
  BY <1>1, <1>2, <1>3, <1>4, <1>5

\* Sending and unsending.
LEMMA MessageStep ==
  ASSUME BlobsInv, NEW m \in Messages,
         \/ \E b \in Blobs : CheckMedia(m, b)
         \/ CommitSend(m) \/ SendFails(m)
         \/ Unsend(m) \/ CommitUnsend(m) \/ UnsendFails(m) \/ Expire(m)
  PROVE  BlobsInv'
<1>1. ASSUME NEW b \in Blobs, CheckMedia(m, b) PROVE BlobsInv'
  <2>1. BlobsTypeOK'
    BY <1>1 DEF CheckMedia, requests, sweeps, BlobsInv, BlobsTypeOK
  <2>2. SteadyFilesStay' /\ PatchInProgress'
    BY <1>1 DEF CheckMedia, requests, sweeps, BlobsInv, SteadyFilesStay, PatchInProgress
  <2>3. Held'
    BY <1>1 DEF CheckMedia, requests, sweeps, BlobsInv, BlobsTypeOK, Held, MediaOf
  <2>4. OldIsReferenced'
    BY <1>1
       DEF CheckMedia, requests, sweeps, BlobsInv, BlobsTypeOK, OldIsReferenced, Referenced,
           Sent, MediaOf
  <2>5. UnsendingLetGo'
    BY <1>1
       DEF CheckMedia, requests, sweeps, BlobsInv, BlobsTypeOK, UnsendingLetGo, Used, MediaOf
  <2>6. CollectionIsSafe'
    BY <1>1 DEF CheckMedia, requests, sweeps, BlobsInv, BlobsTypeOK, Gc, CollectionIsSafe
  <2> QED
    BY <2>1, <2>2, <2>3, <2>4, <2>5, <2>6 DEF BlobsInv
<1>2. CASE CommitSend(m)
  <2>1. BlobsTypeOK'
    BY <1>2 DEF CommitSend, requests, sweeps, BlobsInv, BlobsTypeOK
  <2>2. SteadyFilesStay' /\ PatchInProgress' /\ CollectionIsSafe'
    BY <1>2
       DEF CommitSend, requests, sweeps, BlobsInv, SteadyFilesStay, PatchInProgress,
           CollectionIsSafe
  <2>3. Held' /\ OldIsReferenced' /\ UnsendingLetGo'
    BY <1>2
       DEF CommitSend, requests, sweeps, BlobsInv, BlobsTypeOK, Held, OldIsReferenced,
           UnsendingLetGo, Referenced, Sent, MediaOf
  <2> QED
    BY <2>1, <2>2, <2>3 DEF BlobsInv
<1>3. CASE SendFails(m)
  <2>1. BlobsTypeOK'
    BY <1>3 DEF SendFails, requests, sweeps, BlobsInv, BlobsTypeOK
  <2>2. SteadyFilesStay' /\ PatchInProgress' /\ CollectionIsSafe'
    BY <1>3
       DEF SendFails, requests, sweeps, BlobsInv, SteadyFilesStay, PatchInProgress,
           CollectionIsSafe
  <2>3. Held' /\ OldIsReferenced' /\ UnsendingLetGo'
    BY <1>3
       DEF SendFails, requests, sweeps, BlobsInv, BlobsTypeOK, Held, OldIsReferenced,
           UnsendingLetGo, Referenced, Sent, MediaOf
  <2> QED
    BY <2>1, <2>2, <2>3 DEF BlobsInv
<1>4. CASE Unsend(m)
  <2>1. BlobsTypeOK'
    BY <1>4 DEF Unsend, Remove, sweeps, BlobsInv, BlobsTypeOK
  <2>2. SteadyFilesStay' /\ PatchInProgress'
    BY <1>4 DEF Unsend, Remove, sweeps, BlobsInv, BlobsTypeOK, SteadyFilesStay, PatchInProgress
  <2>3. Held' /\ UnsendingLetGo'
    BY <1>4 DEF Unsend, sweeps, BlobsInv, BlobsTypeOK, Held, UnsendingLetGo, MediaOf
  <2>4. OldIsReferenced'
    BY <1>4
       DEF Unsend, Remove, sweeps, BlobsInv, BlobsTypeOK, OldIsReferenced, Referenced, Sent,
           MediaOf
  <2>5. CollectionIsSafe'
    BY <1>4 DEF Unsend, Remove, sweeps, BlobsInv, BlobsTypeOK, Gc, CollectionIsSafe
  <2> QED
    BY <2>1, <2>2, <2>3, <2>4, <2>5 DEF BlobsInv
<1>5. CASE CommitUnsend(m)
  <2>1. BlobsTypeOK'
    BY <1>5 DEF CommitUnsend, sweeps, BlobsInv, BlobsTypeOK
  <2>2. SteadyFilesStay' /\ PatchInProgress' /\ CollectionIsSafe'
    BY <1>5
       DEF CommitUnsend, sweeps, BlobsInv, SteadyFilesStay, PatchInProgress, CollectionIsSafe
  <2>3. Held' /\ OldIsReferenced' /\ UnsendingLetGo'
    BY <1>5
       DEF CommitUnsend, sweeps, BlobsInv, BlobsTypeOK, Held, OldIsReferenced, UnsendingLetGo,
           Referenced, Sent, MediaOf
  <2> QED
    BY <2>1, <2>2, <2>3 DEF BlobsInv
<1>6. CASE UnsendFails(m) \/ Expire(m)
  <2>1. BlobsTypeOK'
    BY <1>6 DEF UnsendFails, Expire, requests, sweeps, BlobsInv, BlobsTypeOK
  <2> QED
    BY <1>6, <2>1
       DEF UnsendFails, Expire, requests, sweeps, BlobsInv, SteadyFilesStay, Held,
           OldIsReferenced, UnsendingLetGo, PatchInProgress, CollectionIsSafe, MediaOf,
           Referenced, Sent
<1> QED
  BY <1>1, <1>2, <1>3, <1>4, <1>5, <1>6

\* The retention sweep.
LEMMA SweepStep ==
  ASSUME BlobsInv, SweepFiles \/ SweepCommit \/ SweepFails
  PROVE  BlobsInv'
<1>1. CASE SweepFiles
  <2>1. BlobsTypeOK'
    BY <1>1 DEF SweepFiles, Remove, requests, Sent, BlobsInv, BlobsTypeOK
  <2>2. SteadyFilesStay' /\ PatchInProgress'
    BY <1>1
       DEF SweepFiles, Remove, requests, BlobsInv, BlobsTypeOK, SteadyFilesStay, PatchInProgress
  <2>3. Held' /\ UnsendingLetGo'
    BY <1>1 DEF SweepFiles, requests, BlobsInv, BlobsTypeOK, Held, UnsendingLetGo, MediaOf
  <2>4. OldIsReferenced'
    BY <1>1
       DEF SweepFiles, Remove, requests, BlobsInv, BlobsTypeOK, OldIsReferenced, Referenced,
           Sent, MediaOf
  <2>5. CollectionIsSafe'
    BY <1>1 DEF SweepFiles, Remove, requests, BlobsInv, BlobsTypeOK, Gc, CollectionIsSafe
  <2> QED
    BY <2>1, <2>2, <2>3, <2>4, <2>5 DEF BlobsInv
<1>2. CASE SweepCommit
  <2>1. PICK more \in SUBSET (expired \ sweep) :
          LET deleted == Sent \cap (sweep \cup more)
          IN /\ msg' = [m \in Messages |-> IF m \in deleted
                                           THEN [pc |-> "swept", media |-> {}] ELSE msg[m]]
             /\ steady' = steady \ MediaOf(deleted)
    BY Zenon, <1>2 DEF SweepCommit
  <2> DEFINE deleted == Sent \cap (sweep \cup more)
  <2>2. /\ msg' = [m \in Messages |-> IF m \in deleted
                                      THEN [pc |-> "swept", media |-> {}] ELSE msg[m]]
        /\ steady' = steady \ MediaOf(deleted)
        /\ deleted \subseteq Sent
        /\ UNCHANGED <<account, file, row, requests, expired, noted, gc>>
        /\ sweeping' = FALSE /\ sweep' = {}
    BY Zenon, <1>2, <2>1 DEF SweepCommit
  <2> HIDE DEF deleted
  <2>3. BlobsTypeOK'
    BY Zenon, <2>2 DEF requests, BlobsInv, BlobsTypeOK
  <2>4. SteadyFilesStay' /\ PatchInProgress' /\ CollectionIsSafe'
    BY <2>2 DEF requests, BlobsInv, SteadyFilesStay, PatchInProgress, CollectionIsSafe
  <2>5. Held' /\ OldIsReferenced' /\ UnsendingLetGo'
    BY <2>2
       DEF requests, BlobsInv, BlobsTypeOK, Held, OldIsReferenced, UnsendingLetGo, Referenced,
           Sent, MediaOf
  <2> QED
    BY <2>3, <2>4, <2>5 DEF BlobsInv
<1>3. CASE SweepFails
  <2>1. BlobsTypeOK'
    BY Zenon, <1>3 DEF SweepFails, requests, BlobsInv, BlobsTypeOK
  <2> QED
    BY <1>3, <2>1
       DEF SweepFails, requests, BlobsInv, SteadyFilesStay, Held, OldIsReferenced,
           UnsendingLetGo, PatchInProgress, CollectionIsSafe, MediaOf, Referenced, Sent
<1> QED
  BY <1>1, <1>2, <1>3

\* The note, and the account.
LEMMA NoteStep ==
  ASSUME BlobsInv,
         \/ \E wanted \in SUBSET Blobs : CheckAttachments(wanted)
         \/ CommitPatch \/ PatchFails \/ DeleteAccount
  PROVE  BlobsInv'
<1>1. ASSUME NEW wanted \in SUBSET Blobs, CheckAttachments(wanted) PROVE BlobsInv'
  <2>1. BlobsTypeOK'
    BY <1>1 DEF CheckAttachments, sweeps, BlobsInv, BlobsTypeOK
  <2>2. SteadyFilesStay' /\ PatchInProgress'
    BY <1>1 DEF CheckAttachments, BlobsInv, SteadyFilesStay, PatchInProgress
  <2>3. Held'
    BY <1>1 DEF CheckAttachments, BlobsInv, Held, PatchInProgress, MediaOf
  <2>4. OldIsReferenced'
    BY <1>1 DEF CheckAttachments, BlobsInv, OldIsReferenced, Referenced, Sent, MediaOf
  <2>5. UnsendingLetGo'
    BY <1>1 DEF CheckAttachments, BlobsInv, BlobsTypeOK, UnsendingLetGo, MediaOf
  <2>6. CollectionIsSafe'
    BY <1>1 DEF CheckAttachments, BlobsInv, BlobsTypeOK, Gc, CollectionIsSafe
  <2> QED
    BY <2>1, <2>2, <2>3, <2>4, <2>5, <2>6 DEF BlobsInv
<1>2. CASE CommitPatch \/ PatchFails
  <2>1. BlobsTypeOK'
    BY Zenon, <1>2 DEF CommitPatch, PatchFails, sweeps, BlobsInv, BlobsTypeOK
  <2>2. SteadyFilesStay' /\ PatchInProgress' /\ CollectionIsSafe' /\ UnsendingLetGo'
    BY <1>2
       DEF CommitPatch, PatchFails, BlobsInv, SteadyFilesStay, PatchInProgress,
           CollectionIsSafe, UnsendingLetGo
  <2>3. Held' /\ OldIsReferenced'
    BY <1>2
       DEF CommitPatch, PatchFails, BlobsInv, Held, OldIsReferenced, Referenced, Sent, MediaOf
  <2> QED
    BY <2>1, <2>2, <2>3 DEF BlobsInv
<1>3. CASE DeleteAccount
  <2>1. BlobsTypeOK'
    BY Zenon, <1>3 DEF DeleteAccount, requests, sweeps, BlobsInv, BlobsTypeOK
  <2>2. SteadyFilesStay' /\ PatchInProgress' /\ CollectionIsSafe' /\ UnsendingLetGo'
    BY <1>3
       DEF DeleteAccount, requests, BlobsInv, SteadyFilesStay, PatchInProgress,
           CollectionIsSafe, UnsendingLetGo
  <2>3. Held' /\ OldIsReferenced'
    BY <1>3
       DEF DeleteAccount, requests, BlobsInv, Held, OldIsReferenced, Referenced, Sent, MediaOf
  <2> QED
    BY <2>1, <2>2, <2>3 DEF BlobsInv
<1> QED
  BY <1>1, <1>2, <1>3

\* The collection.
LEMMA GcStep ==
  ASSUME BlobsInv, GcList \/ GcRead \/ GcDelete \/ GcCommit \/ GcFails
  PROVE  BlobsInv'
<1>1. ASSUME UNCHANGED <<account, file, requests, msg, expired, sweeps, noted, steady>>,
             row' \in [Blobs -> Ages], gc' \in Gc, CollectionIsSafe'
      PROVE  BlobsInv'
  <2>1. BlobsTypeOK'
    BY <1>1 DEF requests, sweeps, BlobsInv, BlobsTypeOK
  <2> QED
    BY <1>1, <2>1 DEF requests, sweeps, BlobsInv, SteadyFilesStay, Held, OldIsReferenced,
                      UnsendingLetGo, PatchInProgress, MediaOf, Referenced, Sent
<1>2. CASE GcList
  <2>1. gc' \in Gc /\ CollectionIsSafe' /\ row' \in [Blobs -> Ages]
    BY Zenon, <1>2 DEF GcList, BlobsInv, BlobsTypeOK, Gc, CollectionIsSafe
  <2> QED
    BY <1>1, <1>2, <2>1 DEF GcList
<1>3. CASE GcRead
  <2>1. gc' \in Gc /\ row' \in [Blobs -> Ages]
    BY Zenon, <1>3 DEF GcRead, BlobsInv, BlobsTypeOK, Gc, Referenced, MediaOf
  <2>2. CollectionIsSafe'
    BY <1>3
       DEF GcRead, BlobsInv, BlobsTypeOK, Gc, CollectionIsSafe, SteadyFilesStay, OldIsReferenced
  <2> QED
    BY <1>1, <1>3, <2>1, <2>2 DEF GcRead
<1>4. CASE GcDelete
  <2>1. BlobsTypeOK'
    BY Zenon, <1>4 DEF GcDelete, Remove, requests, sweeps, BlobsInv, BlobsTypeOK, Gc
  <2>2. SteadyFilesStay'
    BY <1>4 DEF GcDelete, Remove, BlobsInv, BlobsTypeOK, SteadyFilesStay, CollectionIsSafe
  <2>3. OldIsReferenced'
    BY <1>4
       DEF GcDelete, Remove, requests, BlobsInv, BlobsTypeOK, OldIsReferenced, Referenced, Sent,
           MediaOf
  <2>4. Held' /\ UnsendingLetGo' /\ PatchInProgress'
    BY <1>4 DEF GcDelete, requests, BlobsInv, Held, UnsendingLetGo, PatchInProgress, MediaOf
  <2>5. CollectionIsSafe'
    BY <1>4 DEF GcDelete, BlobsInv, BlobsTypeOK, Gc, CollectionIsSafe
  <2> QED
    BY <2>1, <2>2, <2>3, <2>4, <2>5 DEF BlobsInv
<1>5. CASE GcCommit \/ GcFails
  <2>1. gc' \in Gc /\ CollectionIsSafe' /\ row' \in [Blobs -> Ages]
    BY <1>5 DEF GcCommit, GcFails, NoGc, BlobsInv, BlobsTypeOK, Gc, CollectionIsSafe
  <2> QED
    BY <1>1, <1>5, <2>1 DEF GcCommit, GcFails
<1> QED
  BY <1>2, <1>3, <1>4, <1>5

\* The invariant is inductive, so it always holds.
THEOREM BlobsInvariance == BlobsSpec => []BlobsInv
<1>1. BlobsInv /\ UNCHANGED blobsVars => BlobsInv'
  BY DEF blobsVars, requests, sweeps, BlobsInv, BlobsTypeOK, SteadyFilesStay, Held,
         OldIsReferenced, UnsendingLetGo, PatchInProgress, CollectionIsSafe, MediaOf,
         Referenced, Sent
<1>2. BlobsInv /\ [BlobsNext]_blobsVars => BlobsInv'
  BY <1>1, BlobUploadStep, MessageStep, SweepStep, NoteStep, GcStep DEF BlobsNext
<1> QED
  BY BlobsInvInit, <1>2, PTL DEF BlobsSpec

\* Every state of Blobs has its types, and only a message that is being sent or
\* was sent names a blob.
THEOREM BlobsTypes == BlobsSpec => []BlobsTypeOK
<1>1. BlobsInv => BlobsTypeOK
  BY DEF BlobsInv
<1> QED
  BY BlobsInvariance, <1>1, PTL

\* No collection, sweep or unsend takes the file of a blob that something has
\* referred to since it was young and still does (blob_gc.gc_once).
THEOREM HeldFilesStay == BlobsSpec => []SteadyFilesStay
<1>1. BlobsInv => SteadyFilesStay
  BY DEF BlobsInv
<1> QED
  BY BlobsInvariance, <1>1, PTL
=============================================================================
