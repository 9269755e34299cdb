------------------------------- MODULE Notes -------------------------------
(***************************************************************************)
(* Private notes: the editor with its autosave, its queue of saves and its *)
(* attachments (NoteEditor.tsx, RichNoteEditor.tsx), deletion from the list*)
(* (NotesList.tsx), and the rows behind them (routers/notes.py).           *)
(*                                                                         *)
(* Title and body are one text, and a text is the number of the edit that  *)
(* made it: 0 is empty, a larger number is a later text.  An editor is one *)
(* mounting of the component, in any tab or device; its promises run on    *)
(* after it is unmounted.                                                  *)
(* Going from one note straight to another (a jump in the browser's        *)
(* history) is left out, as are the keys: an editor has that of its note.  *)
(***************************************************************************)
EXTENDS Naturals, Sequences, FiniteSets

CONSTANTS
  Editors,
  NoteIds,
  Files,
  None,
  Existing,   \* notes that may be there at the start
  MaxText,    \* bound: edits made
  MaxChain    \* bound: saves queued in one editor

ASSUME NoneIsNothing == None \notin NoteIds /\ None \notin Editors
ASSUME ExistingNotes == Existing \subseteq NoteIds
ASSUME BoundsAreNumbers == MaxText \in Nat \ {0} /\ MaxChain \in Nat

VARIABLES
  note,    \* rows of notes
  ed,      \* state and refs of an editor
  chain,   \* saveChain: the saves that are queued, the first of them running
  reqs,    \* requests under way, with the answer once there is one
  attach,  \* addAttachment under way
  typed,   \* number of the latest text
  wrote    \* history: the text of an editor's last save that reached its row

vars == <<note, ed, chain, reqs, attach, typed, wrote>>

-----------------------------------------------------------------------------
(* Types *)

Texts == 0..MaxText
Opt(S) == S \cup {None}

Note == [state : {"free", "live", "deleted"}, text : Texts, files : SUBSET Files,
         by : Opt(Editors)]                    \* by: history, the editor that wrote it last
Editor == [at : {"new", "mounted", "left"},
           step : {"loading", "keyed", "ready"},  \* keyRef is set from "keyed" on
           got : [text : Texts, files : SUBSET Files],
           note : Opt(NoteIds),
           text : Texts, files : SUBSET Files,
           dirty : BOOLEAN,
           status : {"idle", "saving", "saved", "error"},
           timer : Texts]                      \* the text autosave will save
QueuedSave == [text : Texts, why : {"edit", "attach", "back"},
         shown : BOOLEAN]                      \* history: asked for once the note was shown
Request == [ed : Editors, why : {"edit", "attach", "back", "file"}, kind : {"create", "patch", "upload"},
            note : Opt(NoteIds), text : Texts, files : SUBSET Files,
            shown : BOOLEAN,
            state : {"sent", "done", "failed"}]
Attach == [step : {"none", "create", "upload", "save"}, text : Texts,
           file : SUBSET Files]                \* file: the one file, or none

Mounted(e) == ed[e].at = "mounted"

TypeOK ==
  /\ note \in [NoteIds -> Note]
  /\ ed \in [Editors -> Editor]
  /\ \A e \in Editors : chain[e] \in Seq(QueuedSave) /\ Len(chain[e]) <= MaxChain
  /\ reqs \subseteq Request
  /\ attach \in [Editors -> Attach]
  /\ typed \in Texts
  /\ wrote \in [Editors -> Texts]
  /\ \A e \in Editors :  \* what an editor edits exists or existed
       ed[e].note # None => note[ed[e].note].state # "free"
  /\ \A e \in Editors :  \* no autosave of a page that is left
       ~Mounted(e) => ed[e].timer = 0

Blank == [at |-> "new", step |-> "loading", got |-> [text |-> 0, files |-> {}],
          note |-> None, text |-> 0, files |-> {}, dirty |-> FALSE, status |-> "idle",
          timer |-> 0]
Row(text, files, by) == [state |-> "live", text |-> text, files |-> files, by |-> by]
Free == [Row(0, {}, None) EXCEPT !.state = "free"]
Deleted == [Row(0, {}, None) EXCEPT !.state = "deleted"]
NoAttach == [step |-> "none", text |-> 0, file |-> {}]

Init ==
  /\ \E old \in SUBSET Existing, files \in SUBSET Files :
       /\ note = [n \in NoteIds |-> IF n \in old THEN Row(1, files, None) ELSE Free]
       /\ typed = IF old = {} THEN 0 ELSE 1
  /\ ed = [e \in Editors |-> Blank]
  /\ chain = [e \in Editors |-> <<>>]
  /\ reqs = {}
  /\ attach = [e \in Editors |-> NoAttach]
  /\ wrote = [e \in Editors |-> 0]

-----------------------------------------------------------------------------
(* Helpers *)

Shown(e) == ed[e].step = "ready"
Keyed(e) == ed[e].step # "loading"
\* Mutant: the effect of the autosave has no cleanup.
CloseKeepsTimer(editor) == [Blank EXCEPT !.at = "left", !.step = editor.step, !.note = editor.note,
                                         !.files = editor.files, !.timer = editor.timer]

\* Unmounted: the timer is cleared, the state is gone, the refs are not.
Close(editor) == [Blank EXCEPT !.at = "left", !.step = editor.step, !.note = editor.note,
                               !.files = editor.files]
Closed(e) == [ed EXCEPT ![e] = Close(@)]
Room(e) == Len(chain[e]) < MaxChain
Enqueue(e, text, why) == chain' = [chain EXCEPT ![e] = Append(@, [text |-> text, why |-> why,
                                                             shown |-> Shown(e)])]
Saves(e) == {r \in reqs : r.ed = e /\ r.why # "file"}    \* of the chain
Steps(e) == {r \in reqs : r.ed = e /\ r.why = "file"}    \* of addAttachment itself
AtWork(e) == chain[e] # <<>> \/ attach[e].step # "none" \/ \E r \in reqs : r.ed = e

Asked(e, kind, n, save) ==
  [ed |-> e, why |-> save.why, kind |-> kind, note |-> n, text |-> save.text,
   files |-> ed[e].files, shown |-> save.shown, state |-> "sent"]
AskedNow(e) == [text |-> ed[e].text, why |-> "file", shown |-> Shown(e)]
Send(r) == reqs' = reqs \cup {r}

-----------------------------------------------------------------------------
(* Opening a note: the effect on id *)

Open(e, n) ==
  /\ ed[e].at = "new"
  /\ n # None => note[n].state # "free"
  /\ ed' = [ed EXCEPT ![e] = [Blank EXCEPT !.at = "mounted", !.note = n]]
  /\ UNCHANGED <<note, chain, reqs, attach, typed, wrote>>

\* A new note has its key at once.
MintKey(e) ==
  /\ Mounted(e) /\ ed[e].step = "loading"
  /\ ed[e].note = None
  /\ ed' = [ed EXCEPT ![e].step = "ready", ![e].timer = IF ed[e].dirty THEN ed[e].text ELSE 0]
  /\ UNCHANGED <<note, chain, reqs, attach, typed, wrote>>

\* The row is there and its key unwrapped; keyRef is set, also when unmounted.
Fetch(e) ==
  /\ Mounted(e) /\ ed[e].step = "loading"
  /\ ed[e].note # None
  /\ note[ed[e].note].state = "live"
  /\ ed' = [ed EXCEPT ![e].step = "keyed",
                      ![e].got = [text |-> note[ed[e].note].text,
                                  files |-> note[ed[e].note].files]]
  /\ UNCHANGED <<note, chain, reqs, attach, typed, wrote>>

\* Decrypted: it takes the place of what was typed meanwhile.
Show(e) ==
  /\ Mounted(e) /\ ed[e].step = "keyed"
  /\ ed' = [ed EXCEPT ![e].step = "ready", ![e].text = ed[e].got.text,
                      ![e].files = ed[e].got.files,
                      ![e].timer = IF ed[e].dirty THEN ed[e].got.text ELSE 0]
  /\ UNCHANGED <<note, chain, reqs, attach, typed, wrote>>

LoadFails(e) ==
  /\ Mounted(e) /\ ed[e].step # "ready"
  /\ ed[e].note # None
  /\ ed' = Closed(e)
  /\ UNCHANGED <<note, chain, reqs, attach, typed, wrote>>

-----------------------------------------------------------------------------
(* Editing and the autosave *)

\* onTitle (the title can be edited before the note is loaded), onBody.
Edit(e) ==
  /\ Mounted(e)
  /\ typed < MaxText
  /\ typed' = typed + 1
  /\ ed' = [ed EXCEPT ![e].text = typed + 1, ![e].dirty = TRUE, ![e].status = "idle",
                      ![e].timer = IF ed[e].step = "ready" THEN typed + 1 ELSE 0]
  /\ UNCHANGED <<note, chain, reqs, attach, wrote>>

\* Mutant: no save is asked for while one is running.
AutosaveUnlessSaving(e) ==
  /\ ed[e].timer # 0
  /\ Room(e)
  /\ IF chain[e] = <<>> THEN Enqueue(e, ed[e].timer, "edit") ELSE UNCHANGED chain
  /\ ed' = [ed EXCEPT ![e].timer = 0]
  /\ UNCHANGED <<note, reqs, attach, typed, wrote>>

Autosave(e) ==
  /\ ed[e].timer # 0
  /\ Room(e)
  /\ Enqueue(e, ed[e].timer, "edit")
  /\ ed' = [ed EXCEPT ![e].timer = 0]
  /\ UNCHANGED <<note, reqs, attach, typed, wrote>>

-----------------------------------------------------------------------------
(* save: one run of the chain at a time *)

\* The head of the chain is done with, with this outcome.
Settled(e, ok, editor) ==
  /\ ed' = [ed EXCEPT ![e] = IF @.at = "left" \/ (ok /\ Head(chain[e]).why = "back")
                               THEN Close(editor) ELSE editor]
  /\ chain' = [chain EXCEPT ![e] = Tail(@)]
  /\ attach' = IF Head(chain[e]).why = "attach" THEN [attach EXCEPT ![e] = NoAttach] ELSE attach

Nothing(e) == ed[e].note = None /\ Head(chain[e]).text = 0 /\ ed[e].files = {}

\* Without a key nothing can be saved; an empty new note need not be.
SkipSave(e) ==
  /\ chain[e] # <<>> /\ Saves(e) = {}
  /\ \/ ~Keyed(e) /\ Settled(e, FALSE, ed[e])
     \/ Keyed(e) /\ Nothing(e) /\ Settled(e, TRUE, ed[e])
  /\ UNCHANGED <<note, reqs, typed, wrote>>

\* Mutant: a save does not wait for the one before it.
RunSaveAtOnce(e) ==
  /\ chain[e] # <<>>
  /\ Keyed(e) /\ ~Nothing(e)
  /\ \E i \in 1..Len(chain[e]) :
       /\ Cardinality(Saves(e)) < Len(chain[e])
       /\ ed' = [ed EXCEPT ![e].status = IF Mounted(e) THEN "saving" ELSE @]
       /\ Send(Asked(e, IF ed[e].note = None THEN "create" ELSE "patch", ed[e].note,
                     chain[e][i]))
  /\ UNCHANGED <<note, chain, attach, typed, wrote>>

\* Mutant: the list of attachments is that of the save's closure, not the mirror.
RunSaveOfClosure(e) ==
  /\ chain[e] # <<>> /\ Saves(e) = {}
  /\ Keyed(e) /\ ~Nothing(e)
  /\ ed' = [ed EXCEPT ![e].status = IF Mounted(e) THEN "saving" ELSE @]
  /\ LET r == Asked(e, IF ed[e].note = None THEN "create" ELSE "patch", ed[e].note,
                     Head(chain[e]))
     IN Send(IF Head(chain[e]).why = "attach"
               THEN [r EXCEPT !.files = @ \ attach[e].file] ELSE r)
  /\ UNCHANGED <<note, chain, attach, typed, wrote>>

\* The note and the attachments are those of the refs, now; the text is that of
\* the render save belongs to.
RunSave(e) ==
  /\ chain[e] # <<>> /\ Saves(e) = {}
  /\ Keyed(e) /\ ~Nothing(e)
  /\ ed' = [ed EXCEPT ![e].status = IF Mounted(e) THEN "saving" ELSE @]
  /\ Send(Asked(e, IF ed[e].note = None THEN "create" ELSE "patch", ed[e].note,
                Head(chain[e])))
  /\ UNCHANGED <<note, chain, attach, typed, wrote>>

SaveDone(e) ==
  \E r \in Saves(e) :
    /\ r.state = "done"
    /\ reqs' = reqs \ {r}
    /\ Settled(e, TRUE, [ed[e] EXCEPT !.note = r.note, !.dirty = FALSE, !.status = "saved"])
    /\ UNCHANGED <<note, typed, wrote>>

SaveFailed(e) ==
  \E r \in Saves(e) :
    /\ r.state = "failed"
    /\ reqs' = reqs \ {r}
    /\ Settled(e, FALSE, [ed[e] EXCEPT !.status = "error"])
    /\ UNCHANGED <<note, typed, wrote>>

-----------------------------------------------------------------------------
(* Requests *)

Answer(r, state, n) == reqs' = (reqs \ {r}) \cup {[r EXCEPT !.state = state, !.note = n]}

Wrote(r) == wrote' = IF r.why \in {"edit", "back"} /\ r.shown
                     THEN [wrote EXCEPT ![r.ed] = r.text]
                     ELSE wrote

Writer(r) == IF r.shown THEN r.ed ELSE None

\* create_note
Create(r) ==
  LET n == CHOOSE x \in NoteIds : note[x].state = "free" IN
  /\ r.state = "sent" /\ r.kind = "create"
  /\ \E x \in NoteIds : note[x].state = "free"
  /\ note' = [note EXCEPT ![n] = Row(r.text, r.files, Writer(r))]
  /\ Answer(r, "done", n)
  /\ Wrote(r)
  /\ UNCHANGED <<ed, chain, attach, typed>>

\* update_note
Patch(r) ==
  /\ r.state = "sent" /\ r.kind = "patch"
  /\ note[r.note].state = "live"
  /\ note' = [note EXCEPT ![r.note] = Row(r.text, r.files, Writer(r))]
  /\ Answer(r, "done", r.note)
  /\ Wrote(r)
  /\ UNCHANGED <<ed, chain, attach, typed>>

\* upload_note_media
Upload(r) ==
  /\ r.state = "sent" /\ r.kind = "upload"
  /\ note[r.note].state = "live"
  /\ Answer(r, "done", r.note)
  /\ UNCHANGED <<note, ed, chain, attach, typed, wrote>>

\* Refused, or lost on the way there or back.
Fails(r) ==
  /\ r.state # "failed"
  /\ Answer(r, "failed", r.note)
  /\ UNCHANGED <<note, ed, chain, attach, typed, wrote>>

-----------------------------------------------------------------------------
(* Attachments *)

\* addAttachment: the note has to exist first; ensureNote is called outside the
\* chain, and the save at the end is that of this render.
AddAttachment(e, f) ==
  /\ Mounted(e) /\ Keyed(e)
  /\ attach[e].step = "none"
  /\ f \notin ed[e].files
  /\ LET new == ed[e].note = None IN
     /\ attach' = [attach EXCEPT ![e] = [step |-> IF new THEN "create" ELSE "upload",
                                         text |-> ed[e].text, file |-> {f}]]
     /\ Send(Asked(e, IF new THEN "create" ELSE "upload", ed[e].note, AskedNow(e)))
  /\ UNCHANGED <<note, ed, chain, typed, wrote>>

AttachCreated(e) ==
  \E r \in Steps(e) :
    /\ r.state = "done" /\ r.kind = "create"
    /\ ed' = [ed EXCEPT ![e].note = r.note]
    /\ attach' = [attach EXCEPT ![e].step = "upload"]
    /\ reqs' = (reqs \ {r}) \cup {[r EXCEPT !.kind = "upload", !.state = "sent"]}
    /\ UNCHANGED <<note, chain, typed, wrote>>

AttachUploaded(e) ==
  \E r \in Steps(e) :
    /\ r.state = "done" /\ r.kind = "upload"
    /\ Room(e)
    /\ ed' = [ed EXCEPT ![e].files = @ \cup attach[e].file, ![e].dirty = Mounted(e)]
    /\ Enqueue(e, attach[e].text, "attach")
    /\ attach' = [attach EXCEPT ![e].step = "save"]
    /\ reqs' = reqs \ {r}
    /\ UNCHANGED <<note, typed, wrote>>

AttachFailed(e) ==
  \E r \in Steps(e) :
    /\ r.state = "failed"
    /\ attach' = [attach EXCEPT ![e] = NoAttach]
    /\ reqs' = reqs \ {r}
    /\ UNCHANGED <<note, ed, chain, typed, wrote>>

RemoveAttachment(e, f) ==
  /\ Mounted(e) /\ f \in ed[e].files
  /\ Room(e)
  /\ ed' = [ed EXCEPT ![e].files = @ \ {f}, ![e].dirty = TRUE]
  /\ Enqueue(e, ed[e].text, "edit")
  /\ UNCHANGED <<note, reqs, attach, typed, wrote>>

-----------------------------------------------------------------------------
(* Leaving *)

\* back: with nothing unsaved the note is left at once, else after the save.
Back(e) ==
  /\ Mounted(e)
  /\ \/ ~ed[e].dirty /\ ed' = Closed(e) /\ UNCHANGED chain
     \/ ed[e].dirty /\ Room(e) /\ Enqueue(e, ed[e].text, "back") /\ UNCHANGED ed
  /\ UNCHANGED <<note, reqs, attach, typed, wrote>>

\* The browser leaves the page.
Leave(e) ==
  /\ Mounted(e)
  /\ ed' = Closed(e)
  /\ UNCHANGED <<note, chain, reqs, attach, typed, wrote>>

\* remove: only a note whose id is known is deleted.
Delete(e) ==
  /\ Mounted(e)
  /\ \/ ed[e].note = None /\ UNCHANGED note
     \/ /\ ed[e].note # None /\ note[ed[e].note].state = "live"
        /\ note' = [note EXCEPT ![ed[e].note] = Deleted]
  /\ ed' = Closed(e)
  /\ UNCHANGED <<chain, reqs, attach, typed, wrote>>

DeleteFromList(n) ==
  /\ note[n].state = "live"
  /\ note' = [note EXCEPT ![n] = Deleted]
  /\ UNCHANGED <<ed, chain, reqs, attach, typed, wrote>>

-----------------------------------------------------------------------------

Loading(e) == MintKey(e) \/ Fetch(e) \/ Show(e) \/ LoadFails(e)
Saving(e) == Autosave(e) \/ SkipSave(e) \/ RunSave(e) \/ SaveDone(e) \/ SaveFailed(e)
Attaching(e) == AttachCreated(e) \/ AttachUploaded(e) \/ AttachFailed(e)
Served(r) == Create(r) \/ Patch(r) \/ Upload(r) \/ Fails(r)
ServedSave(e) == \E r \in Saves(e) : Served(r)
ServedStep(e) == \E r \in Steps(e) : Served(r)

Next ==
  \/ \E e \in Editors :
       \/ Loading(e) \/ Saving(e) \/ Attaching(e)
       \/ ServedSave(e) \/ ServedStep(e)
       \/ \E n \in Opt(NoteIds) : Open(e, n)
       \/ Edit(e) \/ Back(e) \/ Leave(e) \/ Delete(e)
       \/ \E f \in Files : AddAttachment(e, f) \/ RemoveAttachment(e, f)
  \/ \E n \in NoteIds : DeleteFromList(n)

\* The timer fires, promises are run, requests are answered or time out; what
\* the user does is not promised.
Fair == \A e \in Editors :
          /\ WF_vars(Autosave(e)) /\ WF_vars(SkipSave(e) \/ RunSave(e))
          /\ WF_vars(SaveDone(e) \/ SaveFailed(e))
          /\ WF_vars(Attaching(e))
          /\ WF_vars(ServedSave(e)) /\ WF_vars(ServedStep(e))

Spec == Init /\ [][Next]_vars /\ Fair

-----------------------------------------------------------------------------
(* Properties *)

\* "two PATCHes could land out of order" (NoteEditor.tsx): the saves of one
\* editor reach the row in the order of the edits, but for the save at the end of
\* an attachment, which has the text of the render the file was chosen in.
SavesInOrder ==
  [][\A e \in Editors : wrote'[e] >= wrote[e]]_vars

\* When all is quiet the row lists the files the editor shows, if that editor was
\* the last to write it: adding and removing files while saves are queued loses
\* none of them (attachmentsRef, saveChain).
FilesAsShown ==
  \A e \in Editors :
    Mounted(e) /\ ed[e].note # None /\ ed[e].status = "saved" /\ ~AtWork(e) =>
      \/ note[ed[e].note].by # e
      \/ note[ed[e].note].state # "live"
      \/ note[ed[e].note].files = ed[e].files

\* What is typed is saved without being asked for, or the editor says that it
\* could not be, unless more is typed or the page is left (the debounced autosave).
EditsAreSaved ==
  \A e \in Editors : \A v \in Texts \ {0} :
    ed[e].timer = v ~>
      ~Mounted(e) \/ ed[e].text # v \/ ed[e].status = "error" \/ \E n \in NoteIds : note[n].text = v

\* "Don't leave unsaved edits behind" (NoteEditor.tsx, back): the note is left by
\* the back button only when what it shows is in the row.
NothingLeftBehind ==
  [][\A e \in Editors :
       Back(e) /\ Mounted(e) /\ ed'[e].at = "left" /\ ed[e].step = "ready" =>
         wrote[e] >= ed[e].text \/ ed[e].text = ed[e].got.text]_vars

\* "a create racing a second create would make two notes" (NoteEditor.tsx): an
\* editor makes at most one note.
OneNoteEach ==
  \A e \in Editors : Cardinality({n \in NoteIds : note[n].by = e /\ note[n].state # "free"}) <= 1
=============================================================================
