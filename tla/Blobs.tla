------------------------------- MODULE Blobs --------------------------------
(***************************************************************************)
(* The encrypted attachments of one account: files in the media store,     *)
(* their ownership rows (media_blobs), and what refers to them - messages  *)
(* and the attachments of a note.                                          *)
(*                                                                         *)
(* The file system knows no transactions: a file is saved before its row   *)
(* commits, and unsend_message and the retention sweep delete files before *)
(* the transaction that removes the reference commits, or fails.  The      *)
(* daily collection (blob_gc) lists old files, reads the references and    *)
(* deletes in separate steps while requests go on.                         *)
(*                                                                         *)
(* Time is the age of a file and of a row: "young" for less than           *)
(* _GRACE_SECONDS, then "old".  The clients upload anew for every message, *)
(* so a blob is in one message or in the note, not in several places.      *)
(***************************************************************************)
EXTENDS FiniteSets

CONSTANTS
  Blobs,     \* the ids media_store.save may return
  Messages   \* the messages with an attachment that may be sent

VARIABLES
  account,    \* the users row exists
  file,       \* the file of each blob
  row,        \* the media_blobs row of each blob
  uploading,  \* blobs whose upload has saved the file and not ended
  msg,        \* each message and the blob its media column names
  unsending,  \* unsend requests that have deleted the file, not committed
  expired,    \* messages past their retention or disappearing window
  sweep,      \* the messages whose files the retention sweep in progress deleted
  sweeping,   \* a retention sweep is between its deletions and its commit
  noted,      \* the blobs in the note's attachments
  patch,      \* what an update_note in progress will write
  patching,   \* an update_note is between its ownership check and its commit
  gc,         \* the collection
  steady      \* history: blobs referred to since they were young, without a break

requests == <<uploading, unsending, patch, patching>>
sweeps   == <<sweep, sweeping>>
blobsVars == <<account, file, row, requests, msg, expired, sweeps, noted, gc, steady>>

-----------------------------------------------------------------------------
Ages == {"none", "young", "old", "gone"}
Here == {"young", "old"}
Gc   == [pc : {"idle", "listed", "read", "deleted"},
         candidates : SUBSET Blobs,   \* the old files it listed
         referenced : SUBSET Blobs,   \* referenced_ids
         orphans    : SUBSET Blobs]   \* the rows it will delete

BlobsTypeOK ==
  /\ account \in BOOLEAN
  /\ file \in [Blobs -> Ages]
  /\ row \in [Blobs -> Ages]
  /\ uploading \in SUBSET Blobs
  /\ msg \in [Messages -> [pc : {"none", "checked", "sent", "unsent", "swept", "failed"},
                           media : SUBSET Blobs]]
  /\ \A m \in Messages : msg[m].media = {} <=> msg[m].pc \notin {"checked", "sent"}
  /\ unsending \in SUBSET Messages
  /\ expired \in SUBSET Messages
  /\ sweep \in SUBSET Messages
  /\ sweeping \in BOOLEAN
  /\ noted \in SUBSET Blobs
  /\ patch \in SUBSET Blobs
  /\ patching \in BOOLEAN
  /\ gc \in Gc
  /\ steady \in SUBSET Blobs

NoGc == [pc |-> "idle", candidates |-> {}, referenced |-> {}, orphans |-> {}]

BlobsInit ==
  /\ account = TRUE
  /\ file = [b \in Blobs |-> "none"]
  /\ row = [b \in Blobs |-> "none"]
  /\ uploading = {}
  /\ msg = [m \in Messages |-> [pc |-> "none", media |-> {}]]
  /\ unsending = {}
  /\ expired = {}
  /\ sweep = {}
  /\ sweeping = FALSE
  /\ noted = {}
  /\ patch = {}
  /\ patching = FALSE
  /\ gc = NoGc
  /\ steady = {}

-----------------------------------------------------------------------------
(* Helpers *)

\* The blobs of messages that were sent and not unsent or swept.
MediaOf(M) == {b \in Blobs : \E m \in M : b \in msg[m].media}
Sent       == {m \in Messages : msg[m].pc = "sent"}

\* referenced_ids, over what is committed.
Referenced == MediaOf(Sent) \cup noted

\* The blobs some request has in hand.
InHand == uploading \cup patch \cup MediaOf({m \in Messages : msg[m].pc = "checked"})

Used == MediaOf(Messages) \cup noted \cup patch

\* assert_owned and owned_ids: the row exists.
Owned(b) == row[b] \in Here

Remove(files) ==
  file' = [b \in Blobs |-> IF b \in files /\ file[b] \in Here THEN "gone" ELSE file[b]]

-----------------------------------------------------------------------------
(* Uploads, and time *)

\* upload_media: the body is saved as a file ...
Save(b) ==
  /\ account /\ file[b] = "none"
  /\ file' = [file EXCEPT ![b] = "young"]
  /\ uploading' = uploading \cup {b}
  /\ UNCHANGED <<account, row, msg, unsending, expired, sweeps, noted, patch, patching, gc, steady>>

\* ... and media_owner.record's row commits, ...
Record(b) ==
  /\ account /\ b \in uploading
  /\ row' = [row EXCEPT ![b] = "young"]
  /\ uploading' = uploading \ {b}
  /\ UNCHANGED <<account, file, msg, unsending, expired, sweeps, noted, patch, patching, gc,
                 steady>>

\* ... or the request fails and leaves a file without a row.
UploadFails(b) ==
  /\ b \in uploading
  /\ uploading' = uploading \ {b}
  /\ UNCHANGED <<account, file, row, msg, unsending, expired, sweeps, noted, patch, patching, gc,
                 steady>>

\* A day passes.  No request lasts that long, so no blob a request has in hand ages.
FileAges(b) ==
  /\ file[b] = "young" /\ b \notin InHand
  /\ file' = [file EXCEPT ![b] = "old"]
  /\ UNCHANGED <<account, row, requests, msg, expired, sweeps, noted, gc, steady>>

\* The row is written after the file.
RowAges(b) ==
  /\ row[b] = "young" /\ file[b] # "young"
  /\ row' = [row EXCEPT ![b] = "old"]
  /\ UNCHANGED <<account, file, requests, msg, expired, sweeps, noted, gc, steady>>

-----------------------------------------------------------------------------
(* Messages *)

\* send_message checks the row of the blob it will refer to ...
CheckMedia(m, b) ==
  /\ account /\ msg[m].pc = "none" /\ Owned(b) /\ b \notin Used
  /\ msg' = [msg EXCEPT ![m] = [pc |-> "checked", media |-> {b}]]
  /\ steady' = IF file[b] = "young" THEN steady \cup {b} ELSE steady
  /\ UNCHANGED <<account, file, row, requests, expired, sweeps, noted, gc>>

\* ... and commits the message without looking again, ...
CommitSend(m) ==
  /\ account /\ msg[m].pc = "checked"
  /\ msg' = [msg EXCEPT ![m].pc = "sent"]
  /\ UNCHANGED <<account, file, row, requests, expired, sweeps, noted, gc, steady>>

\* ... or fails.
SendFails(m) ==
  /\ msg[m].pc = "checked"
  /\ msg' = [msg EXCEPT ![m] = [pc |-> "failed", media |-> {}]]
  /\ steady' = steady \ msg[m].media
  /\ UNCHANGED <<account, file, row, requests, expired, sweeps, noted, gc>>

\* unsend_message deletes the file at once ...
Unsend(m) ==
  /\ account /\ msg[m].pc = "sent" /\ m \notin unsending
  /\ Remove(msg[m].media)
  /\ unsending' = unsending \cup {m}
  /\ steady' = steady \ msg[m].media
  /\ UNCHANGED <<account, row, uploading, msg, expired, sweeps, noted, patch, patching, gc>>

\* Mutant: the media column is not cleared.
CommitUnsendKeepsMedia(m) ==
  /\ m \in unsending /\ msg[m].pc = "sent"
  /\ msg' = [msg EXCEPT ![m].pc = "unsent"]
  /\ unsending' = unsending \ {m}
  /\ UNCHANGED <<account, file, row, uploading, expired, sweeps, noted, patch, patching, gc,
                 steady>>

\* ... and its media column with the commit, if the row is still there; ...
CommitUnsend(m) ==
  /\ m \in unsending /\ msg[m].pc = "sent"
  /\ msg' = [msg EXCEPT ![m] = [pc |-> "unsent", media |-> {}]]
  /\ unsending' = unsending \ {m}
  /\ UNCHANGED <<account, file, row, uploading, expired, sweeps, noted, patch, patching, gc,
                 steady>>

\* ... a rollback leaves the message without its file.
UnsendFails(m) ==
  /\ m \in unsending
  /\ unsending' = unsending \ {m}
  /\ UNCHANGED <<account, file, row, uploading, msg, expired, sweeps, noted, patch, patching, gc,
                 steady>>

\* A message's window passes (or its conversation's retention is shortened).
Expire(m) ==
  /\ msg[m].pc = "sent" /\ m \notin expired
  /\ expired' = expired \cup {m}
  /\ UNCHANGED <<account, file, row, requests, msg, sweeps, noted, gc, steady>>

\* sweep_once selects the media of the expired messages and deletes the files.
SweepFiles ==
  /\ ~sweeping
  /\ sweeping' = TRUE
  /\ sweep' = Sent \cap expired
  /\ Remove(MediaOf(Sent \cap expired))
  /\ steady' = steady \ MediaOf(Sent \cap expired)
  /\ UNCHANGED <<account, row, requests, msg, expired, noted, gc>>

\* Its DELETE finds those messages and perhaps some that expired since.
SweepCommit ==
  /\ sweeping
  /\ \E more \in SUBSET (expired \ sweep) :
       LET deleted == Sent \cap (sweep \cup more)
       IN /\ msg' = [m \in Messages |-> IF m \in deleted
                                        THEN [pc |-> "swept", media |-> {}] ELSE msg[m]]
          /\ steady' = steady \ MediaOf(deleted)
  /\ sweeping' = FALSE
  /\ sweep' = {}
  /\ UNCHANGED <<account, file, row, requests, expired, noted, gc>>

SweepFails ==
  /\ sweeping
  /\ sweeping' = FALSE
  /\ sweep' = {}
  /\ UNCHANGED <<account, file, row, requests, msg, expired, noted, gc, steady>>

-----------------------------------------------------------------------------
(* The note *)

\* update_note (or delete_note, with nothing) checks the rows of the
\* attachments it will write; an editor left open may put one back.
CheckAttachments(wanted) ==
  /\ account /\ ~patching
  /\ \A b \in wanted : Owned(b) /\ b \notin MediaOf(Messages)
  /\ patching' = TRUE
  /\ patch' = wanted
  /\ steady' = steady \cup {b \in wanted : file[b] = "young"}
  /\ UNCHANGED <<account, file, row, uploading, unsending, msg, expired, sweeps, noted, gc>>

\* A blob of the old attachments that is not in the new ones is let go.
CommitPatch ==
  /\ account /\ patching
  /\ noted' = patch
  /\ steady' = steady \ (noted \ patch)
  /\ patching' = FALSE
  /\ patch' = {}
  /\ UNCHANGED <<account, file, row, uploading, unsending, msg, expired, sweeps, gc>>

PatchFails ==
  /\ patching
  /\ patching' = FALSE
  /\ patch' = {}
  /\ steady' = steady \ (patch \ noted)
  /\ UNCHANGED <<account, file, row, uploading, unsending, msg, expired, sweeps, noted, gc>>

\* delete_me: the rows and the note cascade, the messages stay.
DeleteAccount ==
  /\ account
  /\ account' = FALSE
  /\ row' = [b \in Blobs |-> IF row[b] \in Here THEN "gone" ELSE row[b]]
  /\ noted' = {}
  /\ steady' = steady \ (noted \cup patch)
  /\ UNCHANGED <<file, requests, msg, expired, sweeps, gc>>

-----------------------------------------------------------------------------
(* blob_gc_loop: one collection at a time (advisory lock) *)

\* Mutant: no age floor.
GcListAll ==
  /\ gc.pc = "idle"
  /\ gc' = [gc EXCEPT !.pc = "listed", !.candidates = {b \in Blobs : file[b] \in Here}]
  /\ UNCHANGED <<account, file, row, requests, msg, expired, sweeps, noted, steady>>

GcList ==
  /\ gc.pc = "idle"
  /\ gc' = [gc EXCEPT !.pc = "listed", !.candidates = {b \in Blobs : file[b] = "old"}]
  /\ UNCHANGED <<account, file, row, requests, msg, expired, sweeps, noted, steady>>

GcRead ==
  /\ gc.pc = "listed"
  /\ gc' = [gc EXCEPT !.pc = "read", !.referenced = Referenced]
  /\ UNCHANGED <<account, file, row, requests, msg, expired, sweeps, noted, steady>>

\* Mutant: only the rows of the files it removed are dropped.
GcDeleteFilesOnly ==
  /\ gc.pc = "read"
  /\ Remove(gc.candidates \ gc.referenced)
  /\ gc' = [gc EXCEPT !.pc = "deleted",
                      !.orphans = {b \in gc.candidates \ gc.referenced : row[b] = "old"}]
  /\ UNCHANGED <<account, row, requests, msg, expired, sweeps, noted, steady>>

GcDelete ==
  /\ gc.pc = "read"
  /\ Remove(gc.candidates \ gc.referenced)
  /\ gc' = [gc EXCEPT !.pc = "deleted",
                      !.orphans = {b \in Blobs \ gc.referenced : row[b] = "old"}]
  /\ UNCHANGED <<account, row, requests, msg, expired, sweeps, noted, steady>>

GcCommit ==
  /\ gc.pc = "deleted"
  /\ row' = [b \in Blobs |-> IF b \in gc.orphans /\ row[b] \in Here THEN "gone" ELSE row[b]]
  /\ gc' = NoGc
  /\ UNCHANGED <<account, file, requests, msg, expired, sweeps, noted, steady>>

\* A failed tick: the files stay deleted, the rows stay.
GcFails ==
  /\ gc.pc # "idle"
  /\ gc' = NoGc
  /\ UNCHANGED <<account, file, row, requests, msg, expired, sweeps, noted, steady>>

-----------------------------------------------------------------------------
BlobsNext ==
  \/ \E b \in Blobs : Save(b) \/ Record(b) \/ UploadFails(b) \/ FileAges(b) \/ RowAges(b)
  \/ \E m \in Messages : \/ \E b \in Blobs : CheckMedia(m, b)
                         \/ CommitSend(m) \/ SendFails(m)
                         \/ Unsend(m) \/ CommitUnsend(m) \/ UnsendFails(m) \/ Expire(m)
  \/ SweepFiles \/ SweepCommit \/ SweepFails
  \/ \E wanted \in SUBSET Blobs : CheckAttachments(wanted)
  \/ CommitPatch \/ PatchFails
  \/ DeleteAccount
  \/ GcList \/ GcRead \/ GcDelete \/ GcCommit \/ GcFails

\* Days pass, and the daily collection, however often a tick fails, is not
\* stopped at the same point for ever.
Fairness ==
  /\ \A b \in Blobs : WF_blobsVars(FileAges(b)) /\ WF_blobsVars(RowAges(b))
  /\ WF_blobsVars(GcList)
  /\ SF_blobsVars(GcRead) /\ SF_blobsVars(GcDelete) /\ SF_blobsVars(GcCommit)

BlobsSpec == BlobsInit /\ [][BlobsNext]_blobsVars /\ Fairness

-----------------------------------------------------------------------------
(* Properties *)

\* No file is lost behind a reference's back: a blob that a message or the note
\* has referred to since it was young keeps its file until an unsend, a sweep or
\* an edit of the note lets go of it, however the collection's listing, reading
\* and deleting interleave with requests (blob_gc.gc_once, media_store.list_ids).
SteadyFilesStay == \A b \in steady : file[b] \in Here

\* Storage comes back: a blob that nothing refers to or has in hand from some
\* point on ends up with neither file nor row, so it stops counting towards the
\* quota, whichever request, sweep or collection died half-way.
OrphansAreReclaimed ==
  \A b \in Blobs :
    <>[](b \notin Referenced \cup InHand) => <>[](file[b] \notin Here /\ row[b] \notin Here)
=============================================================================
