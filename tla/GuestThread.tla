----------------------------- MODULE GuestThread ------------------------------
(***************************************************************************)
(* One secret-link thread: its row and messages on the server, the guest's *)
(* page that polls it, and the sweep that removes it.                      *)
(*                                                                         *)
(* A link burns (its window opens with the guest's first request), is      *)
(* timed (its end is fixed at creation) or is kept.  A request reads the   *)
(* row, commits the start of the window if it found none, compares the     *)
(* time it took at its beginning with the end it knows, and only then does *)
(* its work, each a separate transaction step, so requests of the guest's  *)
(* page, the host's and the sweep interleave.                              *)
(*                                                                         *)
(* created_at is the start of the transaction that inserts the message, so *)
(* its order need not be the order in which messages commit.  Left out:    *)
(* attachments (see Blobs), calls, and the page's error screen, behind     *)
(* which it goes on polling.                                               *)
(***************************************************************************)
EXTENDS Naturals, Sequences, FiniteSets, Subsequences

CONSTANTS
  Messages,   \* the messages of the thread
  FromGuest,  \* those the guest writes; the others are the host's
  First,      \* the message the link is created with
  NoMessage,
  Loads,      \* loads of the guest's page that may be under way at once
  Burn,       \* burn_minutes
  Lifetime,   \* expires_in_days
  Grace,      \* how long an opened link stays after its window
  Unopened,   \* how long a link that burns waits for its guest
  LastVisit,  \* bound: no request of guest or host starts later
  MaxClock    \* bound on the clock

ASSUME ThreadAssumption ==
  /\ FromGuest \subseteq Messages /\ First \in Messages \ FromGuest
  /\ NoMessage \notin Messages
  /\ Burn \in Nat \ {0} /\ Lifetime \in Nat \ {0}
  /\ Grace \in Nat /\ Unopened \in Nat /\ LastVisit \in Nat
  /\ MaxClock \in Nat \ {0}

VARIABLES
  clock,
  thread,   \* the guest_threads row: "live", "revoked" by the host, or "swept"
  kind,     \* which of burn_minutes and expires_at it was created with
  expires,  \* expires_at; 0 is null
  armed,    \* history: when the first request of the guest committed expires_at
  order,    \* the messages in the order of created_at
  msg,      \* the request that writes each message
  load,     \* the loads of the guest's page, ...
  after,    \* ... the cursor each was asked with, ...
  got,      \* ... and its answer
  list,     \* msgs of the page
  last,     \* lastIdRef of the page
  sweep     \* the time at which the sweep in progress began; 0 is none

guestPage == <<after, got, list, last>>
row  == <<thread, kind, expires, armed>>
guestVars == <<clock, row, order, msg, load, guestPage, sweep>>

-----------------------------------------------------------------------------
Times == 0 .. MaxClock

ServerTypeOK ==
  /\ clock \in Times \ {0}
  /\ thread \in {"live", "revoked", "swept"}
  /\ kind \in {"burn", "timed", "kept"}
  /\ expires \in Nat
  /\ armed \in Times
  /\ order \in Seq(Messages)
  /\ msg \in [Messages -> [pc : {"none", "arming", "active", "sent", "failed"}, now : Times]]
  /\ load \in [Loads -> [pc : {"idle", "asked", "arming", "active", "answered"}, now : Times]]
  /\ sweep \in Times

\* With the page, which shows a message once, however its loads overlap; the
\* server's created_at are distinct.
GuestTypeOK ==
  /\ ServerTypeOK
  /\ after \in [Loads -> Messages \cup {NoMessage}]
  /\ got \in [Loads -> Seq(Messages)]
  /\ list \in Seq(Messages)
  /\ last \in Messages \cup {NoMessage}
  /\ Cardinality({order[i] : i \in DOMAIN order}) = Len(order)
  /\ last # NoMessage => \E i \in DOMAIN order : order[i] = last
  /\ \A i, j \in DOMAIN list : list[i] = list[j] => i = j

NoLoad == [pc |-> "idle", now |-> 0]

\* create_link has committed the thread and its first message.
GuestInit ==
  /\ clock = 1
  /\ thread = "live"
  /\ \/ kind \in {"burn", "kept"} /\ expires = 0
     \/ kind = "timed" /\ expires = 1 + Lifetime
  /\ armed = 0
  /\ order = <<First>>
  /\ msg = [m \in Messages |-> IF m = First THEN [pc |-> "sent", now |-> 1]
                                            ELSE [pc |-> "none", now |-> 0]]
  /\ load = [l \in Loads |-> NoLoad]
  /\ after = [l \in Loads |-> NoMessage]
  /\ got = [l \in Loads |-> <<>>]
  /\ list = <<>>
  /\ last = NoMessage
  /\ sweep = 0

-----------------------------------------------------------------------------
(* Helpers *)

Position(m) == CHOOSE i \in DOMAIN order : order[i] = m

Sent == {m \in Messages : thread = "live" /\ msg[m].pc = "sent"}

\* The committed messages newer than the cursor, in the order of created_at.
PageAfter(m) ==
  At(order, {i \in DOMAIN order :
               order[i] \in Sent /\ (m = NoMessage \/ i > Position(m))})

\* _active_thread at the present time, as far as its first await: it finds the
\* window not begun, or the link open, or refuses.
Unarmed  == thread = "live" /\ kind = "burn" /\ expires = 0
InWindow == thread = "live" /\ ~Unarmed /\ (expires = 0 \/ clock < expires)
Entered  == IF Unarmed THEN "arming" ELSE "active"

\* Mutant: the time is taken when the window is written.
ArmLate(now) ==
  /\ thread = "live"
  /\ expires' = clock + Burn
  /\ armed' = IF armed = 0 THEN clock ELSE armed
  /\ UNCHANGED <<thread, kind>>

\* The window begins at the time the request took when it read the row; a
\* request that read it as early may already have begun it.
Arm(now) ==
  /\ thread = "live"
  /\ expires' = now + Burn
  /\ armed' = IF armed = 0 THEN clock ELSE armed
  /\ UNCHANGED <<thread, kind>>

\* Mutants: an opened link still counts as never opened; a link that is never
\* opened is not looked for.
ThreadExpiredOpened(now) ==
  \/ kind = "timed" /\ expires < now
  \/ kind = "burn" /\ expires # 0 /\ expires + Grace < now
  \/ kind = "burn" /\ 1 + Unopened < now

ThreadExpiredIfOpened(now) ==
  \/ kind = "timed" /\ expires < now
  \/ kind = "burn" /\ expires # 0 /\ expires + Grace < now

\* sweep_once's thread_expired.
ThreadExpired(now) ==
  \/ kind = "timed" /\ expires < now
  \/ kind = "burn" /\ expires # 0 /\ expires + Grace < now
  \/ kind = "burn" /\ expires = 0 /\ 1 + Unopened < now

\* Mutant: what is already shown is appended again.
MergeAll(prev, next) == prev \o next

\* mergeDecoded of the page.
mergeDecoded(prev, next) ==
  prev \o At(next, {k \in DOMAIN next : \A i \in DOMAIN prev : prev[i] # next[k]})

-----------------------------------------------------------------------------
(* The guest's page: load, by poll, by activity on the socket, after a post *)

GuestAsks(l) ==
  /\ clock <= LastVisit /\ load[l].pc = "idle"
  /\ load' = [load EXCEPT ![l].pc = "asked"]
  /\ after' = [after EXCEPT ![l] = last]
  /\ UNCHANGED <<clock, row, order, msg, got, list, last, sweep>>

EnterLoad(l) ==
  /\ clock <= LastVisit /\ load[l].pc = "asked" /\ (Unarmed \/ InWindow)
  /\ load' = [load EXCEPT ![l] = [pc |-> Entered, now |-> clock]]
  /\ UNCHANGED <<clock, row, order, msg, guestPage, sweep>>

ArmLoad(l) ==
  /\ load[l].pc = "arming" /\ Arm(load[l].now)
  /\ load' = [load EXCEPT ![l].pc = "active"]
  /\ UNCHANGED <<clock, order, msg, guestPage, sweep>>

\* The messages are selected in a later statement, whatever has happened since.
AnswerLoad(l) ==
  /\ load[l].pc = "active"
  /\ load' = [load EXCEPT ![l].pc = "answered"]
  /\ got' = [got EXCEPT ![l] = PageAfter(after[l])]
  /\ UNCHANGED <<clock, row, order, msg, after, list, last, sweep>>

Forget(l) ==
  /\ load' = [load EXCEPT ![l] = NoLoad]
  /\ after' = [after EXCEPT ![l] = NoMessage]
  /\ got' = [got EXCEPT ![l] = <<>>]

\* Decrypted, the answer moves the cursor and is merged, or replaces the list
\* if the load was asked without a cursor.
ApplyLoad(l) ==
  /\ load[l].pc = "answered"
  /\ last' = IF got[l] = <<>> THEN last ELSE got[l][Len(got[l])]
  /\ list' = IF after[l] = NoMessage THEN got[l] ELSE mergeDecoded(list, got[l])
  /\ Forget(l)
  /\ UNCHANGED <<clock, row, order, msg, sweep>>

\* Refused (404, 410), failed on either side, or lost on the way.
FailLoad(l) ==
  /\ load[l].pc # "idle"
  /\ Forget(l)
  /\ UNCHANGED <<clock, row, order, msg, list, last, sweep>>

-----------------------------------------------------------------------------
(* Replies *)

\* A guest's passes _active_thread, the host's only _own_thread: the host may
\* still write into a thread whose window is over.
StartReply(m) ==
  /\ clock <= LastVisit /\ msg[m].pc = "none"
  /\ IF m \in FromGuest THEN Unarmed \/ InWindow ELSE thread = "live"
  /\ LET pc == IF m \in FromGuest THEN Entered ELSE "active"
     IN /\ msg' = [msg EXCEPT ![m] = [pc |-> pc, now |-> clock]]
        /\ order' = IF pc = "active" THEN Append(order, m) ELSE order
  /\ UNCHANGED <<clock, row, load, guestPage, sweep>>

\* The commit that begins the window ends the transaction.
ArmReply(m) ==
  /\ msg[m].pc = "arming" /\ Arm(msg[m].now)
  /\ msg' = [msg EXCEPT ![m].pc = "active"]
  /\ UNCHANGED <<clock, order, load, guestPage, sweep>>

\* The thread's last_message_at and the message; without the thread's row,
\* nothing.  After ArmReply this is a transaction of its own.
CommitReply(m) ==
  /\ msg[m].pc = "active" /\ thread = "live"
  /\ msg' = [msg EXCEPT ![m].pc = "sent"]
  /\ order' = IF \E i \in DOMAIN order : order[i] = m THEN order ELSE Append(order, m)
  /\ UNCHANGED <<clock, row, load, guestPage, sweep>>

FailReply(m) ==
  /\ msg[m].pc \in {"arming", "active"}
  /\ msg' = [msg EXCEPT ![m].pc = "failed"]
  /\ UNCHANGED <<clock, row, order, load, guestPage, sweep>>

-----------------------------------------------------------------------------
(* The end of a link *)

\* revoke_link; the messages cascade.
RevokeThread ==
  /\ thread = "live"
  /\ thread' = "revoked"
  /\ UNCHANGED <<clock, kind, expires, armed, order, msg, load, guestPage, sweep>>

\* A sweep takes its time once, ...
SweepBegin ==
  /\ sweep = 0
  /\ sweep' = clock
  /\ UNCHANGED <<clock, row, order, msg, load, guestPage>>

\* ... and deletes, statements later, if the row as it is then has expired.
SweepDelete ==
  /\ sweep # 0
  /\ thread' = IF thread = "live" /\ ThreadExpired(sweep) THEN "swept" ELSE thread
  /\ sweep' = 0
  /\ UNCHANGED <<clock, kind, expires, armed, order, msg, load, guestPage>>

SweepFails ==
  /\ sweep # 0
  /\ sweep' = 0
  /\ UNCHANGED <<clock, row, order, msg, load, guestPage>>

Tick ==
  /\ clock < MaxClock
  /\ clock' = clock + 1
  /\ UNCHANGED <<row, order, msg, load, guestPage, sweep>>

-----------------------------------------------------------------------------
GuestNext ==
  \/ \E l \in Loads : GuestAsks(l) \/ EnterLoad(l) \/ ArmLoad(l) \/ AnswerLoad(l)
                     \/ ApplyLoad(l) \/ FailLoad(l)
  \/ \E m \in Messages : StartReply(m) \/ ArmReply(m) \/ CommitReply(m) \/ FailReply(m)
  \/ RevokeThread \/ SweepBegin \/ SweepDelete \/ SweepFails
  \/ Tick

\* Time passes, the loop sweeps for ever and does not fail for ever.
Fairness == WF_guestVars(Tick) /\ WF_guestVars(SweepBegin) /\ SF_guestVars(SweepDelete)

GuestSpec == GuestInit /\ [][GuestNext]_guestVars /\ Fairness

-----------------------------------------------------------------------------
(* Properties *)

\* Nobody reads or writes through a link whose time is over: whatever the guest
\* is given, or gives, it asked for less than Burn after the first opening (before
\* the end of a timed link), also when several first requests race to begin the
\* window (guest._active_thread).
InTime(now) ==
  /\ kind = "burn" => armed # 0 /\ now < armed + Burn
  /\ kind = "timed" => now < 1 + Lifetime

WindowHolds ==
  /\ \A l \in Loads : load[l].pc \in {"active", "answered"} => InTime(load[l].now)
  /\ \A m \in FromGuest : msg[m].pc \in {"active", "sent"} => InTime(msg[m].now)

\* A link the guest has opened stays Grace beyond its window for the host to read
\* the replies, also if the guest opens it while a sweep is under way
\* (retention.sweep_once).
OpenedLinksStay ==
  [][thread = "live" /\ thread' = "swept" /\ kind = "burn" /\ armed # 0
       => expires + Grace < clock]_guestVars

\* A link that burns or is timed is not kept for ever, opened or not.
LinksEnd == kind # "kept" ~> thread # "live"

\* "Slow fallback poll - ... this only catches anything the socket missed": when no
\* load is under way, a message the page does not show is one its next poll asks for.
PollMissesNothing ==
  (\A l \in Loads : load[l].pc = "idle") =>
    \A m \in Sent : \/ last = NoMessage
                      \/ \E i \in DOMAIN list : list[i] = m
                      \/ Position(m) > Position(last)
=============================================================================
