# TLA+ models and proofs of Kryptovox

Kryptovox is a self-hosted, end-to-end encrypted messenger: a FastAPI backend
(PostgreSQL, Redis, a media directory) run as several gunicorn workers, and a
React client. This directory holds TLA+ specifications of the parts of it whose
correctness depends on the order in which things happen, the TLC configurations
that check them on small instances, and TLAPS proofs of their most important
properties. `PROJECT.json` lists, for every definition, the source lines it
stands for.

## 1. The system

Three facts about the backend shape every model:

* **Requests are transactions that wait.** A handler is a coroutine with one
  database session (`database.get_db`). Postgres runs READ COMMITTED, the
  session does not autoflush, and it commits when the handler returns unless the
  handler commits earlier. Between a read and the commit lie awaits (bcrypt in a
  thread, Redis, further statements), at each of which other requests of the
  same and of other workers run, and at each of which the worker may die.
* **What is not Postgres is not rolled back**: published events, Redis keys,
  files in the media directory.
* **Events are best effort.** A `Hub` per worker holds the WebSockets that
  worker accepted; `publish_user` goes through Redis to every worker. An event
  is lost if Redis fails, if no socket is open, or if the socket breaks.

### Components

| Component | State it keeps | Operations | Hard behaviour | What makes it correct |
|---|---|---|---|---|
| Sessions and tokens (`routers/auth.py`, `deps.py`, `services/sessions.py`, `services/ws_ticket.py`) | `users.token_version`, `devices`, `auth_tokens`; stateless access tokens; Redis tickets | register, login, refresh, logout, WS ticket; revocations by password change, recovery, admin reset, enrolment, device revocation, account deletion | reads used after an await; two revocations at once; publish before commit | evicted sessions cannot come back; accepted tokens are newer than the last reset; sockets of revoked devices close; nobody is signed out by accident |
| Second factor at sign-in (`routers/auth.py`, `services/twofa_guard.py`, `security.py`) | `totp_last_step`, backup codes; Redis failure counter and used-token markers | 2FA by TOTP, backup code, passkey | parallel attempts, retries, Redis outages, keys that lapse, crashes between Redis calls | one session per pending token and per code; guesses bounded; lockouts end |
| Second-factor settings and policy (`routers/twofa.py`, `services/stepup.py`, `services/app_settings.py`) | factors of an account; per-worker policy cache | enrol, verify, disable, regenerate; toggle policy | cache of another worker; two removals at once | an account under the policy always keeps a factor; the policy takes effect |
| Hub and fan-out (`ws/hub.py`, `ws/endpoint.py`, `services/fanout.py`) | sockets per user and worker | register, publish, deliver, drop | handshake races, lost envelopes | a revocation reaches every socket it names |
| Messages and the client's copy (`routers/messages.py`, `store/chat.ts`, `hooks/useWebSocket.ts`, `pages/ChatView.tsx`) | `messages`; in the client a list, texts, a paging cursor | send, edit, unsend, read page, events, resync | events and pages applied after an asynchronous decryption, in any order; lost events | unsending is final; no duplicates; the client converges to the server |
| Read state and disappearing messages (`routers/messages.py`, `routers/conversations.py`) | `last_read_at`, `disappear_started_at`, unread counts | mark read / unread, set window | stale counts, two readers | counts agree after a load; the timer starts once |
| Attachments (`routers/media.py`, `services/media_*.py`, `services/blob_gc.py`, `services/retention.py`, `routers/notes.py`) | files; `media_blobs`; references in messages and notes | upload, send, unsend, sweep, note edit, daily collection | files have no transactions; a collection in steps | a referenced file is not lost; garbage is reclaimed |
| Quota and upload slots (`services/quota.py`) | Redis counter, SUM of rows | take and give back a slot, check quota | two-call Redis sequences, expiry | at most the limit upload at once |
| Conversations (`routers/conversations.py`, `pages/ChatInfo.tsx`, `store/chat.ts`, the sheets that begin one) | `conversations`, `conversation_members`; in the client the list, the info page | create, add, remove, leave, settings, load, swipe | check-then-act on membership; events that go to whom was read before the change; loads that overtake each other | the list follows the membership; an emptied conversation is reclaimed |
| Chat page and input bar (`pages/ChatView.tsx`, `components/InputBar.tsx`, `lib/drafts.ts`) | whose members it writes to, the bar, the message edited or answered, drafts | type, send, edit, reply, forward, attach, switch, leave | one component kept while the chat changes under it; answers that come late | the bar is the draft of the chat on screen; the members are this chat's; a text is sent once |
| Notes (`pages/NoteEditor.tsx`, `routers/notes.py`) | `notes`; the editor's state, refs and chain of saves | open, edit, autosave, attach, go back, delete | closures of a render run later; refs outlive the page | saves in order; no edit forgotten; files as shown |
| 1:1 calls (`ws/calls.py`, `store/calls.ts`, `CallOverlay.tsx`) | call state and peer connection per client; Redis queue of frames | call, accept, decline, hang up, relay, flush | glare, late frames, hang-up during `getUserMedia`, queue replay | nobody is left alone in a call; an idle client holds no camera; one talks only to the peer shown |
| Secret links (`routers/links.py`, `routers/guest.py`, `ws/guest_ws.py`) | `guest_threads`, guest messages, buffered call offer | create, open (starts the burn timer), reply, poll, revoke, call | burn race, cursor by time, expiry under an open socket | nothing is readable after the burn; no reply is skipped |
| Owner's side of secret links (`pages/SecretLinkThread.tsx`, `ConversationList.tsx`, `NewSecretLinkSheet.tsx`, `routers/links.py`) | the list, the sheet, a thread's key, cursor and messages | list, create, open, change thread, load, send, attach, share a place, delete | one component kept while the thread changes; refs read again after awaits; overlapping loads | what is posted is sealed with its thread's key; the page shows messages of its thread |
| Push and presence (`services/push.py`, `services/presence.py`) | presence keys, push tokens | mark online / offline, notify | two sockets of one device | an active device is online |
| Accounts and identity keys (`store/auth.ts`, `lib/api.ts`, `pages/Login.tsx`, `routers/users.py`, `routers/recovery.py`) | `users` with the wrapped key; in a browser a key pair, tokens, a cookie, a lock | restore, sign in, first key, change and recover the password, sign out, delete | requests that read before and write after each other; what a browser keeps outlives its session | the key opens with the password; key and session are of one account; signed out stays out |
| Administration (`routers/admin.py`) | roles, the registration policy | register, grant admin, delete | first user, last admin | an administrator remains |
| Cryptography, UI, packaging | - | - | none of their own | not modelled |

Interactions: revocations (sessions) publish `session.revoked` through the hub,
which closes sockets; message requests publish through the fan-out to the
client store, which repairs losses by resync over REST; messages, notes and
secret links refer to blobs that the sweep and the collection delete; calls and
typing use the same sockets; a membership changed by one user reaches the lists
of the others through `conversation.updated`; the identity key restored or
recovered at sign-in is what chats, notes and attachments are opened with; the second
factor gates the issuing of sessions and of tickets.

The hazards this exposes the code to are listed with their lines in
`PROJECT.json` ("hazards"); the properties below are aimed at them.

## 2. Modules

| Module | What it is |
|---|---|
| `Sessions` | one account's sessions, the requests that end them, and its sockets |
| `SignIn` | abstract: what the second step of signing in promises |
| `SecondFactor` | the two endpoints that complete a sign-in, with their Redis guards; implements `SignIn` |
| `ChatSync` | one conversation on the server and in one client |
| `Blobs` | one account's attachments: files, rows, references, sweep and collection |
| `GuestThread` | one secret link: its row, its messages, the guest's page and the sweep |
| `Calls` | the call stores of three clients, the relay and its buffer |
| `Identity` | accounts with their wrapped keys, and what browsers keep of them |
| `Notes` | the note editor's chain of saves, and the rows it reaches |
| `Composer` | the chat page and input bar of one user over several chats |
| `Links` | the owner's list, sheet and page of secret links, and the server's rows behind them |
| `Groups` | conversations and their members on the server, and one client's list and info page |
| `Subsequences` | the elements of a sequence at some of its positions, used where the code keeps rows or list entries in their order |
| `MC*` | the instances TLC explores: constants, symmetry, bounds |
| `*Proofs` | the theorems about a module and their TLAPS proofs; those about `Sessions` are in `SecondFactorProofs`, those about `Blobs` in `NotesProofs`, those about `GuestThread` in `LinksProofs` |

### Sessions

An account, its devices (one per login) with the refresh-token row of each, and
every access token handed out. A request that revokes is a record that goes
`idle -> read -> revoking -> published -> done`, which are the points where the
code waits: after its read of the account (bcrypt), after the snapshot of
`revoke_sessions`' UPDATE, after the publish of `session.revoked`, and the
commit. `by` is `except_device_id`, `bump` says whether the request raises
`token_version` (password change, recovery, admin reset do; `_enabled_here`
does not). `tv` in the record is the version as the request read it: the ORM
writes that value plus one. Row locks appear as `Locked`: an UPDATE waits for
another transaction that has changed the same row. `login` and `refresh` have a
read step and a minting step. `logout` and `revoke_device` publish first and
commit later. `socket` walks a handshake through ticket, device check and
registration.

`epoch` (committed resets) and `due` (sockets that were open when a revocation
for their device was published to their worker) are history variables.

### SignIn, SecondFactor

`SignIn` has one variable, the set of sessions opened, and one action that opens
a session with a pending token not used before and, if it uses a TOTP code, a
step newer than all used before. `SecondFactor` is the code: a request decodes
its token, takes the row lock (`complete_2fa` only), reads the lockout counter
and the used marker, verifies, counts a failure or claims the token (SET NX),
clears the counter and commits - each a step, each Redis call able to fail, each
step able to be the last. A failed lockout read lets the request pass, a failed
replay read or claim refuses it, as `twofa_guard` does. Tokens, the counter and
the markers lapse; a marker outlives its token by five minutes, longer than a
request runs, which is the guard of `MarkerLapses`. The refinement mapping is
`sessions <- Sessions`, the sessions opened without the backup code.

### ChatSync

The server: `order` is the order of `created_at`, which is the start of the
transaction, and `rows` what is committed, so a message can appear behind a page
already read. Events sit in `outbox` from commit to publish. The client: frames
arrive in order, but `message.new` and `message.edit` are applied only after an
asynchronous decryption (`pending`), as are answers to its own requests and the
previews of the conversation list; page fetches (`load`) are asked, read on the
server, and applied, each a step. A text is a number; zero is no text. The
`loadingOlder` ref of the view is part of the state because a failed fetch
leaves it set.

### Blobs

A file and its ownership row have an age: young for less than the grace period
of one day, then old. Two-step requests (upload, send, unsend, note edit) hold
blobs between their steps, the retention sweep deletes files and then commits,
the collection goes `listed -> read -> deleted` and then commits, and all of
them may fail between steps, which undoes rows but not files. No request lasts a
day, so a blob in a request's hands does not turn old (the assumption the grace
period in `blob_gc` makes too). The client uploads a blob for each use, so a
blob is not shared by two messages.

### GuestThread

The guest's page may have several loads under way (poll, socket activity, after a
post). A load is `asked` with the page's cursor, `arming` when the server found the
burn window not begun (the commit of `expires_at` is a step of its own, with the time
taken before it), `active` once past `_active_thread`, `answered` when the messages
are selected, and applied after decryption. Replies go the same way; the host's skip
the window. `order` is the order of `created_at`, the start of the transaction that
inserts; a guest's reply that began the window inserts in a second transaction.
The sweep takes its time at its beginning and its `DELETE` judges the row as it is
then. `armed` (when the window was first committed) is a history variable. The error
screen of the page is left out; behind it the page goes on polling. A thread's
attachments, its calls and the owner's page (`Links`) are not in this module.
`GuestTypeOK` says also that the page lists a message once, however its loads overlap.

### Calls

A client is the call store (`status`, `peer`, `pendingOffer`) with the module
variables `pc` and `localStream`. Each call of `getUserMedia` is a member of
`Prompts` and names the stream and the connection made with it. `startCall` and
`accept` are cut where they wait: at the prompt, and while the browser makes a
description (`describing`); the continuation acts on the store as it is by then
(`StartGranted`, `AcceptGranted`, `OfferMade`, `AnswerMade`). `Reset` is
`teardown` and `reset`: it stops what the store holds, and leaves open prompts
behind as orphans. `OnOffer`, `OnAnswer`, `OnEnd` are `onSignal`. The relay fans
out (`FanOut`) and buffers (`Buffer`) in two steps; a reconnecting socket is
registered, then its buffer is read, then deleted and sent. `call` in frames and
clients and `strayed` are history: which call a frame was meant for, and which
clients acted on something of an earlier one.

### Identity

On the server an account has a password, a published key, a wrapped key and a
recovery key; a session is a refresh token with its device. A browser has what it
stores (`disk`: key pair, refresh token, cookie, lock) and what is in memory
(`app`: `useAuth`, the access token, App's lock). `bootstrap` is `Boot` and the
five ways it can end; `login`, `complete2fa` and `submitRecovery` are
continuations in `task`, cut at every request; `CommitChange` is the commit of a
password change begun before. An access token that has expired or was bumped is
`stale`; the refresh that follows a 401 is a request whose answer may come late
(`late`). `tainted` marks accounts whose wrapped key need not fit any more (an
administrator's reset, an upgrade or a publication that raced a change), `mixed`
browsers restored before their account had a key or signed in with a token of
another account.

### Notes

An editor is one mounting of `NoteEditor`; its refs (`keyRef`, `attachmentsRef`,
the note's id) and its chain of saves live on after it is left. A save is queued
with the text of the render it belongs to and reads the refs when it runs
(`RunSave`). `addAttachment` creates the note, uploads and saves, outside the
chain until the last. Requests are served, refused or lost at any time; any
number of editors may have the same note open. A text is the number of the edit.

### Composer

`page` is the state of `ChatView` and `InputBar` that a change of chat keeps:
the roster it encrypts for, the message edited or answered, the text, the
disabled button. `Switch` is a change of the route's id without unmounting
(palette, forwarding), `Mount` and `Unmount` the rest. Effects that React runs
after a render are part of the action that causes them (`Bar` is the effect that
stores the draft). Requests of the page outlive it; `live` says whether the page
that asked is still there. `hasty` marks a page that changed chat while the
answer of an earlier opening was under way.

### Links

`page` is what is on screen: the list of links, with its sheet, or the page of one
thread with its refs (`key`, `last`). A `task` is an async function of a component
that has not ended: a load of a thread, a post of one of the four kinds, a load of
the list, a creation, a deletion. It is cut at its awaits, reads the refs as they are
by then, and is `live` while the component that began it is mounted. `Jump` is the
change of the route's id under the same component (a notification, the banner of a
call): its cleanup empties the refs, and everything under way goes on; `crossed`
marks that something was. `Leave` unmounts. A key is named like its thread, so a post
records the set of keys it was sealed with, and a shown message the key it was opened
with. Of a link's end only that it ends is here: `Revoke*` by the owner, `Swept` by the
sweep; when is in `GuestThread`. `TypeOK` says also that a button is off exactly while
the page waits for what it began.

### Groups

A request goes through its handler's transactions: `Check` (`require_member`,
roles), `Recipients` (who is to be told), `Delete` (flushed, with the count of
who is left), `CommitRemoval`, `Publish`. A flushed delete holds the row, and an
insert or delete of the same row waits for it (`Locked`). `AskElsewhere` are the
requests of all clients but Me's, which may be stale and ask for anything. Me's
client has the list and its loads, and the page `ChatInfo`. The sweep finds
empty conversations and deletes them in a second step. `astray` marks why the
list may be wrong although nothing is under way, until a newest load repairs it;
`missed` in a removal marks that Me had no row when it read who is to be told.

## 3. Properties, runs and bounds

All runs finish within five minutes with two workers. `CHECK_DEADLOCK` is on for
`identity`, `composer` and `groups`, where somebody can always do
something. It is off where the system may come to rest: all logins or tokens used
up (`sessions`, `second_factor`), nothing left to send or collect (`chat_sync`,
`blobs`), a link gone (`guest_thread`), all links
gone and messages used up (`links`), all prompts used up (`calls`), every editor
left (`notes`).

| Run | Instance | Shows |
|---|---|---|
| `sessions` | 2 devices, 2 resets, 1 socket, 1 worker | `EvictedSessionsStayOut`, `AcceptedTokensAreFresh`, `RevocationReachesSockets`, `CallerKeepsItsSession` |
| `second_factor` | 2 tokens, 3 attempts, 1 backup code, 2 failures to a lockout, 2 TOTP steps, Redis may fail | `GuessesBounded`, `KeepsPromise` (refinement of `SignIn`) |
| `chat_sync` | 2 messages (one own), 1 edit, pages of 1, 2 fetches | `UnsendIsFinal`, `OnlyPagingDuplicates`, `Reconciles` |
| `blobs` | 2 blobs, 1 message, 1 note | `SteadyFilesStay`, `OrphansAreReclaimed` |
| `guest_thread` | 2 messages, 2 loads at once, every kind of link, 5 clock values | `WindowHolds`, `OpenedLinksStay`, `LinksEnd` |
| `calls` | 3 clients, 3 prompts, 1 lost socket, 2 frames or continuations at once | `TalksToPeer`, `IdleReleasesMedia`, `NoHalfOpenCall` |
| `identity` | 2 accounts (one with a second factor, one legacy), 2 browsers, 2 keys, 2 tokens, 2 passwords | `KeyOpensWithPassword`, `SignedInKeyIsTheAccounts`, `SignedOutStaysOut`, `PublishedKeyStays` |
| `notes` | 1 editor, 2 notes (one may exist), 1 file, 2 texts, 2 saves queued | `FilesAsShown`, `SavesInOrder`, `EditsAreSaved` |
| `composer` | 2 chats (one a group), 2 messages, 2 requests, 2 openings | `BarIsDraft`, `RosterIsOfThisChat` |
| `groups` | 2 users, 1 conversation, 2 requests at once, 4 in all, 2 loads | `ListFollowsMembership`, `EmptiedAreReclaimed` |
| `links` | 2 links, 3 messages, 2 tasks at once | `KeysMatch` |
| `backup_code` | as `second_factor`, Redis up | `BackupCodeSpentOnce` **fails** |

Each passing run also checks the module's `TypeOK` (`SessionsTypeOK`, `BlobsTypeOK`,
`GuestTypeOK`), which holds, besides types, what relates the variables at all times (a
client that rings has an offer of the peer it shows; no autosave of a page that is left;
a member row names an existing account).

Bounds and why they are enough:

* `MCSessions` lets at most two requests be between their first and last step
  (`MaxInFlight`), and explores sockets and a second reset in separate
  behaviours. The races are between two requests, or a request and a handshake;
  the proofs cover every other combination. Broker failures are off in this run;
  the proofs cover both values of `BrokerMayFail`.
* `MaxClock` bounds the TOTP steps: two clock values with one step of skew either
  way make four codes, so older, equal and newer codes meet.
* In `MCSecondFactor` three attempts allow two to race while a third retries.
* `MCChatSync` bounds what is in flight (requests, events, frames, fetches) to
  two. Pages of one message make both paging and a full page occur with two messages.
* In `MCBlobs` two blobs make "an old attachment is replaced by another" and "one
  blob in the message, one in the note" possible. No symmetry is used because a
  liveness property is checked.
* In `MCGuestThread` requests start at two clock values (`LastVisit`), so that two
  first requests have different times and a third can come after the shorter window;
  `MaxClock` is beyond the last moment at which a link of any kind can end.
* `MCCalls`: three clients make a third caller and glare possible, three prompts two
  calls and a prompt that outlives the first; `MaxInFlight` counts frames and due
  continuations, so two frames, or a frame and a continuation, can overtake each
  other. `MaxDrops` bounds lost sockets.
* `MCIdentity` explores either both accounts on one browser or one account on both
  (`Main`, `First`), with at most two requests and continuations under way
  (`MaxBusy`); lock, recovery key and what follows an unfitting key only with one of
  each. The theorems cover every other combination.
* `MCNotes`: one editor, since no property is about two; the row may still be
  deleted from the list under it. Two texts make a save that overtakes another
  visible; two queued saves and an attachment's requests overlap. No symmetry
  (liveness).
* `MCComposer`: what goes on at once is bounded by `MaxAtOnce`: two posts, or a post
  and an opening, and so on. Two chats make the chat before and the chat on screen.
* `MCLinks`: two links are the thread before and the thread on screen; two tasks are a
  post and a load, or two loads, that overlap. The last of the three messages comes only
  with a thread on screen and nothing crossed. With three tasks at once the two
  properties hold as well (20 million states, beyond five minutes on two workers).
* `MCGroups` bounds requests, loads and events under way by `MaxAtOnce`, and has a
  setting changed only while nothing else is under way, since settings touch no
  membership. Four requests let a conversation be made, somebody be removed twice and
  added back in between; the fourth, and what it overlaps, is about members, with
  `ChatInfo` closed. It is a state constraint: a behaviour that must leave it to go on is
  cut, so `EmptiedAreReclaimed` is checked over the behaviours within it; the sweep
  itself needs nothing that the constraint counts.
* Symmetry is used only in runs with safety properties.

### The properties that hold

* `EvictedSessionsStayOut`: a refresh token matched by a committed revocation is
  never live again, whatever refresh was past its check.
* `AcceptedTokensAreFresh`: if `token_version` has counted every committed reset,
  an accepted access token was minted after the last - also one minted by a login
  or refresh that straddled it. The proviso is not idle: see `ResetKillsAccessTokens` below.
* `CallerKeepsItsSession`: a refresh token stops being live only by age, its own
  device's logout or revocation, the account's deletion, or a revocation by
  somebody else.
* `RevocationReachesSockets`: a revocation published to a worker with an open
  socket of that device closes it or is still to be read.
* `KeepsPromise`, `GuessesBounded`: see `SignIn`; with Redis up, never more wrong
  codes than the limit, thanks to the row lock held across read and increment.
* `UnsendIsFinal`: an edit that overlaps an unsend does not bring the message back.
* `OnlyPagingDuplicates`: no step but the completion of `loadOlder` makes a message
  appear twice.
* `Reconciles`: if page loads keep completing, the client ends up showing the
  server's newest page for good. The premise is about the user and the network,
  not the code: the code guarantees no fairness here, so the property states what
  it needs.
* `SteadyFilesStay`: a blob referred to without a break since it was young keeps
  its file until the reference is given up.
* `OrphansAreReclaimed`: a blob that is and stays unreferenced and in nobody's hands
  loses both its file and its row.
* `WindowHolds`: whatever the guest is given or gives was asked for within `Burn` of
  the first opening, though racing first requests each write their own end.
* `OpenedLinksStay`: a sweep deletes an opened link only after its grace, also if it
  is opened while the sweep is under way.
* `LinksEnd`: a link that burns or is timed is eventually gone, opened or not.
* `TalksToPeer`: the remote description of a client's connection was made by the peer
  it shows.
* `IdleReleasesMedia`: an idle client has stopped its tracks and closed its
  connections, whichever of the six ways its calls ended.
* `NoHalfOpenCall`: when everything is delivered and no socket was lost, the peer of a
  client in a call is in that call. These three except clients that acted on a prompt,
  a connection or a frame of an earlier call (`strayed`): for those the code does
  leave cameras on and calls half open.
* `KeyOpensWithPassword`: the wrapped key is the published one and opens with the
  present password, through overlapping changes, recoveries, upgrades and first
  sign-ins, but for the accounts in `tainted`.
* `SignedInKeyIsTheAccounts`: a signed-in browser has the key its account has
  published, but for the browsers in `mixed`.
* `SignedOutStaysOut`: after a sign-out that was served, no cookie, stored token, late
  answer or reload signs the browser in.
* `PublishedKeyStays`: of two first sign-ins the later adopts the key of the earlier.
* `SavesInOrder`: the saves of one editor reach the row in the order of the edits.
* `FilesAsShown`: when an editor is quiet and was the last to write its row, the row
  lists the files it shows.
* `EditsAreSaved`: what is typed is saved or reported as failed, unless more is typed or
  the page is left.
* `BarIsDraft`: the bar of a page that edits nothing is the stored draft of its chat.
* `RosterIsOfThisChat`: what is sent is encrypted for members of the chat on screen,
  if chats are not changed faster than they load (`hasty`).
* `KeysMatch`: what the owner posts to a link is sealed with that link's key, and the
  page holds that key and shows messages of that thread, also after changing thread,
  but for what was under way at the change (`crossed`).
* `ListFollowsMembership`: when nothing is under way Me's list has exactly the
  conversations Me is in, but for the cases in `astray`: answers of loads that overtake
  each other, a leave answered after Me was added back, a conversation deleted under
  somebody added after the count, and a Me added back after a second removal had read
  who is to be told: that one deletes Me's new row, and nobody tells Me.
* `EmptiedAreReclaimed`: a conversation without members goes, also when its last two
  members leave at once and each counts the other.

Fairness in `GuestThread`: time passes; `retention_loop` starts a sweep for ever (`WF`)
and, as it catches every exception, sweeps do not all fail (`SF` on `SweepDelete`).
Fairness in `Blobs`: files and rows age (time passes); the daily loop is
started for ever (`WF` on `GcList`) and, although any tick may fail, it does not fail at
the same point for ever (`SF` on `GcRead`, `GcDelete`, `GcCommit`).
`blob_gc_loop` catches every exception and sleeps until the next day, so a
tick always follows.
Fairness in `Notes`: the timer fires, queued promises run, and every request is
answered, refused or times out (`WF` on each of these per editor); nothing is assumed
of the user. Fairness in `Groups`: the hourly loop finds empty conversations and
deletes them (`WF` on `SweepFinds` and `SweepDeletes`; it catches exceptions and comes
back). `Calls`, `Identity`, `Composer` and `Links` state no liveness.

### The properties that fail

`PROJECT.json` ("findings") quotes what the program says.

* `backup_code`: `complete_2fa` marks a code used inside a dict that is shared
  between the loaded list and the list assigned back; SQLAlchemy compares the two,
  finds them equal and writes nothing.

### Statements the code does not keep

Each of these definitions says what a comment of the program says, and TLC refutes it:
put the definition into the named configuration in the place of its properties
(a state formula under `INVARIANTS`, one with `[][...]_vars` or `~>` under
`PROPERTIES`).

| Definition | Configuration | What the program says | What happens |
|---|---|---|---|
| `ResetKillsAccessTokens` | `MCSessions` | `security.py:40-41`, a reset ends outstanding access tokens | two overlapping resets both write `token_version` read plus one; a token minted between the commits outlives the second |
| `RevokedDeviceHasNoSocket` | `MCSessions` | `devices.py:99`, `ws/endpoint.py:58-59`, a revoked device is cut off | a handshake past its check registers after `session.revoked` was delivered |
| `LockoutEnds` | `MCSecondFactor` | `twofa_guard.py:26`, the lockout lasts its window | a worker that dies between `INCR` and `EXPIRE` leaves a counter without expiry |
| `ReconnectReconciles` | `MCChatSync` | `useWebSocket.ts:51-52`, a resync catches up | a page read before a live `message.new` and applied after it takes the message away |
| `PollMissesNothing` | `MCGuestThread` with a third message | `GuestView.tsx:123-124`, a poll fetches what is new | a reply whose transaction began earlier commits later; no poll asks for it |
| `ReplayedOfferDeduped` | `MCCalls` | `ws/calls.py:121-122`, "the client dedupes a replayed offer" | it answers the offer it rings for with busy, which ends the caller's call |
| `FullySignedOut` | `MCIdentity` | `auth.py:469-471`, "must still end up fully signed out" | a sign-out with an expired access token is refused and ignored; the cookie signs in again at the next start |
| `ForeignKeyNotPaired` | `MCIdentity` | `auth.ts:158-160`, a key of another account is not paired with the session | nothing to compare with before the account has published one |
| `EscapeUnlocks` | `MCIdentity` | `LockGate.tsx:6`, signing out prevents a permanent lockout | signing in again leads back to the lock screen |
| `SignInKeepsPassword` | `MCIdentity` | `users.py:80`, `auth.py:230-236`, the upgrade of a legacy hash | it writes the old password back over a change that committed meanwhile |
| `NothingLeftBehind` | `MCNotes` | `NoteEditor.tsx:263-264`, "Don't leave unsaved edits behind" | a save of an older text that ends meanwhile clears `dirty` |
| `OneNoteEach` | `MCNotes` | `NoteEditor.tsx:40-41`, creates do not race | `addAttachment` creates outside the chain |
| `RosterFollowsList` | `MCComposer` | `ChatView.tsx:157-159`, the roster is kept current | an opening answered after a newer list puts the older members back |
| `LeavingRestoresDraft` | `MCComposer` | `InputBar.tsx:45`, leaving an edit restores the draft | the effect that saves the bar runs before the one that restores the draft |
| `ReadableByItsMembers` | `MCComposer` | what is sent is encrypted for the members of its chat | what is sent before the chat was loaded is encrypted for nobody; on a page that changed chat twice, for the members of the chat before, taken from a late answer |
| `RostersFollow` | `MCGroups` with a third user | `ChatView.tsx:157-159`, the roster is kept current | who is told of a leaving or a removal is read before the change; a member added, told and loaded in between keeps listing the one who left |
| `Readable` | `MCLinks` | `SecretLinkThread.tsx:126-128`, the previous thread's key is dropped before the new one loads | a load of the previous thread fills the ref after the cleanup; what is sent next to the new thread is sealed with the old one's key |
| `DeletedIsGone` | `MCLinks` | `SecretLinkThread.tsx:292`, "The recipient will lose access" | a deletion that failed looks like one that was served |
| `ShownStays` | `MCLinks` | `SecretLinkThread.tsx:30`, loads append what is new | two first loads overlap, and the older answer replaces the list |

## 4. Proofs

The `*Proofs` modules prove for every value of the constants, under the named `ASSUME`s of
the modules, which only say that absent values are absent and that bounds are numbers
(`Notes`: that there is an edit to make; `Composer`: that a chat can be posted to at least
once; `Groups`: that there is room for the first load; `Links`: that there is a slot for a
task, and room for the first post of every thread, which are finitely many):

| Module | Theorems |
|---|---|
| `SecondFactorProofs` | `TypeCorrect`, `GuessBound`, `Refinement`; of `Sessions`: `SessionsTypes`, `EvictionSticks`, `FreshTokens`, `RevocationReaches`, `CallerKeepsSession` |
| `ChatSyncProofs` | `ServerTypes`, `UnsendSticks`, `TypeCorrect`, `NothingTwice` |
| `LinksProofs` | `TypeCorrect`, `OwnersKeys`; of `GuestThread`: `GuestTypes`, `ServerTypes`, `WindowIsKept`, `OpenedLinksKept` |
| `GroupsProofs` | `TypeCorrect`, `ListIsKept` |
| `IdentityProofs` | `TypeCorrect`, `KeyOpens`, `SignedInKey`, `SignedOut`, `KeyStays` |
| `CallsProofs` | `CallTypes`, `PeerIsTalkedTo`, `MediaAreReleased`, `NobodyIsLeftAlone` |
| `ComposerProofs` | `TypeCorrect`, `DraftIsKept`, `WritesToThisChat` |
| `NotesProofs` | `TypeCorrect`, `RowListsFiles`, `SavesKeepOrder`; of `Blobs`: `BlobsTypes`, `HeldFilesStay` |

`SecondFactorProofs` also has the theorems about the sessions that a sign-in opens. It
extends both modules, so the definitions of `Sessions` that every module has bear its
name: `SessionsInit`, `SessionsNext`, `SessionsSpec`, `SessionsTypeOK`. In the same way
`NotesProofs` has the theorems about the files that notes and messages refer to, and
the names of `Blobs` are `BlobsInit`, `BlobsNext`, `BlobsSpec`, `BlobsTypeOK`; and
`LinksProofs` has those about the guest's side of a secret link, with the names
`GuestInit`, `GuestNext`, `GuestSpec`, `GuestTypeOK`.

With these every invariant and action property that the passing runs check is a theorem;
`BackupCodeSpentOnce` is refuted by its run, and what is left to TLC is named at the end
of this section.

The inductive invariants (`IInv` in each module, `SessionsInv` for `Sessions`,
`BlobsInv` for `Blobs`, `GuestInv` and `PageInv` for `GuestThread`):

* *Sessions.* That a token is fresh follows from `VersionsLagEpochs`: every
  version in circulation - the row's, a login's, a reset's, a token's - is at most
  the number of resets at the time it was read. If the row's version then equals
  the number of resets, a token carrying it was minted in the present epoch. That
  evicted sessions stay out needs `RowsFollowLogins`: a matched row exists, so no
  login is still to create it. That revocations reach sockets needs that a socket
  one is due to is past its handshake.
* *SecondFactor.* The lock is exclusive; a claim is exclusive because its marker
  is there, or its token expired and nobody who decoded it in time is left
  (`NoSecondClaim`); a verified TOTP step is still newer than all spent ones
  because only the lock holder moves `totp_last_step`; the counter is never below
  the guesses, and a request past its guards was let through below the limit.
  From these every step maps to a step of `SignIn` or a stutter.
* *Blobs.* A steadily held blob is old only when its reference has committed, so
  what the collection listed as old is seen by its later read of the references,
  or was not steadily held and, being no longer young, cannot become so.
* *GuestThread.* Every request still to write the end of the window took its time
  before the first of them committed (`RacersCameFirst`), so the end is never more
  than `Burn` after that commit (`EndIsBounded`); the sweep's time is past
  (`SweepLooksBack`). That the page shows nothing twice (`PageInv`) needs that an answer
  lists messages of the thread once, which it does because it is the thread's order at
  some of its positions; `mergeDecoded` appends only the positions of what is not shown.
* *Identity.* Who works for an account that has no key was restored without one
  (`KeylessAreMixed`), so when a key is published the only unmarked browser of its
  account is the publisher. A token becomes live only when it is issued, and whatever a
  browser holds was issued before (`Issued`): so what a served sign-out leaves behind
  stays dead (`NothingLeft`). A page that is signed in or loading has no sign-in under
  way (`Shapes`).
* *ChatSync.* `UnsendIsFinal` needs only the types of the server: no action but a
  first commit writes a row's deletion mark downwards. `OnlyPagingDuplicates` needs that
  `order` has a message once (`OrderedOnce`), so that a page does (`PageIsOnce`), and
  that every page under way is such a page (`ClientHolds`).
* *Calls.* `IInv` has three parts. `StoreInv` relates a client's store to its media: an
  offer in the store is the peer's, the description a connection has was made by the
  peer shown, the stream and the connection of a call that began are in the store, a
  prompt still open is the call's unless the client is marked as strayed. `TalksToPeer`
  and `IdleReleasesMedia` are among its conjuncts. `NetInv` says that what is queued,
  buffered or flushed is a frame whose description its sender made. `CallInv` is about
  pairs. While no socket was lost (`Calm`), for any two clients `a` and `b` that have not
  strayed, what `a` shows determines what must be on its way to it (`Coming`) or is still
  to be sent by `b` (`Linked`): one that calls has an offer on its way to `b`, or `b`
  rings with it, or an answer or an end comes back; one that is connected has a partner
  that is in the call, or an end on its way; an offer still comes before anything else of
  its call (`OfferFirst`). `NoHalfOpenCall` is `Linked` when nothing is on its way. No
  part of it is inductive by itself: a frame that is consumed must have been the one the
  other end was waiting for, which only `Linked` of the same pair says. The proof puts
  each action together from one of a dozen changes of a store and one of a few changes
  of the queues.
* *Composer.* `TypeOK` says that the button is off exactly while the page waits for one
  send or edit; that is kept because requests are a sequence of which an answer removes
  one (`Removed`), and because a request whose page is gone, or shows another chat, is
  not waited for (`Awaits`). `RosterIsOfThisChat` needs `FetchesHold`: an opening that is
  still heard is of the chat on screen, unless the page is `hasty`, and its answer is of
  the chat it asked for. `BarIsDraft` is inductive with the types.
* *Notes.* The invariant is about one editor and what it has under way (`EditorOK`); a
  step of another editor leaves it alone, because that one writes only rows it becomes
  the last writer of (`Bystander`). One request of the chain is under way at a time and
  it is for the head of the queue (`Placed`), so what counts is queued, and is written,
  in the order of the edits (`InOrder`, `SavesInOrder`). The row has the files that are
  shown unless a save is queued that will bring them there (`Kept`); a request that runs
  while no other save waits carries what is shown. Until the note is shown nothing the
  editor queues counts and no row is its own (`Unshown`), and until the first note is
  made for an attachment there are no files to lose (`Bare`): without these a create
  that answers late could end with a row that lacks them.
* *Links.* A page is unmounted with all its tasks, or changes thread with nothing under
  way, unless `crossed`. So a task that is heard is of the thread on screen (`Own`), what
  it sealed it sealed with the key of the page's ref, and what a load brings are posts of
  its thread; the key of the ref is the thread's (`OwnPage`). None of it is inductive
  alone: the key of the page comes from a load, a load opens with the key of the page.
  The types need `Counts`: a button is off just while one task is under way that turns
  it on again, which every action either starts, moves on, ends or leaves.
* *Groups.* `ListFollowsMembership` speaks of moments when nothing is under way; the
  invariant says what must be under way while the list is wrong (`ListInv`). Either the
  load sent last is still to be answered, or it was answered with what is, or something
  newer is on its way (`Coming`): an event that Me has not handled, or a committed change
  whose publication will reach Me (`Tells`). A change that adds finds Me among the
  members of after its commit; a removal read who is to be told before, and had Me
  there unless it `missed` Me (`RequestOK`). What nobody tells makes the list `astray`.
  The proof is where `missed` comes from: an earlier form of the property, checked with
  three requests, did not except it, and the step `CommitRemoval` could not be proved;
  with a fourth request TLC showed why.

`ChatSync`, `GuestThread` and `Links` write a filtered list as `At(s, S)`, the elements
of `s` at the positions `S` (`Subsequences`). It has the value of `SelectSeq`, which is
defined by recursion and could not be reasoned about here; that it lists nothing twice
when `s` does not (`TakenFrom`) needs only that the `k`-th of a finite set of numbers
is there (`NthIsThere`), which follows from the bijections of `FiniteSetTheorems`.

The proofs are laid out so that checking them does not depend on a fast machine. A leaf
is for the SMT solver, with a minute to spare (`USE SMTT(60)` at the head of each
module), unless it names Zenon or `PTL`; most take a fraction of a second. What the
prover does to a leaf before the solver sees it has a short limit of its own, so the
invariants of `CallsProofs` about a pair of clients name the call and the connection
they speak of by quantified variables (`\A x, p : x = client[a].call /\ ...`) and not by a
`LET` that would be expanded at every use, and leaves that only combine named steps go
to Zenon.

Only model-checked:

* liveness (`Reconciles`, `OrphansAreReclaimed`, `LinksEnd`, `EditsAreSaved`,
  `EmptiedAreReclaimed`): temporal reasoning under fairness is out of the prover's reach.

## 5. Not modelled, and the plan

Left out for good: the cryptography (calls of Web Crypto on data; which key wraps
what, and for whom, is in `Identity` and `Composer`), rendering, forms and gestures,
the external push services, packaging, rate limits per address.

Not modelled yet:

* *Second-factor settings and policy* (`routers/twofa.py`, `services/stepup.py`,
  `services/app_settings.py`): requests of one user on one row, and a policy cached per
  worker for half a minute.
* *Secret-link calls* (`ws/guest_ws.py`, `lib/threadSocket.ts`): another transport under
  the call store of `Calls`, with one buffered offer and an expiry under an open socket.
* *Presence, read state, disappearing messages, reactions*: `presence.py` and parts of
  `messages.py`.
* *Upload slots and quota* (`services/quota.py`), and attachments of secret links.
* *Administration*: the registration policy and the last administrator.

Simplifications inside the modules are named where they are made (the module headers
and section 2). Those a reader should know: `Calls` has one client per user and no ICE
candidates; `Identity` takes a reload as the end of the page's requests; `Notes` has no
jump from one note straight to another; `Groups` leaves out the values of settings.

Next, in this order:

1. `ReadState`: mark read, windows, unread counts, beside `ChatSync`.
2. `Uploads`: slot counter and quota. At most the limit at once, the counter heals.
3. `FactorSettings`: an account under the policy keeps a factor.
4. `GuestCalls`: the thread socket's pairing and its buffered offer.
