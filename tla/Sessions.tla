------------------------------ MODULE Sessions ------------------------------
(***************************************************************************)
(* The sessions of one account: the device and refresh-token rows a login  *)
(* creates, the access tokens minted from them, the requests that take     *)
(* sessions away (password change, recovery, admin reset, enrolling a      *)
(* factor, logout, device revocation, account deletion), and the live      *)
(* WebSockets the hub of each worker process holds.                        *)
(*                                                                         *)
(* A request is a Postgres transaction under READ COMMITTED that awaits    *)
(* (bcrypt, statements, Redis) between its reads and its commit, so its    *)
(* reads, its UPDATE, its publish and its commit are separate steps.       *)
(* get_db commits when the handler returns; a crash or an error at any     *)
(* await rolls the transaction back but does not take back what it has     *)
(* published.  Access tokens do not expire here: the properties are about  *)
(* what the server accepts before their fifteen minutes are over.          *)
(***************************************************************************)
EXTENDS Naturals

CONSTANTS
  Devices,       \* the device rows the account may ever get, one per login
  Resets,        \* requests that call revoke_sessions
  Sockets,       \* WebSocket handshakes
  Workers,       \* gunicorn workers, each with its own Hub
  NoDevice,      \* the caller of a recovery or an admin reset
  BrokerMayFail  \* whether Redis or a worker's listener may drop a publish

ASSUME NoDeviceIsNotADevice == NoDevice \notin Devices
ASSUME BrokerMayFailIsBoolean == BrokerMayFail \in BOOLEAN

VARIABLES
  account,     \* the users row exists
  tv,          \* users.token_version
  devices,     \* the rows of devices
  token,       \* the auth_tokens row of each device
  access,      \* the access tokens handed out
  login,       \* the login that creates each device
  refreshing,  \* devices with a /auth/refresh past its read of auth_tokens
  reset,       \* the requests that revoke sessions
  ending,      \* the logout or revoke_device in progress on each device
  socket,      \* the handshakes and the sockets they open
  inbox,       \* session.revoked envelopes each worker's listener has not read
  epoch,       \* history: resets that bumped token_version and committed
  due          \* history: open sockets some session.revoked was sent for

db           == <<account, tv, devices, token>>
history      == <<epoch, due>>
sessionsVars == <<db, access, login, refreshing, reset, ending, socket, inbox, history>>

-----------------------------------------------------------------------------
(* Types *)

Access == [dev : Devices, tv : Nat, epoch : Nat]
Login  == [pc : {"idle", "read", "done", "failed"}, tv : Nat]
Reset  == [pc   : {"idle", "read", "revoking", "published", "done", "aborted"},
           by   : Devices \cup {NoDevice},  \* except_device_id
           bump : BOOLEAN,                  \* token_version += 1 is part of it
           tv   : Nat,                      \* token_version as the request read it
           hit  : SUBSET Devices]           \* rows its UPDATE auth_tokens matched
Socket == [pc : {"idle", "ticket", "checked", "open", "closed"},
           dev : Devices \cup {NoDevice}, worker : Workers]

SessionsTypeOK ==
  /\ account \in BOOLEAN
  /\ tv \in Nat
  /\ devices \in SUBSET Devices
  /\ token \in [Devices -> {"none", "live", "expired", "revoked", "gone"}]
  /\ access \in SUBSET Access
  /\ login \in [Devices -> Login]
  /\ refreshing \in SUBSET Devices
  /\ reset \in [Resets -> Reset]
  /\ ending \in [Devices -> {"none", "logout", "revoke"}]
  /\ socket \in [Sockets -> Socket]
  /\ inbox \in [Workers -> SUBSET (SUBSET Devices)]
  /\ epoch \in Nat
  /\ due \in SUBSET Sockets

SessionsInit ==
  /\ account = TRUE
  /\ tv = 0
  /\ devices = {}
  /\ token = [d \in Devices |-> "none"]
  /\ access = {}
  /\ login = [d \in Devices |-> [pc |-> "idle", tv |-> 0]]
  /\ refreshing = {}
  /\ reset = [r \in Resets |-> [pc |-> "idle", by |-> NoDevice, bump |-> FALSE,
                                tv |-> 0, hit |-> {}]]
  /\ ending = [d \in Devices |-> "none"]
  /\ socket \in [Sockets -> [pc : {"idle"}, dev : {NoDevice}, worker : Workers]]
  /\ inbox = [w \in Workers |-> {}]
  /\ epoch = 0
  /\ due = {}

-----------------------------------------------------------------------------
(* Helpers *)

\* Mutant: the token_version claim is decoded but not compared.
AcceptedAnyVersion(a) == account /\ a.dev \in devices

\* get_current_identity: the device row exists and tv is the account's.
Accepted(a) == account /\ a.dev \in devices /\ a.tv = tv
Authorized(d) == \E a \in access : a.dev = d /\ Accepted(a)

\* An UPDATE auth_tokens that matched d's row and has not committed yet.
LockedByReset(d, r) == reset[r].pc = "published" /\ d \in reset[r].hit
Locked(d) == ending[d] = "logout" \/ \E r \in Resets : LockedByReset(d, r)

\* hub.publish_user(session.revoked): best effort, and seen by the commit of
\* the transaction that sends it only later.
Publish(D) ==
  \E reach \in IF BrokerMayFail THEN SUBSET Workers ELSE {Workers} :
    /\ inbox' = [w \in Workers |-> IF w \in reach THEN inbox[w] \cup {D} ELSE inbox[w]]
    /\ due' = due \cup {s \in Sockets : /\ socket[s].pc = "open"
                                        /\ socket[s].dev \in D
                                        /\ socket[s].worker \in reach}

\* close_device_sockets publishes only when there is something to close.
CloseDeviceSockets(D) == IF D = {} THEN UNCHANGED <<inbox, due>> ELSE Publish(D)

\* The auth_tokens rows after UPDATE ... SET revoked over the rows of D.
RevokeRows(D) == [d \in Devices |-> IF d \in D /\ token[d] = "live" THEN "revoked" ELSE token[d]]
\* The auth_tokens rows after ON DELETE CASCADE from the devices D.
DeleteRows(D) == [d \in Devices |-> IF d \in D THEN "gone" ELSE token[d]]

-----------------------------------------------------------------------------
(* Signing in and refreshing *)

\* login reads the users row, then awaits bcrypt.
LoginRead(d) ==
  /\ login[d].pc = "idle" /\ account
  /\ login' = [login EXCEPT ![d] = [pc |-> "read", tv |-> tv]]
  /\ UNCHANGED <<db, access, refreshing, reset, ending, socket, inbox, history>>

\* _login_device and _issue_tokens: a fresh device, its refresh token, and an
\* access token carrying the token_version read before the await.
LoginCommit(d) ==
  /\ login[d].pc = "read" /\ account
  /\ devices' = devices \cup {d}
  /\ token' = [token EXCEPT ![d] = "live"]
  /\ access' = access \cup {[dev |-> d, tv |-> login[d].tv, epoch |-> epoch]}
  /\ login' = [login EXCEPT ![d] = [pc |-> "done", tv |-> 0]]
  /\ UNCHANGED <<account, tv, refreshing, reset, ending, socket, inbox, history>>

\* A wrong password, a crash, or an INSERT whose account is gone.
LoginFail(d) ==
  /\ login[d].pc = "read"
  /\ login' = [login EXCEPT ![d] = [pc |-> "failed", tv |-> 0]]
  /\ UNCHANGED <<db, access, refreshing, reset, ending, socket, inbox, history>>

\* refresh finds an unrevoked, unexpired auth_tokens row.
RefreshRead(d) ==
  /\ token[d] = "live" /\ d \notin refreshing
  /\ refreshing' = refreshing \cup {d}
  /\ UNCHANGED <<db, access, login, reset, ending, socket, inbox, history>>

\* Mutant: rotation; the refreshed token is stored as a new live row.
RefreshRotates(d) ==
  /\ d \in refreshing /\ d \in devices /\ account
  /\ access' = access \cup {[dev |-> d, tv |-> tv, epoch |-> epoch]}
  /\ token' = [token EXCEPT ![d] = "live"]
  /\ refreshing' = refreshing \ {d}
  /\ UNCHANGED <<account, tv, devices, login, reset, ending, socket, inbox, history>>

\* Later it reads the device and the user, and mints with the version it finds;
\* a row revoked in between does not stop it.
RefreshMint(d) ==
  /\ d \in refreshing /\ d \in devices /\ account
  /\ access' = access \cup {[dev |-> d, tv |-> tv, epoch |-> epoch]}
  /\ refreshing' = refreshing \ {d}
  /\ UNCHANGED <<db, login, reset, ending, socket, inbox, history>>

RefreshRefused(d) ==
  /\ d \in refreshing /\ ~(d \in devices /\ account)
  /\ refreshing' = refreshing \ {d}
  /\ UNCHANGED <<db, access, login, reset, ending, socket, inbox, history>>

\* REFRESH_TOKEN_EXPIRE_DAYS pass; refreshing never slides the expiry.
TokenExpires(d) ==
  /\ token[d] = "live"
  /\ token' = [token EXCEPT ![d] = "expired"]
  /\ UNCHANGED <<account, tv, devices, access, login, refreshing, reset, ending, socket,
                 inbox, history>>

-----------------------------------------------------------------------------
(* Requests that revoke sessions: change_password (by a device, bump),      *)
(* finish_recovery and an admin's update_user (no device, bump), and        *)
(* _enabled_here after a factor is enrolled (by a device, no bump).         *)

BeginReset(r) ==
  /\ reset[r].pc = "idle" /\ account
  /\ \E by \in Devices \cup {NoDevice}, bump \in BOOLEAN :
       /\ IF by = NoDevice THEN bump ELSE Authorized(by)
       /\ reset' = [reset EXCEPT ![r] = [pc |-> "read", by |-> by, bump |-> bump,
                                         tv |-> tv, hit |-> {}]]
  /\ UNCHANGED <<db, access, login, refreshing, ending, socket, inbox, history>>

\* Mutant: except_device_id is not passed on.
RevokeTokensOfAll(r) ==
  /\ reset[r].pc = "read"
  /\ reset' = [reset EXCEPT ![r] =
                [@ EXCEPT !.pc = "revoking", !.hit = {d \in devices : token[d] = "live"}]]
  /\ UNCHANGED <<db, access, login, refreshing, ending, socket, inbox, history>>

\* The snapshot of revoke_sessions' UPDATE: the caller's own row is spared.
RevokeTokens(r) ==
  /\ reset[r].pc = "read"
  /\ reset' = [reset EXCEPT ![r] =
                [@ EXCEPT !.pc = "revoking",
                          !.hit = {d \in devices : token[d] = "live" /\ d # reset[r].by}]]
  /\ UNCHANGED <<db, access, login, refreshing, ending, socket, inbox, history>>

\* The UPDATE has got its row locks; the account's devices are read and their
\* sockets told to close, while nothing is committed yet.
PublishRevoked(r) ==
  /\ reset[r].pc = "revoking"
  /\ \A d \in reset[r].hit : ~Locked(d)
  /\ CloseDeviceSockets(devices \ {reset[r].by})
  /\ reset' = [reset EXCEPT ![r].pc = "published"]
  /\ UNCHANGED <<db, access, login, refreshing, ending, socket, epoch>>

\* Mutant: the version is counted down.
CommitResetCountsDown(r) ==
  /\ reset[r].pc = "published" /\ account
  /\ token' = RevokeRows(reset[r].hit)
  /\ tv' = IF reset[r].bump THEN reset[r].tv - 1 ELSE tv
  /\ epoch' = IF reset[r].bump THEN epoch + 1 ELSE epoch
  /\ reset' = [reset EXCEPT ![r] = [@ EXCEPT !.pc = "done", !.tv = 0]]
  /\ UNCHANGED <<account, devices, access, login, refreshing, ending, socket, inbox, due>>

\* The flush writes the version computed from the one read at the start.
CommitReset(r) ==
  /\ reset[r].pc = "published" /\ account
  /\ token' = RevokeRows(reset[r].hit)
  /\ tv' = IF reset[r].bump THEN reset[r].tv + 1 ELSE tv
  /\ epoch' = IF reset[r].bump THEN epoch + 1 ELSE epoch
  /\ reset' = [reset EXCEPT ![r] = [@ EXCEPT !.pc = "done", !.tv = 0]]
  /\ UNCHANGED <<account, devices, access, login, refreshing, ending, socket, inbox, due>>

\* A wrong current password, a crash, an error, or the account gone: rollback.
AbortReset(r) ==
  /\ reset[r].pc \in {"read", "revoking", "published"}
  /\ reset' = [reset EXCEPT ![r] = [pc |-> "aborted", by |-> NoDevice, bump |-> FALSE,
                                     tv |-> 0, hit |-> {}]]
  /\ UNCHANGED <<db, access, login, refreshing, ending, socket, inbox, history>>

\* logout: the device's row is updated (and locked) and its sockets told.
Logout(d) ==
  /\ ending[d] = "none" /\ Authorized(d) /\ ~Locked(d)
  /\ ending' = [ending EXCEPT ![d] = "logout"]
  /\ Publish({d})
  /\ UNCHANGED <<db, access, login, refreshing, reset, socket, epoch>>

CommitLogout(d) ==
  /\ ending[d] = "logout"
  /\ token' = RevokeRows({d})
  /\ ending' = [ending EXCEPT ![d] = "none"]
  /\ UNCHANGED <<account, tv, devices, access, login, refreshing, reset, socket, inbox, history>>

\* revoke_device publishes first; the DELETE is flushed by the commit.
RevokeDevice(d) ==
  /\ ending[d] = "none" /\ d \in devices
  /\ \E caller \in Devices : Authorized(caller)
  /\ ending' = [ending EXCEPT ![d] = "revoke"]
  /\ Publish({d})
  /\ UNCHANGED <<db, access, login, refreshing, reset, socket, epoch>>

CommitRevokeDevice(d) ==
  /\ ending[d] = "revoke" /\ d \in devices /\ ~Locked(d)
  /\ devices' = devices \ {d}
  /\ token' = DeleteRows({d})
  /\ ending' = [ending EXCEPT ![d] = "none"]
  /\ UNCHANGED <<account, tv, access, login, refreshing, reset, socket, inbox, history>>

AbortEnding(d) ==
  /\ ending[d] # "none"
  /\ ending' = [ending EXCEPT ![d] = "none"]
  /\ UNCHANGED <<db, access, login, refreshing, reset, socket, inbox, history>>

\* delete_me, or an admin's delete_user: the rows cascade; nothing is published.
DeleteAccount ==
  /\ account /\ \A d \in devices : ~Locked(d)
  /\ account' = FALSE
  /\ devices' = {}
  /\ token' = DeleteRows(devices)
  /\ UNCHANGED <<tv, access, login, refreshing, reset, ending, socket, inbox, history>>

-----------------------------------------------------------------------------
(* Live sockets *)

\* POST /auth/ws-ticket: the ticket carries the device, not the version.
IssueTicket(s, d) ==
  /\ socket[s].pc = "idle" /\ Authorized(d)
  /\ socket' = [socket EXCEPT ![s] = [@ EXCEPT !.pc = "ticket", !.dev = d]]
  /\ UNCHANGED <<db, access, login, refreshing, reset, ending, inbox, history>>

\* The handshake redeems the ticket (GETDEL) and looks the device up.
CheckHandshake(s) ==
  /\ socket[s].pc = "ticket"
  /\ socket' = [socket EXCEPT ![s].pc =
                  IF account /\ socket[s].dev \in devices THEN "checked" ELSE "closed"]
  /\ UNCHANGED <<db, access, login, refreshing, reset, ending, inbox, history>>

\* accept() and hub.register, without another look at the database.
Register(s) ==
  /\ socket[s].pc = "checked"
  /\ socket' = [socket EXCEPT ![s].pc = "open"]
  /\ UNCHANGED <<db, access, login, refreshing, reset, ending, inbox, history>>

\* The ticket lapses, the handshake breaks off, or the peer goes away.
Disconnect(s) ==
  /\ socket[s].pc \in {"ticket", "checked", "open"}
  /\ socket' = [socket EXCEPT ![s].pc = "closed"]
  /\ UNCHANGED <<db, access, login, refreshing, reset, ending, inbox, history>>

\* Mutant: session.revoked is sent to the sockets like any other envelope.
DeliverWithoutClosing(w, D) ==
  /\ D \in inbox[w]
  /\ inbox' = [inbox EXCEPT ![w] = @ \ {D}]
  /\ UNCHANGED <<db, access, login, refreshing, reset, ending, socket, history>>

\* _deliver_local: every local socket of a named device is dropped.
Deliver(w, D) ==
  /\ D \in inbox[w]
  /\ inbox' = [inbox EXCEPT ![w] = @ \ {D}]
  /\ socket' = [s \in Sockets |->
                  IF socket[s].pc = "open" /\ socket[s].worker = w /\ socket[s].dev \in D
                  THEN [socket[s] EXCEPT !.pc = "closed"] ELSE socket[s]]
  /\ UNCHANGED <<db, access, login, refreshing, reset, ending, history>>

-----------------------------------------------------------------------------
DeviceStep(d) ==
  \/ LoginRead(d) \/ LoginCommit(d) \/ LoginFail(d)
  \/ RefreshRead(d) \/ RefreshMint(d) \/ RefreshRefused(d) \/ TokenExpires(d)
  \/ Logout(d) \/ CommitLogout(d) \/ RevokeDevice(d) \/ CommitRevokeDevice(d) \/ AbortEnding(d)

ResetStep(r) ==
  \/ BeginReset(r) \/ RevokeTokens(r) \/ PublishRevoked(r) \/ CommitReset(r) \/ AbortReset(r)

SocketStep(s) ==
  \/ \E d \in Devices : IssueTicket(s, d)
  \/ CheckHandshake(s) \/ Register(s) \/ Disconnect(s)

SessionsNext ==
  \/ \E d \in Devices : DeviceStep(d)
  \/ \E r \in Resets : ResetStep(r)
  \/ \E s \in Sockets : SocketStep(s)
  \/ \E w \in Workers : \E D \in inbox[w] : Deliver(w, D)
  \/ DeleteAccount

SessionsSpec == SessionsInit /\ [][SessionsNext]_sessionsVars

-----------------------------------------------------------------------------
(* Properties *)

\* Evicting sessions sticks: once a password change, a recovery, an admin reset
\* or an enrolment has committed, every session whose refresh token existed when
\* its UPDATE ran (its own excepted) can never refresh again, whatever logins,
\* refreshes and other revocations were in flight (sessions.py revoke_sessions).
EvictedSessionsStayOut ==
  \A r \in Resets : reset[r].pc = "done" => \A d \in reset[r].hit : token[d] # "live"

\* A reset kills access tokens: as long as token_version has counted every
\* committed reset, a bearer the server accepts was minted after the last one
\* (deps.get_current_identity against create_access_token's tv), also when a
\* login or a refresh straddled the reset.
AcceptedTokensAreFresh ==
  epoch = tv => \A a \in access : Accepted(a) => a.epoch = epoch

\* The same without the proviso, as security.create_access_token's comment
\* puts it: every access token issued before a reset dies with it.
ResetKillsAccessTokens == \A a \in access : Accepted(a) => a.epoch = epoch

\* Why a refresh token may stop being live in a step.
SessionEndsForAReason ==
  \A d \in Devices : token[d] = "live" /\ token'[d] # "live" =>
    \/ token'[d] = "expired"
    \/ ending[d] # "none" /\ ending'[d] = "none"
    \/ account /\ ~account'
    \/ \E r \in Resets : reset[r].pc = "published" /\ reset'[r].pc = "done" /\ reset[r].by # d

\* Nobody is signed out by accident: a live refresh token stops being live only
\* by its age, by its device's logout or revocation, by its account's deletion,
\* or by a revocation some OTHER session (or none) asked for; a device that
\* changes its password keeps its own session (users.change_password).
CallerKeepsItsSession == [][SessionEndsForAReason]_sessionsVars

\* A socket that was open when session.revoked for its device reached its
\* worker's channel is closed, or the envelope is still to be read there: no
\* revocation is used up on another socket (hub._deliver_local).
RevocationReachesSockets ==
  \A s \in due : \/ socket[s].pc = "closed"
                 \/ \E D \in inbox[socket[s].worker] : socket[s].dev \in D

\* Revoking a device ends its live socket too (devices.revoke_device): with
\* nothing left to deliver, a device whose row is gone has no open socket.
RevokedDeviceHasNoSocket ==
  \A s \in Sockets :
    /\ socket[s].pc = "open" /\ account /\ socket[s].dev \notin devices
    => \E D \in inbox[socket[s].worker] : socket[s].dev \in D
=============================================================================
