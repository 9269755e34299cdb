---------------------------- MODULE SecondFactor ----------------------------
(***************************************************************************)
(* The second step of signing in to one account that has TOTP, backup      *)
(* codes and passkeys: POST /auth/2fa and POST /auth/2fa/passkey/verify    *)
(* with the per-account guards kept in Redis (twofa_guard).                *)
(*                                                                         *)
(* complete_2fa holds the users row FOR UPDATE from its first statement to *)
(* its commit; passkey_login_verify takes no lock and rests on the SET NX  *)
(* of consume_pending alone.  Redis calls are separate steps and may fail; *)
(* a worker may die at any await, which rolls the transaction back.        *)
(***************************************************************************)
EXTENDS Integers, FiniteSets

CONSTANTS
  Jtis,         \* pending-login tokens, by their jti
  Attempts,     \* requests that try to complete a sign-in
  BackupCodes,
  NoJti, NoCode,
  MaxFails,     \* _MAX_FAILS
  MaxClock,     \* bound: TOTP steps the clock runs through
  RedisMayFail  \* whether a Redis call may raise

ASSUME MaxFailsAssumption == MaxFails \in Nat \ {0}
ASSUME MaxClockAssumption == MaxClock \in Nat \ {0}
ASSUME AbsentValues == NoJti \notin Jtis /\ NoCode \notin BackupCodes

VARIABLES
  clock,     \* the current TOTP step
  lastStep,  \* users.totp_last_step, 0 while it is null
  unspent,   \* backup codes users.backup_codes does not mark used
  pending,   \* the life of each pending-login token
  used,      \* the 2fa_used: keys in Redis
  fails,     \* the 2fa_fail: counter in Redis, 0 when the key is absent
  timer,     \* the counter's key has its expiry set
  req,       \* the requests
  minted,    \* history: the sessions opened
  guesses,   \* history: wrong codes tried since the counter was last absent
  outage     \* history: some Redis call failed

redis == <<used, fails, timer>>
vars  == <<clock, lastStep, unspent, pending, redis, req, minted, guesses, outage>>

-----------------------------------------------------------------------------
CodeKinds == {"totp", "backup", "wrong"}
Kinds     == CodeKinds \cup {"passkey", "badkey"}
Steps     == {"idle", "decoded", "locked", "guarded", "failing", "arming", "verified",
              "claimed", "cleared", "done", "refused"}

Request == [pc : Steps, jti : Jtis \cup {NoJti}, kind : Kinds,
            step : Nat, code : BackupCodes \cup {NoCode}]
Minted  == [attempt : Attempts, jti : Jtis, step : Nat, code : BackupCodes \cup {NoCode}]

TypeOK ==
  /\ clock \in Nat
  /\ lastStep \in Nat
  /\ unspent \in SUBSET BackupCodes
  /\ pending \in [Jtis -> {"unissued", "valid", "expired"}]
  /\ used \in SUBSET Jtis
  /\ fails \in Nat
  /\ timer \in BOOLEAN
  /\ req \in [Attempts -> Request]
  /\ minted \in SUBSET Minted
  /\ guesses \in Nat
  /\ outage \in BOOLEAN

NoRequest == [pc |-> "idle", jti |-> NoJti, kind |-> "wrong", step |-> 0, code |-> NoCode]

Init ==
  /\ clock = 1
  /\ lastStep = 0
  /\ unspent = BackupCodes
  /\ pending = [j \in Jtis |-> "unissued"]
  /\ used = {}
  /\ fails = 0
  /\ timer = FALSE
  /\ req = [r \in Attempts |-> NoRequest]
  /\ minted = {}
  /\ guesses = 0
  /\ outage = FALSE

-----------------------------------------------------------------------------
(* Helpers *)

\* The requests between their SELECT ... FOR UPDATE and their commit or rollback.
HoldsRow(r) ==
  /\ req[r].kind \in CodeKinds
  /\ req[r].pc \in {"locked", "guarded", "failing", "arming", "verified", "claimed", "cleared"}

InFlight(r) == req[r].pc \notin {"idle", "done", "refused"}

\* The requests that may still present the token's jti to Redis.
MayStillClaim(r, j) ==
  /\ req[r].jti = j
  /\ req[r].pc \in {"decoded", "locked", "guarded", "verified"}

Goto(r, pc) == req' = [req EXCEPT ![r] = [@ EXCEPT !.pc = pc]]

\* consume_totp: one step of clock skew either way, and newer than the last one.
TotpAccepts(step) == step \in clock - 1 .. clock + 1 /\ step > lastStep

CredentialHolds(r) ==
  \/ req[r].kind = "totp" /\ TotpAccepts(req[r].step)
  \/ req[r].kind = "backup" /\ req[r].code \in unspent
  \/ req[r].kind = "passkey"

-----------------------------------------------------------------------------
(* The clock, the tokens and the keys that lapse *)

Tick ==
  /\ clock < MaxClock
  /\ clock' = clock + 1
  /\ UNCHANGED <<lastStep, unspent, pending, redis, req, minted, guesses, outage>>

\* login with the right password: no session yet, a pending token.
IssuePending(j) ==
  /\ pending[j] = "unissued"
  /\ pending' = [pending EXCEPT ![j] = "valid"]
  /\ UNCHANGED <<clock, lastStep, unspent, redis, req, minted, guesses, outage>>

PendingExpires(j) ==
  /\ pending[j] = "valid"
  /\ pending' = [pending EXCEPT ![j] = "expired"]
  /\ UNCHANGED <<clock, lastStep, unspent, redis, req, minted, guesses, outage>>

\* _USED_TTL outlives the token by five minutes, longer than a request runs.
MarkerLapses(j) ==
  /\ j \in used /\ pending[j] = "expired" /\ \A r \in Attempts : ~MayStillClaim(r, j)
  /\ used' = used \ {j}
  /\ UNCHANGED <<clock, lastStep, unspent, pending, fails, timer, req, minted, guesses, outage>>

CounterLapses ==
  /\ timer
  /\ fails' = 0 /\ timer' = FALSE /\ guesses' = 0
  /\ UNCHANGED <<clock, lastStep, unspent, pending, used, req, minted, outage>>

-----------------------------------------------------------------------------
(* One request *)

\* decode_pending_2fa_token, and for a passkey the challenge bound to its jti.
Decode(r, j, kind, step, code) ==
  /\ req[r].pc = "idle" /\ pending[j] = "valid"
  /\ req' = [req EXCEPT ![r] = [pc |-> "decoded", jti |-> j, kind |-> kind,
                                step |-> step, code |-> code]]
  /\ UNCHANGED <<clock, lastStep, unspent, pending, redis, minted, guesses, outage>>

\* What a client may present: a code of a step near now, a backup code, a code
\* that is neither, a passkey assertion that verifies or one that does not.
Submit(r) ==
  \E j \in Jtis :
    \/ \E step \in clock - 1 .. clock + 1 : step > 0 /\ Decode(r, j, "totp", step, NoCode)
    \/ \E code \in BackupCodes : Decode(r, j, "backup", 0, code)
    \/ \E kind \in {"wrong", "passkey", "badkey"} : Decode(r, j, kind, 0, NoCode)

\* Mutant: the row is read without FOR UPDATE.
ReadRowUnlocked(r) ==
  /\ req[r].pc = "decoded" /\ req[r].kind \in CodeKinds
  /\ Goto(r, "locked")
  /\ UNCHANGED <<clock, lastStep, unspent, pending, redis, minted, guesses, outage>>

\* SELECT ... FOR UPDATE of the users row.
LockRow(r) ==
  /\ req[r].pc = "decoded" /\ req[r].kind \in CodeKinds
  /\ \A q \in Attempts : ~HoldsRow(q)
  /\ Goto(r, "locked")
  /\ UNCHANGED <<clock, lastStep, unspent, pending, redis, minted, guesses, outage>>

AtGuards(r) == req[r].pc = (IF req[r].kind \in CodeKinds THEN "locked" ELSE "decoded")

\* assert_not_locked and assert_pending_unused.
Guards(r) ==
  /\ AtGuards(r)
  /\ Goto(r, IF fails >= MaxFails \/ req[r].jti \in used THEN "refused" ELSE "guarded")
  /\ UNCHANGED <<clock, lastStep, unspent, pending, redis, minted, guesses, outage>>

\* Redis raises on the lockout read (fail open) or on the replay read (fail closed).
GuardsWithoutRedis(r) ==
  /\ RedisMayFail /\ AtGuards(r)
  /\ \E pc \in {"guarded", "refused"} : (pc = "guarded" => req[r].jti \notin used) /\ Goto(r, pc)
  /\ outage' = TRUE
  /\ UNCHANGED <<clock, lastStep, unspent, pending, redis, minted, guesses>>

\* consume_totp, the backup codes, or verify_authentication_response.
Verify(r) ==
  /\ req[r].pc = "guarded"
  /\ Goto(r, IF CredentialHolds(r) THEN "verified" ELSE "failing")
  /\ UNCHANGED <<clock, lastStep, unspent, pending, redis, minted, guesses, outage>>

\* record_failure: INCR, and EXPIRE in a second call when the key was absent.
CountFailure(r) ==
  /\ req[r].pc = "failing"
  /\ fails' = fails + 1
  /\ guesses' = IF req[r].kind \in CodeKinds THEN guesses + 1 ELSE guesses
  /\ Goto(r, IF fails = 0 THEN "arming" ELSE "refused")
  /\ UNCHANGED <<clock, lastStep, unspent, pending, used, timer, minted, outage>>

ArmTimer(r) ==
  /\ req[r].pc = "arming"
  /\ timer' = (fails > 0)
  /\ Goto(r, "refused")
  /\ UNCHANGED <<clock, lastStep, unspent, pending, used, fails, minted, guesses, outage>>

\* record_failure swallows a Redis error: the failure goes uncounted.
FailureUncounted(r) ==
  /\ RedisMayFail /\ req[r].pc \in {"failing", "arming"}
  /\ Goto(r, "refused")
  /\ outage' = TRUE
  /\ UNCHANGED <<clock, lastStep, unspent, pending, redis, minted, guesses>>

\* Mutant: the claim is a plain SET, whose result says nothing.
ClaimWithoutNX(r) ==
  /\ req[r].pc = "verified"
  /\ Goto(r, "claimed")
  /\ used' = used \cup {req[r].jti}
  /\ UNCHANGED <<clock, lastStep, unspent, pending, fails, timer, minted, guesses, outage>>

\* Mutant: a success takes one failure back with DECR.
DecrementFailures(r) ==
  /\ req[r].pc = "claimed"
  /\ Goto(r, "cleared")
  /\ fails' = fails - 1
  /\ UNCHANGED <<clock, lastStep, unspent, pending, used, timer, minted, guesses, outage>>

\* consume_pending: SET NX, which exactly one request wins.
Claim(r) ==
  /\ req[r].pc = "verified"
  /\ Goto(r, IF req[r].jti \in used THEN "refused" ELSE "claimed")
  /\ used' = used \cup {req[r].jti}
  /\ UNCHANGED <<clock, lastStep, unspent, pending, fails, timer, minted, guesses, outage>>

ClearFailures(r) ==
  /\ req[r].pc = "claimed"
  /\ Goto(r, "cleared")
  /\ fails' = 0 /\ timer' = FALSE /\ guesses' = 0
  /\ UNCHANGED <<clock, lastStep, unspent, pending, used, minted, outage>>

\* clear_failures swallows a Redis error.
FailuresNotCleared(r) ==
  /\ RedisMayFail /\ req[r].pc = "claimed"
  /\ Goto(r, "cleared")
  /\ outage' = TRUE
  /\ UNCHANGED <<clock, lastStep, unspent, pending, redis, minted, guesses>>

\* _login_device and the commit.  The step a TOTP code consumed is written.  A
\* backup code is marked in place, in dicts the freshly assigned list shares with
\* the loaded one: the two compare equal, so the flush finds nothing to write.
Commit(r) ==
  /\ req[r].pc = "cleared"
  /\ lastStep' = IF req[r].kind = "totp" THEN req[r].step ELSE lastStep
  /\ minted' = minted \cup {[attempt |-> r, jti |-> req[r].jti, step |-> req[r].step,
                             code |-> req[r].code]}
  /\ Goto(r, "done")
  /\ UNCHANGED <<clock, unspent, pending, redis, guesses, outage>>

\* consume_pending without Redis (fail closed), a crash, or a lost connection.
Abandon(r) ==
  /\ InFlight(r)
  /\ Goto(r, "refused")
  /\ UNCHANGED <<clock, lastStep, unspent, pending, redis, minted, guesses, outage>>

-----------------------------------------------------------------------------
RequestStep(r) ==
  \/ Submit(r) \/ LockRow(r) \/ Guards(r) \/ GuardsWithoutRedis(r) \/ Verify(r)
  \/ CountFailure(r) \/ ArmTimer(r) \/ FailureUncounted(r)
  \/ Claim(r) \/ ClearFailures(r) \/ FailuresNotCleared(r) \/ Commit(r) \/ Abandon(r)

Next ==
  \/ Tick \/ CounterLapses
  \/ \E j \in Jtis : IssuePending(j) \/ PendingExpires(j) \/ MarkerLapses(j)
  \/ \E r \in Attempts : RequestStep(r)

Spec == Init /\ [][Next]_vars

-----------------------------------------------------------------------------
(* Properties *)

\* The sessions as SignIn sees them.
Sessions == {[attempt |-> m.attempt, jti |-> m.jti, step |-> m.step] : m \in minted}
Promise == INSTANCE SignIn WITH sessions <- Sessions, TotpSteps <- 0 .. MaxClock + 1

\* The two endpoints together keep SignIn's promise: one session per pending
\* token and per TOTP step, whatever they and Redis's lapsing keys interleave.
KeepsPromise == Promise!Spec

\* The lockout is exact for codes: between two absences of the counter at most
\* MaxFails wrong codes are tried, although the counter is read and incremented
\* in different calls (the row lock is what makes it so), unless Redis fails.
GuessesBounded == ~outage => guesses <= MaxFails

\* A backup code opens one session (complete_2fa: "a one-time code").
BackupCodeSpentOnce ==
  \A m, n \in minted : m.code # NoCode /\ m.code = n.code => m = n

\* The lockout ends by itself (twofa_guard._LOCKED: "Wait a few minutes and try
\* again"): a counter that locks the account out has an expiry.
LockoutEnds == fails >= MaxFails => timer \/ \E r \in Attempts : req[r].pc = "arming"
=============================================================================
