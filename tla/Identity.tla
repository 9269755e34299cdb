------------------------------ MODULE Identity ------------------------------
(***************************************************************************)
(* Accounts, their identity keys, and the browsers that hold them: signing *)
(* in, restoring a session at start, changing and recovering a password,   *)
(* signing out, and the lock screen (store/auth.ts, lib/api.ts, App.tsx,   *)
(* the Login page, the account part of Settings; on the server auth.py,    *)
(* users.py, recovery.py).                                                 *)
(*                                                                         *)
(* A private key and its public key have one name, a member of Keys; what  *)
(* a browser stores is a pair, since nothing checks that its halves match. *)
(* A wrapped key is a record of the key and the password that opens it.    *)
(* A member of Tokens is a refresh token and the device row it belongs to; *)
(* the access token a browser has is named by the refresh token it was     *)
(* minted for, and is in "stale" when the server does not accept it.       *)
(* Wrong passwords change nothing and are left out, as is the second       *)
(* factor's check (module SecondFactor).  A reload abandons the requests   *)
(* of the page.                                                            *)
(***************************************************************************)
EXTENDS Naturals, FiniteSets

CONSTANTS
  Accounts,
  Browsers,
  Keys,        \* identity keys that may be generated
  Tokens,      \* refresh tokens that may be issued
  Passwords,
  None,        \* no key, token, account or password
  TwoFactor,   \* accounts with a second factor
  Legacy,      \* accounts of before the derived secret
  Lockers      \* browsers whose user sets a lock

ASSUME NoneIsNothing ==
  None \notin Accounts \cup Keys \cup Tokens \cup Passwords
ASSUME KindsOfAccounts == TwoFactor \subseteq Accounts /\ Legacy \subseteq Accounts

VARIABLES
  account,   \* rows of users
  session,   \* rows of auth_tokens with their devices
  disk,      \* what a browser keeps: IndexedDB, localStorage, the cookie
  app,       \* the auth store, the access token and App's lock, in memory
  task,      \* the continuation of bootstrap, login or recovery
  change,    \* a password change under way on the server
  late,      \* the token of a refresh whose answer is under way
  stale,     \* browsers whose access token is not accepted any more
  tainted,   \* history: accounts whose wrapped key need not fit any more
  mixed,     \* history: browsers restored before the account had a key, or signed
             \* in with a token of another account
  out        \* history: whether a sign-out reached the server, and was refused

vars == <<account, session, disk, app, task, change, late, stale, tainted, mixed, out>>

-----------------------------------------------------------------------------
(* Types *)

Opt(S) == S \cup {None}
Pair == [pub : Opt(Keys), priv : Opt(Keys)]
Wrapped == [key : Opt(Keys), pw : Opt(Passwords)]
NoPair == [pub |-> None, priv |-> None]
Unwrapped == [key |-> None, pw |-> None]

Account == [pw : Opt(Passwords),   \* None once deleted
            legacy : BOOLEAN,      \* auth_version < 2
            pub : Opt(Keys), blob : Wrapped, rec : Opt(Keys)]
Session == [acct : Opt(Accounts), live : BOOLEAN]
Disk == [key : Pair, rt : Opt(Tokens), cookie : Opt(Tokens), lock : BOOLEAN]
App == [status : {"loading", "anon", "authed"}, user : Opt(Accounts),
        id : Pair, access : Opt(Tokens), locked : BOOLEAN]
Steps == {"none", "checked", "pending", "ensure", "publish", "recover", "recovered"}
Task == [step : Steps, acct : Opt(Accounts), pw : Opt(Passwords),
         legacy : BOOLEAN, key : Opt(Keys)]
Change == [step : {"none", "checked"}, acct : Opt(Accounts), new : Opt(Passwords),
           key : Opt(Keys), by : Opt(Tokens)]

TypeOK ==
  /\ account \in [Accounts -> Account]
  /\ session \in [Tokens -> Session]
  /\ disk \in [Browsers -> Disk]
  /\ app \in [Browsers -> App]
  /\ task \in [Browsers -> Task]
  /\ change \in [Browsers -> Change]
  /\ late \in [Browsers -> Opt(Tokens)]
  /\ stale \subseteq Browsers
  /\ tainted \subseteq Accounts
  /\ mixed \subseteq Browsers
  /\ out \in [Browsers -> {"no", "served", "refused"}]
  /\ \A b \in Browsers :  \* who is signed in is somebody, with a key
       app[b].status = "authed" => app[b].user # None /\ app[b].id # NoPair

NoTask == [step |-> "none", acct |-> None, pw |-> None, legacy |-> FALSE, key |-> None]
NoChange == [step |-> "none", acct |-> None, new |-> None, key |-> None, by |-> None]

\* Accounts as create_user leaves them, or of before the derived secret.
Init ==
  /\ \E pw \in [Accounts -> Passwords] :
       account = [a \in Accounts |-> [pw |-> pw[a], legacy |-> a \in Legacy, pub |-> None,
                                      blob |-> Unwrapped, rec |-> None]]
  /\ session = [t \in Tokens |-> [acct |-> None, live |-> FALSE]]
  /\ disk = [b \in Browsers |-> [key |-> NoPair, rt |-> None, cookie |-> None, lock |-> FALSE]]
  /\ app = [b \in Browsers |-> [status |-> "loading", user |-> None, id |-> NoPair,
                                access |-> None, locked |-> FALSE]]
  /\ task = [b \in Browsers |-> NoTask]
  /\ change = [b \in Browsers |-> NoChange]
  /\ late = [b \in Browsers |-> None]
  /\ stale = {} /\ tainted = {} /\ mixed = {}
  /\ out = [b \in Browsers |-> "no"]

-----------------------------------------------------------------------------
(* Helpers *)

Exists(a) == account[a].pw # None
Wrap(k, pw) == [key |-> k, pw |-> pw]

\* What App shows.
Screen(b) == CASE app[b].status = "loading" -> "loading"
               [] app[b].status = "anon" -> "login"
               [] app[b].status = "authed" /\ app[b].locked -> "lock"
               [] OTHER -> "app"

\* The sessions of a end, all but the one of token t; every access token of a
\* is refused from here on (token_version).
Evict(a, t) ==
  /\ session' = [x \in Tokens |-> [session[x] EXCEPT !.live = @ /\ (session[x].acct # a \/ x = t)]]
  /\ stale' = stale \cup {b \in Browsers : /\ app[b].access # None
                                           /\ session[app[b].access].acct = a}

\* refresh reads the body's token, or else the cookie's.
Presented(b) == IF disk[b].rt # None THEN disk[b].rt ELSE disk[b].cookie
Refreshable(t) == t # None /\ session[t].live /\ Exists(session[t].acct)

\* A key nobody has: generateKey.
Fresh(k) ==
  /\ \A a \in Accounts : k \notin {account[a].pub, account[a].blob.key, account[a].rec}
  /\ \A b \in Browsers : k \notin {disk[b].key.pub, disk[b].key.priv, app[b].id.pub,
                                   app[b].id.priv, task[b].key, change[b].key}

\* The account a request of the page is for: that of the access token, which a
\* late refresh may have put in the place of the one just issued.
Caller(b) == session[app[b].access].acct

\* A request of the page that the server accepts; a refusal leads to Refresh.
Accepted(b) == app[b].access # None /\ b \notin stale /\ Exists(Caller(b))

Signed(b, a, id) == app' = [app EXCEPT ![b].status = "authed", ![b].user = a, ![b].id = id]

-----------------------------------------------------------------------------
(* Start of the app: bootstrap *)

\* The page is loaded anew: nothing in memory is left.
Boot(b) ==
  /\ app' = [app EXCEPT ![b] = [status |-> "loading", user |-> None, id |-> disk[b].key,
                                access |-> None, locked |-> disk[b].lock]]
  /\ task' = [task EXCEPT ![b] = NoTask]
  /\ change' = [change EXCEPT ![b] = NoChange]
  /\ late' = [late EXCEPT ![b] = None]
  /\ stale' = stale \ {b}
  /\ mixed' = mixed \ {b}
  /\ UNCHANGED <<account, session, disk, tainted, out>>

\* Mutant: whatever key is there is paired with the session.
BootRestoresAnyKey(b) ==
  LET t == Presented(b)
      a == session[t].acct
  IN
  /\ app[b].status = "loading"
  /\ Refreshable(t)
  /\ app[b].id # NoPair
  /\ disk' = [disk EXCEPT ![b].rt = t, ![b].cookie = t]
  /\ app' = [app EXCEPT ![b].status = "authed", ![b].user = a, ![b].access = t]
  /\ mixed' = IF account[a].pub = None THEN mixed \cup {b} ELSE mixed
  /\ UNCHANGED <<account, session, task, change, late, stale, tainted, out>>

\* A key is there and not known to be another account's.
BootRestores(b) ==
  LET t == Presented(b)
      a == session[t].acct
  IN
  /\ app[b].status = "loading"
  /\ Refreshable(t)
  /\ app[b].id # NoPair
  /\ account[a].pub \in {None, app[b].id.pub}
  /\ disk' = [disk EXCEPT ![b].rt = t, ![b].cookie = t]
  /\ app' = [app EXCEPT ![b].status = "authed", ![b].user = a, ![b].access = t]
  /\ mixed' = IF account[a].pub = None THEN mixed \cup {b} ELSE mixed
  /\ UNCHANGED <<account, session, task, change, late, stale, tainted, out>>

\* Mutant: the session alone signs in.
BootWithoutKey(b) ==
  LET t == Presented(b) IN
  /\ app[b].status = "loading"
  /\ Refreshable(t)
  /\ app[b].id = NoPair
  /\ disk' = [disk EXCEPT ![b].rt = t, ![b].cookie = t]
  /\ app' = [app EXCEPT ![b].status = "authed", ![b].user = session[t].acct, ![b].access = t]
  /\ UNCHANGED <<account, session, task, change, late, stale, tainted, mixed, out>>

\* The session is good, but no key is there.
BootNeedsPassword(b) ==
  LET t == Presented(b) IN
  /\ app[b].status = "loading"
  /\ Refreshable(t)
  /\ app[b].id = NoPair
  /\ disk' = [disk EXCEPT ![b].rt = t, ![b].cookie = t]
  /\ app' = [app EXCEPT ![b].status = "anon", ![b].access = t]
  /\ UNCHANGED <<account, session, task, change, late, stale, tainted, mixed, out>>

\* The key is another account's: key and tokens go, the cookie stays.
BootMismatch(b) ==
  LET t == Presented(b) IN
  /\ app[b].status = "loading"
  /\ Refreshable(t)
  /\ app[b].id # NoPair
  /\ account[session[t].acct].pub \notin {None, app[b].id.pub}
  /\ disk' = [disk EXCEPT ![b].key = NoPair, ![b].rt = None, ![b].cookie = t]
  /\ app' = [app EXCEPT ![b].status = "anon", ![b].id = NoPair]
  /\ UNCHANGED <<account, session, task, change, late, stale, tainted, mixed, out>>

\* The refresh is refused, or four attempts fail: nothing stored is dropped.
BootFails(b) ==
  /\ app[b].status = "loading"
  /\ app' = [app EXCEPT ![b].status = "anon"]
  /\ UNCHANGED <<account, session, disk, task, change, late, stale, tainted, mixed, out>>

-----------------------------------------------------------------------------
(* Signing in: the Login page, login, complete2fa, applyTokens *)

\* POST /auth/login has read the account and verified the password.
SignIn(b, a, pw) ==
  /\ Screen(b) = "login"
  /\ \/ task[b].step = "none"
     \/ task[b].step = "recovered" /\ task[b].acct = a /\ task[b].pw = pw
  /\ account[a].pw = pw
  /\ task' = [task EXCEPT ![b] = [NoTask EXCEPT !.step = "checked", !.acct = a, !.pw = pw,
                                                !.legacy = account[a].legacy]]
  /\ UNCHANGED <<account, session, disk, app, change, late, stale, tainted, mixed, out>>

\* The upgrade of a legacy hash writes the password that was verified, into an
\* account that may have another by now.
Upgraded(b) ==
  LET a == task[b].acct IN
  IF task[b].legacy
    THEN /\ account' = [account EXCEPT ![a].pw = task[b].pw, ![a].legacy = FALSE]
         /\ tainted' = IF account[a].pw = task[b].pw THEN tainted ELSE tainted \cup {a}
    ELSE UNCHANGED <<account, tainted>>

\* The answer has tokens: they are stored before the identity is looked for.
Issue(b, t) ==
  /\ session[t].acct = None
  /\ session' = [session EXCEPT ![t] = [acct |-> task[b].acct, live |-> TRUE]]
  /\ disk' = [disk EXCEPT ![b].rt = t, ![b].cookie = t]
  /\ app' = [app EXCEPT ![b].access = t]
  /\ stale' = stale \ {b}
  /\ out' = [out EXCEPT ![b] = "no"]
  /\ task' = [task EXCEPT ![b].step = "ensure"]

Admit(b, t) ==
  /\ task[b].step = "checked"
  /\ Exists(task[b].acct)
  /\ task[b].acct \notin TwoFactor
  /\ Upgraded(b)
  /\ Issue(b, t)
  /\ UNCHANGED <<change, late, mixed>>

AskSecondFactor(b) ==
  /\ task[b].step = "checked"
  /\ Exists(task[b].acct)
  /\ task[b].acct \in TwoFactor
  /\ Upgraded(b)
  /\ task' = [task EXCEPT ![b].step = "pending"]
  /\ UNCHANGED <<session, disk, app, change, late, stale, mixed, out>>

CompleteSecondFactor(b, t) ==
  /\ task[b].step = "pending"
  /\ Exists(task[b].acct)
  /\ Issue(b, t)
  /\ UNCHANGED <<account, change, late, tainted, mixed>>

\* Back, a request that fails, or a key that the typed password does not open:
\* the form is there again, and what was stored stays.
SignInFails(b) ==
  /\ task[b].step # "none"
  /\ task' = [task EXCEPT ![b] = NoTask]
  /\ UNCHANGED <<account, session, disk, app, change, late, stale, tainted, mixed, out>>

\* The page is signed in as the account the form was for.
SignedIn(b, id) ==
  /\ Signed(b, task[b].acct, id)
  /\ mixed' = IF Caller(b) = task[b].acct THEN mixed \ {b} ELSE mixed \cup {b}
  /\ task' = [task EXCEPT ![b] = NoTask]

\* GET /users/me/identity and what the answer leads to: recoverIdentity ...
AdoptPublished(b) ==
  LET a == Caller(b)
      id == [pub |-> account[a].pub, priv |-> account[a].blob.key]
  IN
  /\ task[b].step \in {"ensure", "publish"}
  /\ Accepted(b)
  /\ account[a].pub # None
  /\ task[b].key # account[a].pub
  /\ account[a].blob.pw = task[b].pw
  /\ disk' = [disk EXCEPT ![b].key = id]
  /\ SignedIn(b, id)
  /\ UNCHANGED <<account, session, change, late, stale, tainted, out>>

\* ... or createIdentity, which stores the new key at once.
CreateIdentity(b, k) ==
  /\ task[b].step = "ensure"
  /\ Accepted(b)
  /\ account[Caller(b)].pub = None
  /\ Fresh(k)
  /\ disk' = [disk EXCEPT ![b].key = [pub |-> k, priv |-> k]]
  /\ task' = [task EXCEPT ![b].step = "publish", ![b].key = k]
  /\ UNCHANGED <<account, session, app, change, late, stale, tainted, mixed, out>>

\* Mutant: the later of two first sign-ins overwrites the key of the other.
PublishAnyway(b) ==
  LET a == Caller(b)
      k == task[b].key
  IN
  /\ task[b].step = "publish"
  /\ Accepted(b)
  /\ account' = [account EXCEPT ![a].pub = k, ![a].blob = Wrap(k, task[b].pw)]
  /\ tainted' = IF account[a].pw = task[b].pw THEN tainted ELSE tainted \cup {a}
  /\ SignedIn(b, [pub |-> k, priv |-> k])
  /\ UNCHANGED <<session, disk, change, late, stale, out>>

\* PUT /users/me/identity: taken only by a row that has no key yet.
Publish(b) ==
  LET a == Caller(b)
      k == task[b].key
  IN
  /\ task[b].step = "publish"
  /\ Accepted(b)
  /\ account[a].pub = None
  /\ account' = [account EXCEPT ![a].pub = k, ![a].blob = Wrap(k, task[b].pw)]
  /\ tainted' = IF account[a].pw = task[b].pw THEN tainted ELSE tainted \cup {a}
  /\ SignedIn(b, [pub |-> k, priv |-> k])
  /\ UNCHANGED <<session, disk, change, late, stale, out>>

-----------------------------------------------------------------------------
(* Recovery: submitRecovery *)

\* POST /recovery/begin, and the recovered key is stored before the password
\* is reset.  An account without a published key has nothing to import.
RecoverBegin(b, a, pw) ==
  /\ Screen(b) = "login"
  /\ task[b].step = "none"
  /\ Exists(a) /\ account[a].rec # None /\ account[a].pub # None
  /\ disk' = [disk EXCEPT ![b].key = [pub |-> account[a].pub, priv |-> account[a].rec]]
  /\ task' = [task EXCEPT ![b] = [NoTask EXCEPT !.step = "recover", !.acct = a, !.pw = pw,
                                                !.key = account[a].rec]]
  /\ UNCHANGED <<account, session, app, change, late, stale, tainted, mixed, out>>

\* Mutant: the key stays wrapped under the old password.
RewrapPasswordOnly(a, k, pw) ==
  /\ account' = [account EXCEPT ![a].pw = pw, ![a].legacy = FALSE]
  /\ tainted' = IF account[a].pub \in {None, k} THEN tainted \ {a} ELSE tainted \cup {a}

\* The password of a becomes pw, with the key wrapped under it.
Rewrap(a, k, pw) ==
  /\ account' = [account EXCEPT ![a].pw = pw, ![a].legacy = FALSE, ![a].blob = Wrap(k, pw)]
  /\ tainted' = IF account[a].pub \in {None, k} THEN tainted \ {a} ELSE tainted \cup {a}

\* POST /recovery/finish; the page then signs in with the new password.
RecoverFinish(b) ==
  LET a == task[b].acct IN
  /\ task[b].step = "recover"
  /\ Exists(a) /\ account[a].rec # None
  /\ Rewrap(a, task[b].key, task[b].pw)
  /\ Evict(a, None)
  /\ task' = [task EXCEPT ![b].step = "recovered", ![b].key = None]
  /\ UNCHANGED <<disk, app, change, late, mixed, out>>

-----------------------------------------------------------------------------
(* Settings *)

\* POST /users/me/password has verified the current password.  The new wrapped
\* key was made from the key in memory.
BeginChange(b, pw) ==
  LET a == Caller(b) IN
  /\ Screen(b) = "app"
  /\ Accepted(b)
  /\ change[b].step = "none"
  /\ pw # account[a].pw
  /\ change' = [change EXCEPT ![b] = [step |-> "checked", acct |-> a, new |-> pw,
                                      key |-> app[b].id.priv, by |-> app[b].access]]
  /\ UNCHANGED <<account, session, disk, app, task, late, stale, tainted, mixed, out>>

\* ... and commits, sparing the caller's device.
CommitChange(b) ==
  LET a == change[b].acct IN
  /\ change[b].step = "checked"
  /\ Exists(a)
  /\ Rewrap(a, change[b].key, change[b].new)
  /\ Evict(a, change[b].by)
  /\ change' = [change EXCEPT ![b] = NoChange]
  /\ UNCHANGED <<disk, app, task, late, mixed, out>>

FailChange(b) ==
  /\ change[b].step = "checked"
  /\ change' = [change EXCEPT ![b] = NoChange]
  /\ UNCHANGED <<account, session, disk, app, task, late, stale, tainted, mixed, out>>

\* RecoveryKeySetup: the key in memory, wrapped under a recovery key.
SetupRecovery(b) ==
  /\ Screen(b) = "app"
  /\ Accepted(b)
  /\ account' = [account EXCEPT ![Caller(b)].rec = app[b].id.priv]
  /\ UNCHANGED <<session, disk, app, task, change, late, stale, tainted, mixed, out>>

RemoveRecovery(b) ==
  /\ Screen(b) = "app"
  /\ Accepted(b)
  /\ account' = [account EXCEPT ![Caller(b)].rec = None]
  /\ UNCHANGED <<session, disk, app, task, change, late, stale, tainted, mixed, out>>

SignedOff(b) == [app EXCEPT ![b].status = "anon", ![b].user = None, ![b].access = None]

\* The rows go with their devices; the identity of this browser goes too.
DeleteAccount(b) ==
  LET a == Caller(b) IN
  /\ Screen(b) = "app"
  /\ Accepted(b)
  /\ account' = [account EXCEPT ![a] = [pw |-> None, legacy |-> FALSE, pub |-> None,
                                        blob |-> Unwrapped, rec |-> None]]
  /\ Evict(a, None)
  /\ disk' = [disk EXCEPT ![b].key = NoPair, ![b].rt = None]
  /\ app' = [SignedOff(b) EXCEPT ![b].id = NoPair]
  /\ UNCHANGED <<task, change, late, tainted, mixed, out>>

\* Mutant: only what the page itself stores is dropped.
SignOutHere(b) ==
  /\ Screen(b) \in {"app", "lock"}
  /\ Accepted(b)
  /\ disk' = [disk EXCEPT ![b].rt = None]
  /\ app' = SignedOff(b)
  /\ stale' = stale \ {b}
  /\ out' = [out EXCEPT ![b] = IF late[b] \in {None, app[b].access} THEN "served" ELSE "no"]
  /\ UNCHANGED <<account, session, task, change, late, tainted, mixed>>

\* logout, from Settings or the lock screen, reaches the server with a token it
\* accepts: the device's sessions end and the cookie is deleted.
SignOut(b) ==
  /\ Screen(b) \in {"app", "lock"}
  /\ Accepted(b)
  /\ session' = [session EXCEPT ![app[b].access].live = FALSE]
  /\ disk' = [disk EXCEPT ![b].rt = None, ![b].cookie = None]
  /\ app' = SignedOff(b)
  /\ stale' = stale \ {b}
  /\ out' = [out EXCEPT ![b] = IF late[b] \in {None, app[b].access} THEN "served" ELSE "no"]
  /\ UNCHANGED <<account, task, change, late, tainted, mixed>>

\* The token has expired: /auth/ requests are not refreshed, and the refusal is
\* ignored.  Or the request is lost.
SignOutUnserved(b) ==
  /\ Screen(b) \in {"app", "lock"}
  /\ \/ b \in stale /\ out' = [out EXCEPT ![b] = "refused"]
     \/ out' = [out EXCEPT ![b] = "no"]
  /\ disk' = [disk EXCEPT ![b].rt = None]
  /\ app' = SignedOff(b)
  /\ stale' = stale \ {b}
  /\ UNCHANGED <<account, session, task, change, late, tainted, mixed>>

-----------------------------------------------------------------------------
(* Access tokens: api, refreshToken *)

AccessExpires(b) ==
  /\ app[b].access # None
  /\ b \notin stale
  /\ stale' = stale \cup {b}
  /\ UNCHANGED <<account, session, disk, app, task, change, late, tainted, mixed, out>>

\* Only the app and ensureIdentity ask for anything beside /auth/.
Requesting(b) == app[b].status = "authed" \/ task[b].step \in {"ensure", "publish"}

\* A request was answered 401; the server grants the refresh that follows.
Refresh(b) ==
  /\ Requesting(b)
  /\ b \in stale
  /\ late[b] = None
  /\ Refreshable(Presented(b))
  /\ late' = [late EXCEPT ![b] = Presented(b)]
  /\ UNCHANGED <<account, session, disk, app, task, change, stale, tainted, mixed, out>>

\* The answer is stored whatever the browser is doing by now.  The token in it
\* is dead if its sessions were evicted meanwhile, not if they were signed out.
RefreshArrives(b) ==
  /\ late[b] # None
  /\ disk' = [disk EXCEPT ![b].rt = late[b], ![b].cookie = late[b]]
  /\ app' = [app EXCEPT ![b].access = late[b]]
  /\ \/ stale' = stale \ {b}
     \/ ~session[late[b]].live /\ stale' = stale \cup {b}
  /\ late' = [late EXCEPT ![b] = None]
  /\ UNCHANGED <<account, session, task, change, tainted, mixed, out>>

\* Any answer but a success counts as the loss of the session (onAuthLost).
RefreshRefused(b) ==
  /\ Requesting(b)
  /\ b \in stale
  /\ late[b] = None
  /\ app' = SignedOff(b)
  /\ stale' = stale \ {b}
  /\ UNCHANGED <<account, session, disk, task, change, late, tainted, mixed, out>>

-----------------------------------------------------------------------------
(* The lock screen, and the administrator *)

SetLock(b, on) ==
  /\ b \in Lockers
  /\ Screen(b) = "app"
  /\ disk' = [disk EXCEPT ![b].lock = on]
  /\ UNCHANGED <<account, session, app, task, change, late, stale, tainted, mixed, out>>

\* The app comes back to the foreground after more than half a minute.
Relock(b) ==
  /\ disk[b].lock /\ ~app[b].locked
  /\ app' = [app EXCEPT ![b].locked = TRUE]
  /\ UNCHANGED <<account, session, disk, task, change, late, stale, tainted, mixed, out>>

Unlock(b) ==
  /\ Screen(b) = "lock"
  /\ app' = [app EXCEPT ![b].locked = FALSE]
  /\ UNCHANGED <<account, session, disk, task, change, late, stale, tainted, mixed, out>>

\* The key stays wrapped under the old password.
AdminReset(a, pw) ==
  /\ Exists(a)
  /\ pw # account[a].pw
  /\ account' = [account EXCEPT ![a].pw = pw, ![a].legacy = FALSE]
  /\ Evict(a, None)
  /\ tainted' = tainted \cup {a}
  /\ UNCHANGED <<disk, app, task, change, late, mixed, out>>

-----------------------------------------------------------------------------

Start(b) == \/ Boot(b) \/ BootRestores(b) \/ BootNeedsPassword(b) \/ BootMismatch(b)
            \/ BootFails(b)

Login(b) == \/ \E a \in Accounts, pw \in Passwords : SignIn(b, a, pw) \/ RecoverBegin(b, a, pw)
            \/ \E t \in Tokens : Admit(b, t) \/ CompleteSecondFactor(b, t)
            \/ \E k \in Keys : CreateIdentity(b, k)
            \/ AskSecondFactor(b) \/ SignInFails(b) \/ AdoptPublished(b) \/ Publish(b)
            \/ RecoverFinish(b)

Settings(b) == \/ \E pw \in Passwords : BeginChange(b, pw)
               \/ CommitChange(b) \/ FailChange(b)
               \/ SetupRecovery(b) \/ RemoveRecovery(b) \/ DeleteAccount(b)
               \/ SignOut(b) \/ SignOutUnserved(b)
               \/ \E on \in BOOLEAN : SetLock(b, on)
               \/ Relock(b) \/ Unlock(b)

Access(b) == AccessExpires(b) \/ Refresh(b) \/ RefreshArrives(b) \/ RefreshRefused(b)

Next == \/ \E b \in Browsers : Start(b) \/ Login(b) \/ Settings(b) \/ Access(b)
        \/ \E a \in Accounts, pw \in Passwords : AdminReset(a, pw)
Spec == Init /\ [][Next]_vars

-----------------------------------------------------------------------------
(* Properties *)

\* The published key can be had with the password: change and recovery keep the
\* wrapped key and the password together through overlapping requests, except
\* after an administrator's reset or one of the races marked in "tainted".
KeyOpensWithPassword ==
  \A a \in Accounts :
    account[a].pub # None /\ a \notin tainted =>
      account[a].blob = Wrap(account[a].pub, account[a].pw)

\* A browser never works for one account with the key of another: who is signed
\* in holds the key the account has published (bootstrap, ensureIdentity), unless
\* it was restored when there was none to compare with, or a late answer replaced
\* its access token while it signed in.
SignedInKeyIsTheAccounts ==
  \A b \in Browsers :
    LET a == app[b].user IN
    app[b].status = "authed" /\ b \notin mixed /\ account[a].pub # None =>
      app[b].id.pub = account[a].pub

\* Two first sign-ins do not overwrite each other's key: a published key stays
\* (set_my_identity's compare-and-set) until the account is deleted.
PublishedKeyStays ==
  [][\A a \in Accounts :
       account[a].pub # None /\ account'[a].pw # None => account'[a].pub = account[a].pub]_vars

\* After a sign-out that reached the server no reload signs the browser in again,
\* whatever cookie, stored token or late answer is left (logout, bootstrap).
SignedOutStaysOut ==
  \A b \in Browsers : out[b] = "served" => app[b].status # "authed"

\* "must still end up fully signed out" (auth.py, logout): also after a sign-out
\* with an access token that has expired or that a password change put out of use.
FullySignedOut ==
  \A b \in Browsers : out[b] \in {"served", "refused"} => app[b].status # "authed"

\* "The key on this device belongs to a different account than the session.
\* Don't pair them." (auth.ts, bootstrap)
ForeignKeyNotPaired ==
  \A b \in Browsers :
    app[b].status = "authed" =>
      \A a \in Accounts \ {app[b].user} : app[b].id.pub # account[a].pub \/ account[a].pub = None

\* "A sign-out escape prevents permanent lockout" (LockGate): who signs in with
\* the password is not sent back to the lock screen.
EscapeUnlocks ==
  [][\A b \in Browsers :
       task[b].step \in {"ensure", "publish"} /\ app'[b].status = "authed" =>
         ~app'[b].locked]_vars

\* A changed password stays changed: no sign-in puts the old one back.
SignInKeepsPassword ==
  [][\A b \in Browsers, t \in Tokens :
       Admit(b, t) => \A a \in Accounts : account'[a].pw = account[a].pw]_vars
=============================================================================
