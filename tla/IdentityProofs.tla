--------------------------- MODULE IdentityProofs ---------------------------
(***************************************************************************)
(* Theorems about Identity, for any sets of accounts, browsers, keys,      *)
(* tokens and passwords.  One inductive invariant carries all of them.     *)
(***************************************************************************)
EXTENDS Identity, TLAPS

\* A leaf is for the SMT solver, which is given time, unless it names another prover.
USE SMTT(60)

\* Whatever token is live or held somewhere was issued for an account.
Issued ==
  /\ \A t \in Tokens : session[t].live => session[t].acct # None
  /\ \A b \in Browsers :
       /\ disk[b].rt # None => session[disk[b].rt].acct # None
       /\ disk[b].cookie # None => session[disk[b].cookie].acct # None
       /\ app[b].access # None => session[app[b].access].acct # None
       /\ late[b] # None => session[late[b]].acct # None

\* A continuation knows its account, and a page that is not at the form has none.
Shapes ==
  \A b \in Browsers :
    /\ task[b].step # "none" => task[b].acct # None
    /\ task[b].step = "publish" => task[b].key # None
    /\ change[b].step = "checked" => change[b].acct # None
    /\ app[b].status \in {"loading", "authed"} => task[b].step = "none"

\* Who works for an account without a key was restored.
KeylessAreMixed ==
  \A b \in Browsers :
    app[b].status = "authed" /\ account[app[b].user].pub = None /\ Exists(app[b].user)
      => b \in mixed

\* A sign-out that was served leaves no live token in the browser, no answer
\* that would bring one, and no sign-in that has been granted.
NothingLeft ==
  \A b \in Browsers :
    out[b] = "served" =>
      /\ app[b].status # "authed"
      /\ task[b].step \notin {"ensure", "publish"}
      /\ \A t \in {disk[b].rt, disk[b].cookie, late[b]} \ {None} : ~session[t].live

IInv ==
  /\ TypeOK
  /\ Issued
  /\ Shapes
  /\ KeyOpensWithPassword
  /\ KeylessAreMixed
  /\ SignedInKeyIsTheAccounts
  /\ NothingLeft

-----------------------------------------------------------------------------
\* Ending sessions keeps whose they are, and makes none live.
LEMMA EvictFacts ==
  ASSUME TypeOK, NEW a, NEW t, Evict(a, t)
  PROVE  /\ session' \in [Tokens -> Session]
         /\ \A x \in Tokens : /\ session'[x].acct = session[x].acct
                              /\ session'[x].live => session[x].live
         /\ stale' \subseteq Browsers
  BY ZenonT(120) DEF TypeOK, Evict, Session

\* Issuing takes a token that nobody holds.
LEMMA IssueFacts ==
  ASSUME TypeOK, Issued, Shapes, NEW b \in Browsers, NEW t \in Tokens, Issue(b, t),
         task[b].step \in {"checked", "pending"}
  PROVE  /\ session' \in [Tokens -> Session]
         /\ disk' \in [Browsers -> Disk]
         /\ app' \in [Browsers -> App]
         /\ task' \in [Browsers -> Task]
         /\ stale' \subseteq Browsers
         /\ out' \in [Browsers -> {"no", "served", "refused"}]
         /\ \A x \in Tokens : x # t => session'[x] = session[x]
         /\ session'[t].acct # None
         /\ \A c \in Browsers : t \notin {disk[c].rt, disk[c].cookie, app[c].access, late[c]}
         /\ \A c \in Browsers : /\ c # b => disk'[c] = disk[c] /\ app'[c] = app[c]
                                            /\ task'[c] = task[c] /\ out'[c] = out[c]
                                /\ app'[c].status = app[c].status
                                /\ app'[c].user = app[c].user
                                /\ app'[c].id = app[c].id
         /\ disk'[b].rt = t /\ disk'[b].cookie = t /\ app'[b].access = t /\ out'[b] = "no"
         /\ task'[b].step = "ensure" /\ task'[b].acct = task[b].acct
  <1>1. task[b].acct \in Accounts /\ t # None
    BY NoneIsNothing DEF TypeOK, Shapes, Task, Opt
  <1>2. \A c \in Browsers : t \notin {disk[c].rt, disk[c].cookie, app[c].access, late[c]}
    BY <1>1 DEF Issue, Issued
  <1>3. task[b].acct # None
    BY <1>1, NoneIsNothing
  <1> QED
    BY <1>1, <1>2, <1>3 DEF TypeOK, Issue, Session, Disk, App, Task, Steps, Opt

\* A refreshable token is one of an account that exists.
LEMMA RefreshableFacts ==
  ASSUME TypeOK, Issued, NEW b \in Browsers, Refreshable(Presented(b))
  PROVE  /\ Presented(b) \in Tokens
         /\ session[Presented(b)].acct \in Accounts
         /\ Exists(session[Presented(b)].acct)
         /\ Presented(b) \in {disk[b].rt, disk[b].cookie} \ {None}
         /\ session[Presented(b)].live
  BY DEF TypeOK, Issued, Presented, Refreshable, Session, Disk, Opt

\* A request is for an account that exists.
LEMMA CallerFacts ==
  ASSUME TypeOK, Issued, NEW b \in Browsers, Accepted(b)
  PROVE  /\ Caller(b) \in Accounts
         /\ Exists(Caller(b))
         /\ app[b].access \in Tokens
  BY DEF TypeOK, Issued, Accepted, Caller, Session, App, Opt

\* The values of absent things have the types of present ones.
LEMMA Values ==
  /\ None \in Opt(Keys) /\ None \in Opt(Tokens) /\ None \in Opt(Accounts)
  /\ None \in Opt(Passwords)
  /\ Keys \subseteq Opt(Keys) /\ Tokens \subseteq Opt(Tokens)
  /\ Accounts \subseteq Opt(Accounts) /\ Passwords \subseteq Opt(Passwords)
  /\ \A t \in Opt(Tokens) : t = None \/ t \in Tokens
  /\ \A a \in Opt(Accounts) : a = None \/ a \in Accounts
  /\ NoPair \in Pair /\ Unwrapped \in Wrapped /\ NoTask \in Task /\ NoChange \in Change
  /\ \A p, q \in Opt(Keys) : [pub |-> p, priv |-> q] \in Pair
  /\ \A k \in Opt(Keys), pw \in Opt(Passwords) : Wrap(k, pw) \in Wrapped
  BY DEF Opt, NoPair, Pair, Unwrapped, Wrapped, NoTask, Task, Steps, NoChange, Change, Wrap

\* The store after an update of some of its fields.
LEMMA StoreKeepsType ==
  ASSUME NEW f \in [Browsers -> Disk], NEW b \in Browsers,
         NEW t \in Opt(Tokens), NEW u \in Opt(Tokens)
  PROVE  [f EXCEPT ![b].rt = t, ![b].cookie = u] \in [Browsers -> Disk]
  <1>1. [f[b] EXCEPT !.rt = t, !.cookie = u] \in Disk
    BY Zenon DEF Disk
  <1>2. [f EXCEPT ![b].rt = t, ![b].cookie = u] = [f EXCEPT ![b] = [f[b] EXCEPT !.rt = t, !.cookie = u]]
    BY Zenon
  <1> QED
    BY <1>1, <1>2

LEMMA RewrapKeepsType ==
  ASSUME NEW f \in [Accounts -> Account], NEW a \in Accounts, NEW pw \in Opt(Passwords),
         NEW w \in Wrapped
  PROVE  [f EXCEPT ![a].pw = pw, ![a].legacy = FALSE, ![a].blob = w] \in [Accounts -> Account]
  <1>1. [f[a] EXCEPT !.pw = pw, !.legacy = FALSE, !.blob = w] \in Account
    BY Zenon DEF Account
  <1>2. [f EXCEPT ![a].pw = pw, ![a].legacy = FALSE, ![a].blob = w]
          = [f EXCEPT ![a] = [f[a] EXCEPT !.pw = pw, !.legacy = FALSE, !.blob = w]]
    BY Zenon
  <1> QED
    BY <1>1, <1>2

LEMMA RestoreKeepsType ==
  ASSUME NEW f \in [Browsers -> App], NEW b \in Browsers,
         NEW s \in {"loading", "anon", "authed"}, NEW u \in Opt(Accounts), NEW t \in Opt(Tokens)
  PROVE  [f EXCEPT ![b].status = s, ![b].user = u, ![b].access = t] \in [Browsers -> App]
  <1>1. [f[b] EXCEPT !.status = s, !.user = u, !.access = t] \in App
    BY Zenon DEF App
  <1>2. [f EXCEPT ![b].status = s, ![b].user = u, ![b].access = t]
          = [f EXCEPT ![b] = [f[b] EXCEPT !.status = s, !.user = u, !.access = t]]
    BY Zenon
  <1> QED
    BY <1>1, <1>2

LEMMA SignInKeepsType ==
  ASSUME NEW f \in [Browsers -> App], NEW b \in Browsers,
         NEW s \in {"loading", "anon", "authed"}, NEW u \in Opt(Accounts), NEW i \in Pair
  PROVE  [f EXCEPT ![b].status = s, ![b].user = u, ![b].id = i] \in [Browsers -> App]
  <1>1. [f[b] EXCEPT !.status = s, !.user = u, !.id = i] \in App
    BY Zenon DEF App
  <1>2. [f EXCEPT ![b].status = s, ![b].user = u, ![b].id = i]
          = [f EXCEPT ![b] = [f[b] EXCEPT !.status = s, !.user = u, !.id = i]]
    BY Zenon
  <1> QED
    BY <1>1, <1>2

LEMMA SignedOffFacts ==
  ASSUME TypeOK, NEW b \in Browsers
  PROVE  /\ SignedOff(b) \in [Browsers -> App]
         /\ SignedOff(b)[b].status = "anon"
         /\ SignedOff(b)[b].id = app[b].id
         /\ SignedOff(b)[b].access = None
         /\ \A c \in Browsers : c # b => SignedOff(b)[c] = app[c]
  <1>1. app \in [Browsers -> App]
    BY DEF TypeOK
  <1>2. None \in Opt(Accounts) /\ None \in Opt(Tokens)
    BY DEF Opt
  <1>3. SignedOff(b) \in [Browsers -> App]
    BY ZenonT(120), <1>1, <1>2, RestoreKeepsType DEF SignedOff
  <1> QED
    BY <1>1, <1>3 DEF SignedOff, App

\* Every step keeps the types.
LEMMA TypesKept ==
  ASSUME TypeOK, Issued, Shapes, [Next]_vars
  PROVE  TypeOK'
  <1>1. ASSUME NEW b \in Browsers, Boot(b)
       PROVE  TypeOK'
    BY <1>1, Values DEF TypeOK, Boot, Disk, App
  <1>2. ASSUME NEW b \in Browsers, BootRestores(b)
       PROVE  TypeOK'
    <2>1. Presented(b) \in Opt(Tokens) /\ session[Presented(b)].acct \in Accounts
          /\ session[Presented(b)].acct \in Opt(Accounts) \ {None}
      BY <1>2, Values, RefreshableFacts, NoneIsNothing DEF BootRestores
    <2>2. disk' \in [Browsers -> Disk]
      BY Zenon, <1>2, <2>1, StoreKeepsType DEF TypeOK, BootRestores
    <2>3. app' \in [Browsers -> App]
      BY ZenonT(120), <1>2, <2>1, RestoreKeepsType DEF TypeOK, BootRestores
    <2>4. \A c \in Browsers :
           app'[c].status = "authed" => app'[c].user # None /\ app'[c].id # NoPair
      BY <1>2, <2>1 DEF TypeOK, BootRestores, App
    <2> QED
      BY <1>2, <2>1, <2>2, <2>3, <2>4 DEF TypeOK, BootRestores
  <1>3. ASSUME NEW b \in Browsers, BootNeedsPassword(b)
       PROVE  TypeOK'
    <2>1. Presented(b) \in Opt(Tokens) /\ session[Presented(b)].acct \in Accounts
      BY <1>3, Values, RefreshableFacts DEF BootNeedsPassword
    <2>2. disk' \in [Browsers -> Disk]
      BY Zenon, <1>3, <2>1, StoreKeepsType DEF TypeOK, BootNeedsPassword
    <2>3. app' \in [Browsers -> App]
      BY <1>3, <2>1, ZenonT(120) DEF TypeOK, BootNeedsPassword, App
    <2>4. \A c \in Browsers :
           app'[c].status = "authed" => app'[c].user # None /\ app'[c].id # NoPair
      BY <1>3, <2>1 DEF TypeOK, BootNeedsPassword, App
    <2> QED
      BY <1>3, <2>1, <2>2, <2>3, <2>4 DEF TypeOK, BootNeedsPassword
  <1>4. ASSUME NEW b \in Browsers, BootMismatch(b)
       PROVE  TypeOK'
    BY <1>4, Values, RefreshableFacts DEF TypeOK, BootMismatch, Disk, App
  <1>5. ASSUME NEW b \in Browsers, BootFails(b)
       PROVE  TypeOK'
    BY <1>5, Values DEF TypeOK, BootFails, App
  <1>6. ASSUME NEW b \in Browsers, NEW a \in Accounts, NEW pw \in Passwords, SignIn(b, a, pw)
       PROVE  TypeOK'
    <2>1. task' \in [Browsers -> Task]
      <3>1. account[a].legacy \in BOOLEAN
        BY DEF TypeOK, Account
      <3>2. [NoTask EXCEPT !.step = "checked", !.acct = a, !.pw = pw, !.legacy = account[a].legacy]
              \in Task
        BY Zenon, <3>1, Values DEF Task, Steps, NoTask
      <3> QED
        BY <1>6, <3>2 DEF TypeOK, SignIn
    <2> QED
      BY <1>6, <2>1 DEF TypeOK, SignIn
  <1>7. ASSUME NEW b \in Browsers, NEW a \in Accounts, NEW pw \in Passwords, RecoverBegin(b, a, pw)
       PROVE  TypeOK'
    <2>1. account[a].pub \in Opt(Keys) /\ account[a].rec \in Opt(Keys)
      BY DEF TypeOK, Account
    <2>2. task' \in [Browsers -> Task]
      <3>1. [NoTask EXCEPT !.step = "recover", !.acct = a, !.pw = pw, !.key = account[a].rec] \in Task
        BY Zenon, <2>1, Values DEF Task, Steps, NoTask
      <3> QED
        BY <1>7, <3>1 DEF TypeOK, RecoverBegin
    <2>3. disk' \in [Browsers -> Disk]
      <3> DEFINE id == [pub |-> account[a].pub, priv |-> account[a].rec]
      <3>1. id \in Pair /\ disk \in [Browsers -> Disk] /\ disk' = [disk EXCEPT ![b].key = id]
        BY <1>7, <2>1, Values DEF TypeOK, RecoverBegin
      <3> HIDE DEF id
      <3> QED
        BY <3>1 DEF Disk
    <2> QED
      BY <1>7, <2>2, <2>3 DEF TypeOK, RecoverBegin
  <1>8. ASSUME NEW b \in Browsers, NEW t \in Tokens, Admit(b, t)
       PROVE  TypeOK'
    <2>1. task[b].acct \in Accounts /\ task[b].step \in {"checked", "pending"}
          /\ task[b].pw \in Opt(Passwords)
      BY <1>8, Values DEF TypeOK, Admit, Shapes, Task
    <2>2. account' \in [Accounts -> Account] /\ tainted' \subseteq Accounts
      BY <1>8, <2>1 DEF TypeOK, Admit, Upgraded, Account
    <2>3. /\ session' \in [Tokens -> Session] /\ disk' \in [Browsers -> Disk]
          /\ app' \in [Browsers -> App] /\ task' \in [Browsers -> Task]
          /\ stale' \subseteq Browsers /\ out' \in [Browsers -> {"no", "served", "refused"}]
          /\ \A c \in Browsers : /\ app'[c].status = app[c].status
                                 /\ app'[c].user = app[c].user
                                 /\ app'[c].id = app[c].id
      BY <1>8, <2>1, IssueFacts DEF Admit
    <2> QED
      BY <1>8, <2>2, <2>3 DEF TypeOK, Admit
  <1>9. ASSUME NEW b \in Browsers, NEW t \in Tokens, CompleteSecondFactor(b, t)
       PROVE  TypeOK'
    <2>1. task[b].acct \in Accounts /\ task[b].step \in {"checked", "pending"}
          /\ task[b].pw \in Opt(Passwords)
      BY <1>9, Values DEF TypeOK, CompleteSecondFactor, Shapes, Task
    <2>2. /\ session' \in [Tokens -> Session] /\ disk' \in [Browsers -> Disk]
          /\ app' \in [Browsers -> App] /\ task' \in [Browsers -> Task]
          /\ stale' \subseteq Browsers /\ out' \in [Browsers -> {"no", "served", "refused"}]
          /\ \A c \in Browsers : /\ app'[c].status = app[c].status
                                 /\ app'[c].user = app[c].user
                                 /\ app'[c].id = app[c].id
      BY <1>9, <2>1, IssueFacts DEF CompleteSecondFactor
    <2> QED
      BY ZenonT(120), <1>9, <2>2 DEF TypeOK, CompleteSecondFactor
  <1>10. ASSUME NEW b \in Browsers, NEW k \in Keys, CreateIdentity(b, k)
       PROVE  TypeOK'
    <2>1. task' \in [Browsers -> Task]
      BY ZenonT(120), <1>10, Values DEF TypeOK, CreateIdentity, Task, Steps
    <2>2. disk' \in [Browsers -> Disk]
      <3> DEFINE id == [pub |-> k, priv |-> k]
      <3>1. id \in Pair /\ disk \in [Browsers -> Disk] /\ disk' = [disk EXCEPT ![b].key = id]
        BY <1>10, Values DEF TypeOK, CreateIdentity
      <3> HIDE DEF id
      <3> QED
        BY <3>1 DEF Disk
    <2> QED
      BY <1>10, <2>1, <2>2 DEF TypeOK, CreateIdentity
  <1>11. ASSUME NEW b \in Browsers, AskSecondFactor(b)
       PROVE  TypeOK'
    <2>1. task[b].acct \in Accounts /\ task[b].step \in {"checked", "pending"}
          /\ task[b].pw \in Opt(Passwords)
      BY <1>11, Values DEF TypeOK, AskSecondFactor, Shapes, Task
    <2>2. account' \in [Accounts -> Account]
      BY <1>11, <2>1 DEF TypeOK, AskSecondFactor, Upgraded, Account
    <2>3. tainted' \subseteq Accounts
      BY <1>11, <2>1 DEF TypeOK, AskSecondFactor, Upgraded
    <2>4. task' \in [Browsers -> Task]
      BY <1>11, <2>1 DEF TypeOK, AskSecondFactor, Task, Steps
    <2> QED
      BY <1>11, <2>1, <2>2, <2>3, <2>4 DEF TypeOK, AskSecondFactor
  <1>12. ASSUME NEW b \in Browsers, SignInFails(b)
       PROVE  TypeOK'
    BY <1>12, Values DEF TypeOK, SignInFails, Task
  <1>13. ASSUME NEW b \in Browsers, AdoptPublished(b)
       PROVE  TypeOK'
    <2> DEFINE id == [pub |-> account[Caller(b)].pub, priv |-> account[Caller(b)].blob.key]
    <2>1. /\ Caller(b) \in Accounts
          /\ task[b].acct \in Opt(Accounts) \ {None}
      BY <1>13, CallerFacts, Values DEF TypeOK, AdoptPublished, Shapes, Task
    <2>2. id \in Pair /\ id # NoPair
      BY <1>13, <2>1, Values DEF TypeOK, AdoptPublished, Account, Wrapped, NoPair
    <2>3. /\ disk' = [disk EXCEPT ![b].key = id]
          /\ app' = [app EXCEPT ![b].status = "authed", ![b].user = task[b].acct, ![b].id = id]
          /\ task' = [task EXCEPT ![b] = NoTask]
          /\ mixed' \subseteq mixed \cup {b}
          /\ UNCHANGED <<account, session, change, late, stale, tainted, out>>
      BY <1>13 DEF AdoptPublished, SignedIn, Signed
    <2> HIDE DEF id
    <2>4. disk' \in [Browsers -> Disk]
      <3>1. disk \in [Browsers -> Disk]
        BY DEF TypeOK
      <3> QED
        BY <2>2, <2>3, <3>1 DEF Disk
    <2>5. app' \in [Browsers -> App]
      BY <2>1, <2>2, <2>3, SignInKeepsType, ZenonT(120) DEF TypeOK
    <2>6. \A c \in Browsers :
           app'[c].status = "authed" => app'[c].user # None /\ app'[c].id # NoPair
      BY <2>1, <2>2, <2>3 DEF TypeOK, App
    <2> QED
      BY <2>3, <2>4, <2>5, <2>6, Values DEF TypeOK
  <1>14. ASSUME NEW b \in Browsers, Publish(b)
       PROVE  TypeOK'
    <2> DEFINE id == [pub |-> task[b].key, priv |-> task[b].key]
               w == Wrap(task[b].key, task[b].pw)
    <2>1. /\ Caller(b) \in Accounts
          /\ task[b].acct \in Opt(Accounts) \ {None}
          /\ task[b].key \in Opt(Keys)
      BY <1>14, CallerFacts, Values DEF TypeOK, Publish, Shapes, Task
    <2>2. id \in Pair /\ id # NoPair /\ w \in Wrapped
      BY <1>14, Values DEF TypeOK, Publish, Shapes, Task, NoPair
    <2>3. /\ account' = [account EXCEPT ![Caller(b)].pub = task[b].key, ![Caller(b)].blob = w]
          /\ app' = [app EXCEPT ![b].status = "authed", ![b].user = task[b].acct, ![b].id = id]
          /\ task' = [task EXCEPT ![b] = NoTask]
          /\ tainted' \subseteq tainted \cup {Caller(b)}
          /\ mixed' \subseteq mixed \cup {b}
          /\ UNCHANGED <<session, disk, change, late, stale, out>>
      BY <1>14 DEF Publish, SignedIn, Signed
    <2> HIDE DEF id, w
    <2>4. account' \in [Accounts -> Account]
      <3>1. account \in [Accounts -> Account]
        BY DEF TypeOK
      <3> QED
        BY ZenonT(120), <2>1, <2>2, <2>3, <3>1 DEF Account
    <2>5. app' \in [Browsers -> App]
      BY ZenonT(120), <2>1, <2>2, <2>3, SignInKeepsType DEF TypeOK
    <2>6. \A c \in Browsers :
           app'[c].status = "authed" => app'[c].user # None /\ app'[c].id # NoPair
      BY <2>1, <2>2, <2>3 DEF TypeOK, App
    <2> QED
      BY <2>1, <2>3, <2>4, <2>5, <2>6, Values DEF TypeOK
  <1>15. ASSUME NEW b \in Browsers, RecoverFinish(b)
       PROVE  TypeOK'
    <2>1. /\ task[b].acct \in Accounts /\ task[b].key \in Opt(Keys)
          /\ Wrap(task[b].key, task[b].pw) \in Wrapped /\ task[b].pw \in Opt(Passwords)
      BY <1>15, Values DEF TypeOK, RecoverFinish, Shapes, Task
    <2>2. account' \in [Accounts -> Account] /\ tainted' \subseteq Accounts
      BY ZenonT(120), <1>15, <2>1, RewrapKeepsType DEF TypeOK, RecoverFinish, Rewrap
    <2>3. task' \in [Browsers -> Task]
      BY ZenonT(120), <1>15, Values DEF TypeOK, RecoverFinish, Task, Steps
    <2>4. session' \in [Tokens -> Session] /\ stale' \subseteq Browsers
      BY <1>15, EvictFacts DEF RecoverFinish
    <2> QED
      BY <1>15, <2>2, <2>3, <2>4 DEF TypeOK, RecoverFinish
  <1>16. ASSUME NEW b \in Browsers, NEW pw \in Passwords, BeginChange(b, pw)
       PROVE  TypeOK'
    BY <1>16, Values, CallerFacts DEF TypeOK, BeginChange, App, Change, Pair
  <1>17. ASSUME NEW b \in Browsers, CommitChange(b)
       PROVE  TypeOK'
    <2>1. /\ change[b].acct \in Accounts /\ change[b].key \in Opt(Keys)
          /\ Wrap(change[b].key, change[b].new) \in Wrapped
          /\ change[b].new \in Opt(Passwords)
      BY <1>17, Values DEF TypeOK, CommitChange, Shapes, Change
    <2>2. account' \in [Accounts -> Account] /\ tainted' \subseteq Accounts
      BY ZenonT(120), <1>17, <2>1, RewrapKeepsType DEF TypeOK, CommitChange, Rewrap
    <2>3. session' \in [Tokens -> Session] /\ stale' \subseteq Browsers
      BY <1>17, EvictFacts DEF CommitChange
    <2> QED
      BY <1>17, <2>2, <2>3, Values DEF TypeOK, CommitChange
  <1>18. ASSUME NEW b \in Browsers, FailChange(b)
       PROVE  TypeOK'
    BY <1>18, Values DEF TypeOK, FailChange, Change
  <1>19. ASSUME NEW b \in Browsers, SetupRecovery(b)
       PROVE  TypeOK'
    <2>1. Caller(b) \in Accounts /\ app[b].id.priv \in Opt(Keys)
      BY <1>19, CallerFacts DEF TypeOK, SetupRecovery, App, Pair
    <2>2. account' \in [Accounts -> Account]
      BY <1>19, <2>1 DEF TypeOK, SetupRecovery, Account
    <2> QED
      BY <1>19, <2>1, <2>2 DEF TypeOK, SetupRecovery
  <1>20. ASSUME NEW b \in Browsers, RemoveRecovery(b)
       PROVE  TypeOK'
    BY <1>20, Values, CallerFacts DEF TypeOK, RemoveRecovery, Account
  <1>21. ASSUME NEW b \in Browsers, DeleteAccount(b)
       PROVE  TypeOK'
    <2>1. /\ Caller(b) \in Accounts
          /\ None \in Opt(Passwords) /\ None \in Opt(Keys) /\ None \in Opt(Tokens)
          /\ Unwrapped \in Wrapped /\ NoPair \in Pair
      BY <1>21, CallerFacts, Values DEF DeleteAccount
    <2>2. account' \in [Accounts -> Account]
      BY <1>21, <2>1 DEF TypeOK, DeleteAccount, Account
    <2>3. session' \in [Tokens -> Session] /\ stale' \subseteq Browsers
      BY <1>21, EvictFacts DEF DeleteAccount
    <2>4. disk' \in [Browsers -> Disk]
      <3>1. disk \in [Browsers -> Disk] /\ disk' = [disk EXCEPT ![b].key = NoPair, ![b].rt = None]
        BY <1>21 DEF TypeOK, DeleteAccount
      <3> QED
        BY ZenonT(120), <2>1, <3>1 DEF Disk
    <2>5. /\ app' \in [Browsers -> App]
          /\ \A c \in Browsers : app'[c].status = "authed" => app'[c] = app[c]
      <3> DEFINE f == SignedOff(b)
      <3>1. app' = [f EXCEPT ![b].id = NoPair]
        BY <1>21 DEF DeleteAccount
      <3>2. /\ f \in [Browsers -> App] /\ f[b].status = "anon"
            /\ \A c \in Browsers : c # b => f[c] = app[c]
        BY SignedOffFacts
      <3> HIDE DEF f
      <3>3. app' \in [Browsers -> App]
        BY <2>1, <3>1, <3>2 DEF App
      <3>4. app'[b].status = "anon" /\ \A c \in Browsers : c # b => app'[c] = app[c]
        BY <3>1, <3>2 DEF App
      <3> QED
        BY <3>3, <3>4
    <2> QED
      BY Zenon, <1>21, <2>2, <2>3, <2>4, <2>5 DEF TypeOK, DeleteAccount
  <1>22. ASSUME NEW b \in Browsers, SignOut(b)
       PROVE  TypeOK'
    <2>1. app[b].access \in Tokens /\ None \in Opt(Tokens)
      BY <1>22, CallerFacts, Values DEF SignOut
    <2>2. session' \in [Tokens -> Session]
      BY ZenonT(120), <1>22, <2>1 DEF TypeOK, SignOut, Session
    <2>3. disk' \in [Browsers -> Disk]
      BY Zenon, <1>22, <2>1, StoreKeepsType DEF TypeOK, SignOut
    <2>4. /\ app' \in [Browsers -> App]
          /\ \A c \in Browsers : app'[c].status = "authed" => app'[c] = app[c]
      <3>1. app' = SignedOff(b)
        BY <1>22 DEF SignOut
      <3> QED
        BY <3>1, SignedOffFacts
    <2> QED
      BY <1>22, <2>2, <2>3, <2>4 DEF TypeOK, SignOut
  <1>23. ASSUME NEW b \in Browsers, SignOutUnserved(b)
       PROVE  TypeOK'
    <2>1. disk' \in [Browsers -> Disk]
      <3>1. None \in Opt(Tokens)
        BY Values
      <3> QED
        BY <1>23, <3>1 DEF TypeOK, SignOutUnserved, Disk
    <2>2. /\ app' \in [Browsers -> App]
          /\ \A c \in Browsers : app'[c].status = "authed" => app'[c] = app[c]
      <3>1. app' = SignedOff(b)
        BY <1>23 DEF SignOutUnserved
      <3> QED
        BY <3>1, SignedOffFacts
    <2> QED
      BY <1>23, <2>1, <2>2 DEF TypeOK, SignOutUnserved
  <1>24. ASSUME NEW b \in Browsers, NEW on \in BOOLEAN, SetLock(b, on)
       PROVE  TypeOK'
    BY <1>24, Values DEF TypeOK, SetLock, Disk
  <1>25. ASSUME NEW b \in Browsers, Relock(b)
       PROVE  TypeOK'
    <2>1. app \in [Browsers -> App] /\ \E l \in BOOLEAN : app' = [app EXCEPT ![b].locked = l]
      BY Zenon, <1>25 DEF TypeOK, Relock
    <2>2. app' \in [Browsers -> App]
      BY <2>1 DEF App
    <2>3. \A c \in Browsers : /\ app'[c].status = app[c].status
                              /\ app'[c].user = app[c].user
                              /\ app'[c].id = app[c].id
      BY <2>1 DEF App
    <2> QED
      BY <1>25, <2>2, <2>3 DEF TypeOK, Relock
  <1>26. ASSUME NEW b \in Browsers, Unlock(b)
       PROVE  TypeOK'
    <2>1. app \in [Browsers -> App] /\ \E l \in BOOLEAN : app' = [app EXCEPT ![b].locked = l]
      BY Zenon, <1>26 DEF TypeOK, Unlock
    <2>2. app' \in [Browsers -> App]
      BY <2>1 DEF App
    <2>3. \A c \in Browsers : /\ app'[c].status = app[c].status
                              /\ app'[c].user = app[c].user
                              /\ app'[c].id = app[c].id
      BY <2>1 DEF App
    <2> QED
      BY <1>26, <2>2, <2>3 DEF TypeOK, Unlock
  <1>27. ASSUME NEW b \in Browsers, AccessExpires(b)
       PROVE  TypeOK'
    BY <1>27, Values DEF TypeOK, AccessExpires, App
  <1>28. ASSUME NEW b \in Browsers, Refresh(b)
       PROVE  TypeOK'
    BY <1>28, Values, RefreshableFacts DEF TypeOK, Refresh, App
  <1>29. ASSUME NEW b \in Browsers, RefreshArrives(b)
       PROVE  TypeOK'
    <2>1. late[b] \in Opt(Tokens)
      BY DEF TypeOK
    <2>2. disk' \in [Browsers -> Disk]
      BY Zenon, <1>29, <2>1, StoreKeepsType DEF TypeOK, RefreshArrives
    <2>3. app' \in [Browsers -> App]
      BY <1>29, <2>1 DEF TypeOK, RefreshArrives, App
    <2>4. \A c \in Browsers : /\ app'[c].status = app[c].status
                              /\ app'[c].user = app[c].user
                              /\ app'[c].id = app[c].id
      BY <1>29 DEF TypeOK, RefreshArrives, App
    <2> QED
      BY <1>29, <2>2, <2>3, <2>4, Values DEF TypeOK, RefreshArrives
  <1>30. ASSUME NEW b \in Browsers, RefreshRefused(b)
       PROVE  TypeOK'
    <2>1. /\ app' \in [Browsers -> App]
          /\ \A c \in Browsers : app'[c].status = "authed" => app'[c] = app[c]
      <3>1. app' = SignedOff(b)
        BY <1>30 DEF RefreshRefused
      <3> QED
        BY <3>1, SignedOffFacts
    <2> QED
      BY <1>30, <2>1 DEF TypeOK, RefreshRefused
  <1>31. ASSUME NEW a \in Accounts, NEW pw \in Passwords, AdminReset(a, pw)
       PROVE  TypeOK'
    <2>1. account' \in [Accounts -> Account] /\ tainted' \subseteq Accounts
      <3>1. account \in [Accounts -> Account] /\ pw \in Opt(Passwords)
        BY Values DEF TypeOK
      <3> QED
        BY ZenonT(120), <1>31, <3>1 DEF TypeOK, AdminReset, Account
    <2>2. session' \in [Tokens -> Session] /\ stale' \subseteq Browsers
      BY <1>31, EvictFacts DEF AdminReset
    <2> QED
      BY <1>31, <2>1, <2>2 DEF TypeOK, AdminReset
  <1>32. CASE UNCHANGED vars
    BY <1>32 DEF vars, TypeOK
  <1> QED
    BY <1>1, <1>2, <1>3, <1>4, <1>5, <1>6, <1>7, <1>8, <1>9, <1>10, <1>11, <1>12,
      <1>13, <1>14, <1>15, <1>16, <1>17, <1>18, <1>19, <1>20, <1>21, <1>22, <1>23,
      <1>24, <1>25, <1>26, <1>27, <1>28, <1>29, <1>30, <1>31, <1>32 DEF Next, Start,
      Login, Settings, Access

\* What a browser holds is a token or nothing.
LEMMA HeldFacts ==
  ASSUME TypeOK
  PROVE  \A c \in Browsers :
           \A t \in {disk[c].rt, disk[c].cookie, app[c].access, late[c]} : t # None => t \in Tokens
  BY DEF TypeOK, Disk, App, Opt

\* A wrapped key and its password change together, or the account is marked.
LEMMA KeyOpensKept ==
  ASSUME TypeOK, KeyOpensWithPassword, [Next]_vars
  PROVE  KeyOpensWithPassword'
  <1>1. ASSUME NEW b \in Browsers, NEW t \in Tokens, Admit(b, t)
       PROVE  KeyOpensWithPassword'
    BY <1>1 DEF TypeOK, Admit, KeyOpensWithPassword, Upgraded, Wrap, Account
  <1>2. ASSUME NEW b \in Browsers, AskSecondFactor(b)
       PROVE  KeyOpensWithPassword'
    BY <1>2 DEF TypeOK, AskSecondFactor, KeyOpensWithPassword, Upgraded, Wrap, Account
  <1>3. ASSUME NEW b \in Browsers, Publish(b)
       PROVE  KeyOpensWithPassword'
    BY <1>3 DEF TypeOK, Publish, KeyOpensWithPassword, Wrap, Account
  <1>4. ASSUME NEW b \in Browsers, RecoverFinish(b)
       PROVE  KeyOpensWithPassword'
    BY <1>4 DEF TypeOK, RecoverFinish, KeyOpensWithPassword, Rewrap, Wrap, Account
  <1>5. ASSUME NEW b \in Browsers, CommitChange(b)
       PROVE  KeyOpensWithPassword'
    BY <1>5 DEF TypeOK, CommitChange, KeyOpensWithPassword, Rewrap, Wrap, Account
  <1>6. ASSUME NEW b \in Browsers, SetupRecovery(b)
       PROVE  KeyOpensWithPassword'
    BY <1>6 DEF TypeOK, SetupRecovery, KeyOpensWithPassword, Wrap, Account
  <1>7. ASSUME NEW b \in Browsers, RemoveRecovery(b)
       PROVE  KeyOpensWithPassword'
    BY <1>7 DEF TypeOK, RemoveRecovery, KeyOpensWithPassword, Wrap, Account
  <1>8. ASSUME NEW b \in Browsers, DeleteAccount(b)
       PROVE  KeyOpensWithPassword'
    BY <1>8 DEF TypeOK, DeleteAccount, KeyOpensWithPassword, Wrap, Account
  <1>9. ASSUME NEW a \in Accounts, NEW pw \in Passwords, AdminReset(a, pw)
       PROVE  KeyOpensWithPassword'
    BY <1>9 DEF TypeOK, AdminReset, KeyOpensWithPassword, Wrap, Account
  <1>10. CASE UNCHANGED <<account, tainted>>
    BY <1>10 DEF KeyOpensWithPassword, Wrap
  <1>11. ASSUME NEW b \in Browsers,
               Boot(b) \/ BootRestores(b) \/ BootNeedsPassword(b) \/
               BootMismatch(b) \/ BootFails(b) \/ SignInFails(b)
       PROVE  UNCHANGED <<account, tainted>>
    BY <1>11 DEF Boot, BootRestores, BootNeedsPassword, BootMismatch, BootFails, SignInFails
  <1>12. ASSUME NEW b \in Browsers,
               AdoptPublished(b) \/ FailChange(b) \/ SignOut(b) \/
               SignOutUnserved(b) \/ Relock(b) \/ Unlock(b)
       PROVE  UNCHANGED <<account, tainted>>
    BY <1>12 DEF AdoptPublished, FailChange, SignOut, SignOutUnserved, Relock, Unlock
  <1>13. ASSUME NEW b \in Browsers,
               AccessExpires(b) \/ Refresh(b) \/ RefreshArrives(b) \/
               RefreshRefused(b)
       PROVE  UNCHANGED <<account, tainted>>
    BY <1>13 DEF AccessExpires, Refresh, RefreshArrives, RefreshRefused
  <1>14. ASSUME NEW b \in Browsers, NEW a \in Accounts, NEW pw \in Passwords,
               SignIn(b, a, pw) \/ RecoverBegin(b, a, pw)
       PROVE  UNCHANGED <<account, tainted>>
    BY <1>14 DEF SignIn, RecoverBegin
  <1>15. ASSUME NEW b \in Browsers, NEW t \in Tokens,
               CompleteSecondFactor(b, t)
       PROVE  UNCHANGED <<account, tainted>>
    BY <1>15 DEF CompleteSecondFactor
  <1>16. ASSUME NEW b \in Browsers, NEW k \in Keys,
               CreateIdentity(b, k)
       PROVE  UNCHANGED <<account, tainted>>
    BY <1>16 DEF CreateIdentity
  <1>17. ASSUME NEW b \in Browsers, NEW pw \in Passwords,
               BeginChange(b, pw)
       PROVE  UNCHANGED <<account, tainted>>
    BY <1>17 DEF BeginChange
  <1>18. ASSUME NEW b \in Browsers, NEW on \in BOOLEAN,
               SetLock(b, on)
       PROVE  UNCHANGED <<account, tainted>>
    BY <1>18 DEF SetLock
  <1>19. CASE UNCHANGED vars
    BY <1>19, <1>10 DEF vars
  <1> QED
    BY <1>1, <1>2, <1>3, <1>4, <1>5, <1>6, <1>7, <1>8, <1>9, <1>10, <1>11,
      <1>12, <1>13, <1>14, <1>15, <1>16, <1>17, <1>18, <1>19 DEF Next,
      Start, Login, Settings, Access

\* A published key stays while its account exists; no account is taken up again,
\* and none loses its key otherwise.
LEMMA AccountsAge ==
  ASSUME TypeOK, Issued, Shapes, [Next]_vars
  PROVE  \A x \in Accounts :
            /\ account[x].pub # None /\ account'[x].pw # None => account'[x].pub = account[x].pub
            /\ account'[x].pw # None => account[x].pw # None
  <1>1. ASSUME NEW b \in Browsers, NEW t \in Tokens, Admit(b, t)
       PROVE  \A x \in Accounts :
            /\ account[x].pub # None /\ account'[x].pw # None => account'[x].pub = account[x].pub
            /\ account'[x].pw # None => account[x].pw # None
    BY <1>1 DEF TypeOK, Admit, Upgraded, Rewrap, Exists, Account
  <1>2. ASSUME NEW b \in Browsers, AskSecondFactor(b)
       PROVE  \A x \in Accounts :
            /\ account[x].pub # None /\ account'[x].pw # None => account'[x].pub = account[x].pub
            /\ account'[x].pw # None => account[x].pw # None
    BY <1>2 DEF TypeOK, AskSecondFactor, Upgraded, Rewrap, Exists, Account
  <1>3. ASSUME NEW b \in Browsers, Publish(b)
       PROVE  \A x \in Accounts :
            /\ account[x].pub # None /\ account'[x].pw # None => account'[x].pub = account[x].pub
            /\ account'[x].pw # None => account[x].pw # None
    BY <1>3 DEF TypeOK, Publish, Upgraded, Rewrap, Exists, Account
  <1>4. ASSUME NEW b \in Browsers, RecoverFinish(b)
       PROVE  \A x \in Accounts :
            /\ account[x].pub # None /\ account'[x].pw # None => account'[x].pub = account[x].pub
            /\ account'[x].pw # None => account[x].pw # None
    BY <1>4 DEF TypeOK, RecoverFinish, Upgraded, Rewrap, Exists, Account
  <1>5. ASSUME NEW b \in Browsers, CommitChange(b)
       PROVE  \A x \in Accounts :
            /\ account[x].pub # None /\ account'[x].pw # None => account'[x].pub = account[x].pub
            /\ account'[x].pw # None => account[x].pw # None
    BY <1>5 DEF TypeOK, CommitChange, Upgraded, Rewrap, Exists, Account
  <1>6. ASSUME NEW b \in Browsers, SetupRecovery(b)
       PROVE  \A x \in Accounts :
            /\ account[x].pub # None /\ account'[x].pw # None => account'[x].pub = account[x].pub
            /\ account'[x].pw # None => account[x].pw # None
    BY <1>6 DEF TypeOK, SetupRecovery, Upgraded, Rewrap, Exists, Account
  <1>7. ASSUME NEW b \in Browsers, RemoveRecovery(b)
       PROVE  \A x \in Accounts :
            /\ account[x].pub # None /\ account'[x].pw # None => account'[x].pub = account[x].pub
            /\ account'[x].pw # None => account[x].pw # None
    BY <1>7 DEF TypeOK, RemoveRecovery, Upgraded, Rewrap, Exists, Account
  <1>8. ASSUME NEW b \in Browsers, DeleteAccount(b)
       PROVE  \A x \in Accounts :
            /\ account[x].pub # None /\ account'[x].pw # None => account'[x].pub = account[x].pub
            /\ account'[x].pw # None => account[x].pw # None
    BY <1>8 DEF TypeOK, DeleteAccount, Upgraded, Rewrap, Exists, Account
  <1>9. ASSUME NEW a \in Accounts, NEW pw \in Passwords, AdminReset(a, pw)
       PROVE  \A x \in Accounts :
            /\ account[x].pub # None /\ account'[x].pw # None => account'[x].pub = account[x].pub
            /\ account'[x].pw # None => account[x].pw # None
    BY <1>9 DEF TypeOK, AdminReset, Upgraded, Rewrap, Exists, Account
  <1>10. CASE account' = account
    BY <1>10 DEF TypeOK
  <1>11. ASSUME NEW b \in Browsers,
               Boot(b) \/ BootRestores(b) \/ BootNeedsPassword(b) \/
               BootMismatch(b) \/ BootFails(b) \/ SignInFails(b)
       PROVE  account' = account
    BY <1>11 DEF Boot, BootRestores, BootNeedsPassword, BootMismatch, BootFails, SignInFails
  <1>12. ASSUME NEW b \in Browsers,
               AdoptPublished(b) \/ FailChange(b) \/ SignOut(b) \/
               SignOutUnserved(b) \/ Relock(b) \/ Unlock(b)
       PROVE  account' = account
    BY <1>12 DEF AdoptPublished, FailChange, SignOut, SignOutUnserved, Relock, Unlock
  <1>13. ASSUME NEW b \in Browsers,
               AccessExpires(b) \/ Refresh(b) \/ RefreshArrives(b) \/
               RefreshRefused(b)
       PROVE  account' = account
    BY <1>13 DEF AccessExpires, Refresh, RefreshArrives, RefreshRefused
  <1>14. ASSUME NEW b \in Browsers, NEW a \in Accounts, NEW pw \in Passwords,
               SignIn(b, a, pw) \/ RecoverBegin(b, a, pw)
       PROVE  account' = account
    BY <1>14 DEF SignIn, RecoverBegin
  <1>15. ASSUME NEW b \in Browsers, NEW t \in Tokens,
               CompleteSecondFactor(b, t)
       PROVE  account' = account
    BY <1>15 DEF CompleteSecondFactor
  <1>16. ASSUME NEW b \in Browsers, NEW k \in Keys,
               CreateIdentity(b, k)
       PROVE  account' = account
    BY <1>16 DEF CreateIdentity
  <1>17. ASSUME NEW b \in Browsers, NEW pw \in Passwords,
               BeginChange(b, pw)
       PROVE  account' = account
    BY <1>17 DEF BeginChange
  <1>18. ASSUME NEW b \in Browsers, NEW on \in BOOLEAN,
               SetLock(b, on)
       PROVE  account' = account
    BY <1>18 DEF SetLock
  <1>19. CASE UNCHANGED vars
    BY <1>19, <1>10 DEF vars
  <1> QED
    BY <1>1, <1>2, <1>3, <1>4, <1>5, <1>6, <1>7, <1>8, <1>9, <1>10, <1>11,
      <1>12, <1>13, <1>14, <1>15, <1>16, <1>17, <1>18, <1>19 DEF Next,
      Start, Login, Settings, Access

\* A token keeps its account, and is live only from its issue on.
LEMMA SessionsAge ==
  ASSUME TypeOK, Shapes, [Next]_vars
  PROVE  \A x \in Tokens :
            /\ session[x].acct # None => session'[x].acct = session[x].acct
            /\ session'[x].live => session[x].live \/ (session[x].acct = None /\ session'[x].acct # None)
  <1>1. ASSUME NEW b \in Browsers, NEW t \in Tokens, Admit(b, t)
       PROVE  \A x \in Tokens :
            /\ session[x].acct # None => session'[x].acct = session[x].acct
            /\ session'[x].live => session[x].live \/ (session[x].acct = None /\ session'[x].acct # None)
    <2>1. task[b].acct # None /\ session[t].acct = None
          /\ session' = [session EXCEPT ![t] = [acct |-> task[b].acct, live |-> TRUE]]
      BY <1>1 DEF Admit, Issue, Shapes
    <2> QED
      BY <2>1 DEF TypeOK, Session
  <1>2. ASSUME NEW b \in Browsers, NEW t \in Tokens, CompleteSecondFactor(b, t)
       PROVE  \A x \in Tokens :
            /\ session[x].acct # None => session'[x].acct = session[x].acct
            /\ session'[x].live => session[x].live \/ (session[x].acct = None /\ session'[x].acct # None)
    <2>1. task[b].acct # None /\ session[t].acct = None
          /\ session' = [session EXCEPT ![t] = [acct |-> task[b].acct, live |-> TRUE]]
      BY <1>2 DEF CompleteSecondFactor, Issue, Shapes
    <2> QED
      BY <2>1 DEF TypeOK, Session
  <1>3. ASSUME NEW b \in Browsers, RecoverFinish(b)
       PROVE  \A x \in Tokens :
            /\ session[x].acct # None => session'[x].acct = session[x].acct
            /\ session'[x].live => session[x].live \/ (session[x].acct = None /\ session'[x].acct # None)
    BY <1>3, EvictFacts DEF RecoverFinish
  <1>4. ASSUME NEW b \in Browsers, CommitChange(b)
       PROVE  \A x \in Tokens :
            /\ session[x].acct # None => session'[x].acct = session[x].acct
            /\ session'[x].live => session[x].live \/ (session[x].acct = None /\ session'[x].acct # None)
    BY <1>4, EvictFacts DEF CommitChange
  <1>5. ASSUME NEW b \in Browsers, DeleteAccount(b)
       PROVE  \A x \in Tokens :
            /\ session[x].acct # None => session'[x].acct = session[x].acct
            /\ session'[x].live => session[x].live \/ (session[x].acct = None /\ session'[x].acct # None)
    BY <1>5, EvictFacts DEF DeleteAccount
  <1>6. ASSUME NEW b \in Browsers, SignOut(b)
       PROVE  \A x \in Tokens :
            /\ session[x].acct # None => session'[x].acct = session[x].acct
            /\ session'[x].live => session[x].live \/ (session[x].acct = None /\ session'[x].acct # None)
    BY <1>6 DEF TypeOK, SignOut, Session
  <1>7. ASSUME NEW a \in Accounts, NEW pw \in Passwords, AdminReset(a, pw)
       PROVE  \A x \in Tokens :
            /\ session[x].acct # None => session'[x].acct = session[x].acct
            /\ session'[x].live => session[x].live \/ (session[x].acct = None /\ session'[x].acct # None)
    BY <1>7, EvictFacts DEF AdminReset
  <1>8. CASE session' = session
    BY <1>8 DEF TypeOK
  <1>9. ASSUME NEW b \in Browsers,
               Boot(b) \/ BootRestores(b) \/ BootNeedsPassword(b) \/
               BootMismatch(b) \/ BootFails(b) \/ AskSecondFactor(b)
       PROVE  session' = session
    BY <1>9 DEF Boot, BootRestores, BootNeedsPassword, BootMismatch, BootFails, AskSecondFactor
  <1>10. ASSUME NEW b \in Browsers,
               SignInFails(b) \/ AdoptPublished(b) \/ Publish(b) \/
               FailChange(b) \/ SetupRecovery(b) \/ RemoveRecovery(b)
       PROVE  session' = session
    BY <1>10 DEF SignInFails, AdoptPublished, Publish, FailChange, SetupRecovery, RemoveRecovery
  <1>11. ASSUME NEW b \in Browsers,
               SignOutUnserved(b) \/ Relock(b) \/ Unlock(b) \/
               AccessExpires(b) \/ Refresh(b) \/ RefreshArrives(b)
       PROVE  session' = session
    BY <1>11 DEF SignOutUnserved, Relock, Unlock, AccessExpires, Refresh, RefreshArrives
  <1>12. ASSUME NEW b \in Browsers,
               RefreshRefused(b)
       PROVE  session' = session
    BY <1>12 DEF RefreshRefused
  <1>13. ASSUME NEW b \in Browsers, NEW a \in Accounts, NEW pw \in Passwords,
               SignIn(b, a, pw) \/ RecoverBegin(b, a, pw)
       PROVE  session' = session
    BY <1>13 DEF SignIn, RecoverBegin
  <1>14. ASSUME NEW b \in Browsers, NEW k \in Keys,
               CreateIdentity(b, k)
       PROVE  session' = session
    BY <1>14 DEF CreateIdentity
  <1>15. ASSUME NEW b \in Browsers, NEW pw \in Passwords,
               BeginChange(b, pw)
       PROVE  session' = session
    BY <1>15 DEF BeginChange
  <1>16. ASSUME NEW b \in Browsers, NEW on \in BOOLEAN,
               SetLock(b, on)
       PROVE  session' = session
    BY <1>16 DEF SetLock
  <1>17. CASE UNCHANGED vars
    BY <1>17, <1>8 DEF vars
  <1> QED
    BY <1>1, <1>2, <1>3, <1>4, <1>5, <1>6, <1>7, <1>8, <1>9, <1>10, <1>11,
      <1>12, <1>13, <1>14, <1>15, <1>16, <1>17 DEF Next, Start, Login,
      Settings, Access

\* Every step stores only tokens that were issued.
LEMMA IssuedKept ==
  ASSUME TypeOK, Issued, Shapes, [Next]_vars
  PROVE  Issued'
  <1>age. \A x \in Tokens :
            /\ session[x].acct # None => session'[x].acct = session[x].acct
            /\ session'[x].live => session[x].live \/ (session[x].acct = None /\ session'[x].acct # None)
    BY SessionsAge
  <1>1. ASSUME NEW b \in Browsers, Boot(b)
       PROVE  Issued'
    BY <1>age, <1>1 DEF TypeOK, Issued, Boot, App, Opt
  <1>2. ASSUME NEW b \in Browsers, BootRestores(b)
       PROVE  Issued'
    <2>1. Presented(b) \in Tokens /\ session[Presented(b)].acct # None
      BY <1>2, RefreshableFacts, NoneIsNothing DEF BootRestores
    <2> QED
      BY <1>age, <1>2, <2>1 DEF TypeOK, Issued, BootRestores, App, Disk, Opt
  <1>3. ASSUME NEW b \in Browsers, BootNeedsPassword(b)
       PROVE  Issued'
    <2>1. Presented(b) \in Tokens /\ session[Presented(b)].acct # None
      BY <1>3, RefreshableFacts, NoneIsNothing DEF BootNeedsPassword
    <2> QED
      BY <1>age, <1>3, <2>1 DEF TypeOK, Issued, BootNeedsPassword, App, Disk, Opt
  <1>4. ASSUME NEW b \in Browsers, BootMismatch(b)
       PROVE  Issued'
    <2>1. Presented(b) \in Tokens /\ session[Presented(b)].acct # None
      BY <1>4, RefreshableFacts, NoneIsNothing DEF BootMismatch
    <2>2. \A c \in Browsers : /\ disk'[c].rt \in {disk[c].rt, None}
                              /\ disk'[c].cookie \in {disk[c].cookie, Presented(b)}
                              /\ app'[c].access = app[c].access
      BY <1>4 DEF TypeOK, BootMismatch, App, Disk
    <2>3. session' = session /\ late' = late
      BY <1>4 DEF BootMismatch
    <2> QED
      BY <2>1, <2>2, <2>3 DEF Issued
  <1>5. ASSUME NEW b \in Browsers, BootFails(b)
       PROVE  Issued'
    BY <1>age, <1>5 DEF TypeOK, Issued, BootFails, App, Opt
  <1>6. ASSUME NEW b \in Browsers, NEW a \in Accounts, NEW pw \in Passwords, RecoverBegin(b, a, pw)
       PROVE  Issued'
    BY <1>age, <1>6 DEF TypeOK, Issued, RecoverBegin, SignedIn, Signed, App, Disk, Opt
  <1>7. ASSUME NEW b \in Browsers, NEW t \in Tokens, Admit(b, t)
       PROVE  Issued'
    <2>1. task[b].step \in {"checked", "pending"} /\ late' = late /\ Issue(b, t)
      BY <1>7 DEF Admit
    <2>2. \A c \in Browsers : /\ disk'[c].rt \in {disk[c].rt, t}
                              /\ disk'[c].cookie \in {disk[c].cookie, t}
                              /\ app'[c].access \in {app[c].access, t}
      BY <2>1, IssueFacts
    <2>3. session'[t].acct # None /\ \A x \in Tokens : x # t => session'[x] = session[x]
      BY <2>1, IssueFacts
    <2> QED
      BY <1>age, <2>1, <2>2, <2>3, HeldFacts DEF Issued
  <1>8. ASSUME NEW b \in Browsers, NEW t \in Tokens, CompleteSecondFactor(b, t)
       PROVE  Issued'
    <2>1. task[b].step \in {"checked", "pending"} /\ late' = late /\ Issue(b, t)
      BY <1>8 DEF CompleteSecondFactor
    <2>2. \A c \in Browsers : /\ disk'[c].rt \in {disk[c].rt, t}
                              /\ disk'[c].cookie \in {disk[c].cookie, t}
                              /\ app'[c].access \in {app[c].access, t}
      BY <2>1, IssueFacts
    <2>3. session'[t].acct # None /\ \A x \in Tokens : x # t => session'[x] = session[x]
      BY <2>1, IssueFacts
    <2> QED
      BY <1>age, <2>1, <2>2, <2>3, HeldFacts DEF Issued
  <1>9. ASSUME NEW b \in Browsers, NEW k \in Keys, CreateIdentity(b, k)
       PROVE  Issued'
    BY <1>age, <1>9 DEF TypeOK, Issued, CreateIdentity, SignedIn, Signed, App, Disk, Opt
  <1>10. ASSUME NEW b \in Browsers, AdoptPublished(b)
       PROVE  Issued'
    BY <1>age, <1>10 DEF TypeOK, Issued, AdoptPublished, SignedIn, Signed, App, Disk, Opt
  <1>11. ASSUME NEW b \in Browsers, Publish(b)
       PROVE  Issued'
    BY <1>age, <1>11 DEF TypeOK, Issued, Publish, SignedIn, Signed, App, Opt, Disk
  <1>12. ASSUME NEW b \in Browsers, DeleteAccount(b)
       PROVE  Issued'
    <2>1. \A c \in Browsers : /\ disk'[c].rt \in {disk[c].rt, None}
                              /\ disk'[c].cookie \in {disk[c].cookie, None}
                              /\ app'[c].access \in {app[c].access, None}
      <3>1. \A c \in Browsers : app'[c].access \in {app[c].access, None}
        <4> DEFINE f == SignedOff(b)
        <4>1. app' = [f EXCEPT ![b].id = NoPair]
          BY <1>12 DEF DeleteAccount
        <4>2. /\ f \in [Browsers -> App] /\ f[b].access = None
              /\ \A c \in Browsers : c # b => f[c] = app[c]
          BY SignedOffFacts
        <4> HIDE DEF f
        <4> QED
          BY <4>1, <4>2 DEF App
      <3> QED
        BY <1>12, <3>1 DEF TypeOK, DeleteAccount, Disk
    <2>2. late' = late
      BY <1>12 DEF DeleteAccount
    <2> QED
      BY <1>age, <2>1, <2>2, HeldFacts DEF Issued
  <1>13. ASSUME NEW b \in Browsers, SignOut(b)
       PROVE  Issued'
    <2>1. \A c \in Browsers : /\ disk'[c].rt \in {disk[c].rt, None}
                              /\ disk'[c].cookie \in {disk[c].cookie, None}
                              /\ app'[c].access \in {app[c].access, None}
      <3>1. \A c \in Browsers : app'[c].access \in {app[c].access, None}
        BY <1>13, SignedOffFacts DEF SignOut
      <3> QED
        BY <1>13, <3>1 DEF TypeOK, SignOut, Disk
    <2>2. late' = late
      BY <1>13 DEF SignOut
    <2> QED
      BY <1>age, <2>1, <2>2, HeldFacts DEF Issued
  <1>14. ASSUME NEW b \in Browsers, SignOutUnserved(b)
       PROVE  Issued'
    <2>1. \A c \in Browsers : /\ disk'[c].rt \in {disk[c].rt, None}
                              /\ disk'[c].cookie \in {disk[c].cookie, None}
                              /\ app'[c].access \in {app[c].access, None}
      <3>1. \A c \in Browsers : app'[c].access \in {app[c].access, None}
        BY <1>14, SignedOffFacts DEF SignOutUnserved
      <3> QED
        BY <1>14, <3>1 DEF TypeOK, SignOutUnserved, Disk
    <2>2. late' = late
      BY <1>14 DEF SignOutUnserved
    <2> QED
      BY <1>age, <2>1, <2>2, HeldFacts DEF Issued
  <1>15. ASSUME NEW b \in Browsers, NEW on \in BOOLEAN, SetLock(b, on)
       PROVE  Issued'
    BY <1>age, <1>15 DEF TypeOK, Issued, SetLock, SignedIn, Signed, App, Disk, Opt
  <1>16. ASSUME NEW b \in Browsers, Relock(b)
       PROVE  Issued'
    BY <1>age, <1>16 DEF TypeOK, Issued, Relock, App, Disk, Opt
  <1>17. ASSUME NEW b \in Browsers, Unlock(b)
       PROVE  Issued'
    BY <1>age, <1>17 DEF TypeOK, Issued, Unlock, App, Disk, Opt
  <1>18. ASSUME NEW b \in Browsers, Refresh(b)
       PROVE  Issued'
    <2>1. Presented(b) \in Tokens /\ session[Presented(b)].acct # None
      BY <1>18, RefreshableFacts, NoneIsNothing DEF Refresh
    <2> QED
      BY <1>age, <1>18, <2>1 DEF TypeOK, Issued, Refresh, App, Disk, Opt
  <1>19. ASSUME NEW b \in Browsers, RefreshArrives(b)
       PROVE  Issued'
    BY <1>age, <1>19 DEF TypeOK, Issued, RefreshArrives, App, Disk, Opt
  <1>20. ASSUME NEW b \in Browsers, RefreshRefused(b)
       PROVE  Issued'
    <2>1. \A c \in Browsers : /\ disk'[c].rt \in {disk[c].rt, None}
                              /\ disk'[c].cookie \in {disk[c].cookie, None}
                              /\ app'[c].access \in {app[c].access, None}
      <3>1. \A c \in Browsers : app'[c].access \in {app[c].access, None}
        BY <1>20, SignedOffFacts DEF RefreshRefused
      <3> QED
        BY <1>20, <3>1 DEF TypeOK, RefreshRefused, Disk
    <2>2. late' = late
      BY <1>20 DEF RefreshRefused
    <2> QED
      BY <1>age, <2>1, <2>2, HeldFacts DEF Issued
  <1>21. CASE UNCHANGED <<disk, app, late>>
    BY <1>21, <1>age, HeldFacts DEF Issued
  <1>22. ASSUME NEW b \in Browsers, NEW a \in Accounts, NEW pw \in Passwords,
               SignIn(b, a, pw)
       PROVE  UNCHANGED <<disk, app, late>>
    BY <1>22 DEF SignIn
  <1>23. ASSUME NEW b \in Browsers,
               AskSecondFactor(b) \/ SignInFails(b) \/ RecoverFinish(b) \/
               CommitChange(b) \/ FailChange(b) \/ SetupRecovery(b)
       PROVE  UNCHANGED <<disk, app, late>>
    BY <1>23 DEF AskSecondFactor, SignInFails, RecoverFinish, CommitChange,
      FailChange, SetupRecovery
  <1>24. ASSUME NEW b \in Browsers,
               RemoveRecovery(b) \/ AccessExpires(b)
       PROVE  UNCHANGED <<disk, app, late>>
    BY <1>24 DEF RemoveRecovery, AccessExpires
  <1>25. ASSUME NEW b \in Browsers, NEW pw \in Passwords,
               BeginChange(b, pw)
       PROVE  UNCHANGED <<disk, app, late>>
    BY <1>25 DEF BeginChange
  <1>26. ASSUME NEW a \in Accounts, NEW pw \in Passwords,
               AdminReset(a, pw)
       PROVE  UNCHANGED <<disk, app, late>>
    BY <1>26 DEF AdminReset
  <1>27. CASE UNCHANGED vars
    BY <1>27, <1>21 DEF vars
  <1> QED
    BY <1>1, <1>2, <1>3, <1>4, <1>5, <1>6, <1>7, <1>8, <1>9, <1>10, <1>11,
      <1>12, <1>13, <1>14, <1>15, <1>16, <1>17, <1>18, <1>19, <1>20, <1>21,
      <1>22, <1>23, <1>24, <1>25, <1>26, <1>27 DEF Next, Start, Login,
      Settings, Access

\* A continuation keeps its account, and the pages that have none get none.
LEMMA ShapesKept ==
  ASSUME TypeOK, Issued, Shapes, [Next]_vars
  PROVE  Shapes'
  <1>1. ASSUME NEW b \in Browsers, Boot(b)
       PROVE  Shapes'
    BY <1>1 DEF TypeOK, Shapes, Boot, App, Task, NoTask, NoChange, Change
  <1>2. ASSUME NEW b \in Browsers, BootRestores(b)
       PROVE  Shapes'
    BY <1>2 DEF TypeOK, Shapes, BootRestores, App, Task, NoTask, NoChange, Change
  <1>3. ASSUME NEW b \in Browsers, BootNeedsPassword(b)
       PROVE  Shapes'
    BY <1>3 DEF TypeOK, Shapes, BootNeedsPassword, App, Task, NoTask, NoChange, Change
  <1>4. ASSUME NEW b \in Browsers, BootMismatch(b)
       PROVE  Shapes'
    BY <1>4 DEF TypeOK, Shapes, BootMismatch, App, Task, NoTask, NoChange, Change
  <1>5. ASSUME NEW b \in Browsers, BootFails(b)
       PROVE  Shapes'
    BY <1>5 DEF TypeOK, Shapes, BootFails, App, Task, NoTask, NoChange, Change
  <1>6. ASSUME NEW b \in Browsers, NEW a \in Accounts, NEW pw \in Passwords, SignIn(b, a, pw)
       PROVE  Shapes'
    BY <1>6, NoneIsNothing DEF TypeOK, Shapes, SignIn, Screen, Task, NoTask
  <1>7. ASSUME NEW b \in Browsers, NEW a \in Accounts, NEW pw \in Passwords, RecoverBegin(b, a, pw)
       PROVE  Shapes'
    BY <1>7, NoneIsNothing DEF TypeOK, Shapes, RecoverBegin, Screen, Task, NoTask
  <1>8. ASSUME NEW b \in Browsers, NEW t \in Tokens, Admit(b, t)
       PROVE  Shapes'
    <2>1. task[b].step \in {"checked", "pending"} /\ change' = change /\ Issue(b, t)
      BY <1>8 DEF Admit
    <2>2. /\ \A c \in Browsers : app'[c].status = app[c].status
          /\ \A c \in Browsers : c # b => task'[c] = task[c]
          /\ task'[b].step = "ensure" /\ task'[b].acct = task[b].acct
      BY <2>1, IssueFacts
    <2> QED
      BY <2>1, <2>2 DEF Shapes
  <1>9. ASSUME NEW b \in Browsers, NEW t \in Tokens, CompleteSecondFactor(b, t)
       PROVE  Shapes'
    <2>1. task[b].step \in {"checked", "pending"} /\ change' = change /\ Issue(b, t)
      BY <1>9 DEF CompleteSecondFactor
    <2>2. /\ \A c \in Browsers : app'[c].status = app[c].status
          /\ \A c \in Browsers : c # b => task'[c] = task[c]
          /\ task'[b].step = "ensure" /\ task'[b].acct = task[b].acct
      BY <2>1, IssueFacts
    <2> QED
      BY <2>1, <2>2 DEF Shapes
  <1>10. ASSUME NEW b \in Browsers, NEW k \in Keys, CreateIdentity(b, k)
       PROVE  Shapes'
    BY <1>10, NoneIsNothing DEF TypeOK, Shapes, CreateIdentity, Screen, Task, NoTask
  <1>11. ASSUME NEW b \in Browsers, AskSecondFactor(b)
       PROVE  Shapes'
    BY <1>11, NoneIsNothing DEF TypeOK, Shapes, AskSecondFactor, Screen, Task, NoTask
  <1>12. ASSUME NEW b \in Browsers, SignInFails(b)
       PROVE  Shapes'
    BY <1>12, NoneIsNothing DEF TypeOK, Shapes, SignInFails, Screen, Task, NoTask
  <1>13. ASSUME NEW b \in Browsers, AdoptPublished(b)
       PROVE  Shapes'
    BY <1>13 DEF TypeOK, Shapes, AdoptPublished, SignedIn, Signed, Task, App, NoTask
  <1>14. ASSUME NEW b \in Browsers, Publish(b)
       PROVE  Shapes'
    BY <1>14 DEF TypeOK, Shapes, Publish, SignedIn, Signed, Task, App, NoTask
  <1>15. ASSUME NEW b \in Browsers, RecoverFinish(b)
       PROVE  Shapes'
    BY <1>15 DEF TypeOK, Shapes, RecoverFinish, Task
  <1>16. ASSUME NEW b \in Browsers, NEW pw \in Passwords, BeginChange(b, pw)
       PROVE  Shapes'
    BY <1>16, CallerFacts, NoneIsNothing DEF TypeOK, Shapes, BeginChange, Change, Opt
  <1>17. ASSUME NEW b \in Browsers, CommitChange(b)
       PROVE  Shapes'
    BY <1>17 DEF TypeOK, Shapes, CommitChange, NoChange, Change
  <1>18. ASSUME NEW b \in Browsers, FailChange(b)
       PROVE  Shapes'
    BY <1>18 DEF TypeOK, Shapes, FailChange, NoChange, Change
  <1>19. ASSUME NEW b \in Browsers, DeleteAccount(b)
       PROVE  Shapes'
    <2>1. \A c \in Browsers : app'[c].status \in {app[c].status, "anon"}
      BY <1>19 DEF TypeOK, DeleteAccount, SignedOff, App
    <2> QED
      BY <1>19, <2>1 DEF Shapes, DeleteAccount
  <1>20. ASSUME NEW b \in Browsers, SignOut(b)
       PROVE  Shapes'
    BY <1>20, SignedOffFacts DEF Shapes, SignOut
  <1>21. ASSUME NEW b \in Browsers, SignOutUnserved(b)
       PROVE  Shapes'
    BY <1>21, SignedOffFacts DEF Shapes, SignOutUnserved
  <1>22. ASSUME NEW b \in Browsers, Relock(b)
       PROVE  Shapes'
    BY <1>22 DEF TypeOK, Shapes, Relock, App
  <1>23. ASSUME NEW b \in Browsers, Unlock(b)
       PROVE  Shapes'
    BY <1>23 DEF TypeOK, Shapes, Unlock, App
  <1>24. ASSUME NEW b \in Browsers, RefreshArrives(b)
       PROVE  Shapes'
    BY <1>24 DEF TypeOK, Shapes, RefreshArrives, App
  <1>25. ASSUME NEW b \in Browsers, RefreshRefused(b)
       PROVE  Shapes'
    BY <1>25, SignedOffFacts DEF Shapes, RefreshRefused
  <1>26. CASE UNCHANGED <<app, task, change>>
    BY <1>26 DEF Shapes
  <1>27. ASSUME NEW b \in Browsers,
               SetupRecovery(b) \/ RemoveRecovery(b) \/ AccessExpires(b) \/
               Refresh(b)
       PROVE  UNCHANGED <<app, task, change>>
    BY <1>27 DEF SetupRecovery, RemoveRecovery, AccessExpires, Refresh
  <1>28. ASSUME NEW b \in Browsers, NEW on \in BOOLEAN,
               SetLock(b, on)
       PROVE  UNCHANGED <<app, task, change>>
    BY <1>28 DEF SetLock
  <1>29. ASSUME NEW a \in Accounts, NEW pw \in Passwords,
               AdminReset(a, pw)
       PROVE  UNCHANGED <<app, task, change>>
    BY <1>29 DEF AdminReset
  <1>30. CASE UNCHANGED vars
    BY <1>30, <1>26 DEF vars
  <1> QED
    BY <1>1, <1>2, <1>3, <1>4, <1>5, <1>6, <1>7, <1>8, <1>9, <1>10, <1>11,
      <1>12, <1>13, <1>14, <1>15, <1>16, <1>17, <1>18, <1>19, <1>20, <1>21,
      <1>22, <1>23, <1>24, <1>25, <1>26, <1>27, <1>28, <1>29, <1>30 DEF
      Next, Start, Login, Settings, Access

\* Only a restored page works for an account without a key.
LEMMA KeylessKept ==
  ASSUME TypeOK, Issued, Shapes, KeylessAreMixed, [Next]_vars
  PROVE  KeylessAreMixed'
  <1>age. /\ \A x \in Accounts :
               /\ account[x].pub # None /\ account'[x].pw # None => account'[x].pub = account[x].pub
               /\ account'[x].pw # None => account[x].pw # None
          /\ \A c \in Browsers : app[c].status = "authed" => app[c].user \in Accounts
    <2>1. \A c \in Browsers : app[c].status = "authed" => app[c].user \in Accounts
      BY DEF TypeOK, App, Opt
    <2> QED
      BY <2>1, AccountsAge
  <1>1. ASSUME NEW b \in Browsers, Boot(b)
       PROVE  KeylessAreMixed'
    <2>1. /\ app'[b].status = "loading" /\ account' = account
          /\ \A c \in Browsers : c # b => app'[c] = app[c] /\ (c \in mixed' <=> c \in mixed)
      BY <1>1 DEF TypeOK, Boot
    <2> QED
      BY <1>age, <2>1 DEF KeylessAreMixed, Exists
  <1>2. ASSUME NEW b \in Browsers, BootRestores(b)
       PROVE  KeylessAreMixed'
    <2> DEFINE a == session[Presented(b)].acct
    <2>1. /\ app'[b].user = a /\ app'[b].id = app[b].id /\ account' = account
          /\ \A c \in Browsers : c # b => app'[c] = app[c] /\ (c \in mixed' <=> c \in mixed)
          /\ account[a].pub \in {None, app[b].id.pub}
          /\ account[a].pub = None => b \in mixed'
      BY <1>2 DEF TypeOK, BootRestores, App
    <2> QED
      BY <1>age, <2>1 DEF KeylessAreMixed, Exists
  <1>3. ASSUME NEW b \in Browsers, BootNeedsPassword(b)
       PROVE  KeylessAreMixed'
    <2>1. \A c \in Browsers : \/ app'[c].status = "anon"
                              \/ /\ app'[c].status = app[c].status /\ app'[c].user = app[c].user
                                 /\ app'[c].id = app[c].id
      BY <1>3 DEF TypeOK, BootNeedsPassword, App
    <2>2. mixed' = mixed /\ account' = account
      BY <1>3 DEF BootNeedsPassword
    <2> QED
      BY <1>age, <2>1, <2>2 DEF KeylessAreMixed, Exists
  <1>4. ASSUME NEW b \in Browsers, BootMismatch(b)
       PROVE  KeylessAreMixed'
    <2>1. \A c \in Browsers : \/ app'[c].status = "anon"
                              \/ /\ app'[c].status = app[c].status /\ app'[c].user = app[c].user
                                 /\ app'[c].id = app[c].id
      BY <1>4 DEF TypeOK, BootMismatch, App
    <2>2. mixed' = mixed /\ account' = account
      BY <1>4 DEF BootMismatch
    <2> QED
      BY <1>age, <2>1, <2>2 DEF KeylessAreMixed, Exists
  <1>5. ASSUME NEW b \in Browsers, BootFails(b)
       PROVE  KeylessAreMixed'
    <2>1. \A c \in Browsers : \/ app'[c].status = "anon"
                              \/ /\ app'[c].status = app[c].status /\ app'[c].user = app[c].user
                                 /\ app'[c].id = app[c].id
      BY <1>5 DEF TypeOK, BootFails, App
    <2>2. mixed' = mixed /\ account' = account
      BY <1>5 DEF BootFails
    <2> QED
      BY <1>age, <2>1, <2>2 DEF KeylessAreMixed, Exists
  <1>6. ASSUME NEW b \in Browsers, NEW t \in Tokens, Admit(b, t)
       PROVE  KeylessAreMixed'
    <2>1. task[b].step \in {"checked", "pending"} /\ mixed' = mixed /\ Issue(b, t)
      BY <1>6 DEF Admit
    <2>2. \A c \in Browsers : /\ app'[c].status = app[c].status
                              /\ app'[c].user = app[c].user
                              /\ app'[c].id = app[c].id
      BY <2>1, IssueFacts
    <2>3. \A x \in Accounts : account'[x].pub \in {account[x].pub, None}
      BY <1>6 DEF TypeOK, Admit, Upgraded, Account
    <2> QED
      BY <1>age, <2>1, <2>2, <2>3 DEF KeylessAreMixed, Exists
  <1>7. ASSUME NEW b \in Browsers, NEW t \in Tokens, CompleteSecondFactor(b, t)
       PROVE  KeylessAreMixed'
    <2>1. task[b].step \in {"checked", "pending"} /\ mixed' = mixed /\ Issue(b, t)
      BY <1>7 DEF CompleteSecondFactor
    <2>2. \A c \in Browsers : /\ app'[c].status = app[c].status
                              /\ app'[c].user = app[c].user
                              /\ app'[c].id = app[c].id
      BY <2>1, IssueFacts
    <2>3. \A x \in Accounts : account'[x].pub \in {account[x].pub, None}
      BY <1>7 DEF TypeOK, CompleteSecondFactor, Upgraded, Account
    <2> QED
      BY <1>age, <2>1, <2>2, <2>3 DEF KeylessAreMixed, Exists
  <1>8. ASSUME NEW b \in Browsers, AskSecondFactor(b)
       PROVE  KeylessAreMixed'
    <2>1. app' = app /\ mixed' = mixed
      BY <1>8 DEF AskSecondFactor
    <2>2. \A x \in Accounts : account'[x].pub \in {account[x].pub, None}
      BY <1>8 DEF TypeOK, AskSecondFactor, Upgraded, Rewrap, Account
    <2> QED
      BY <1>age, <2>1, <2>2 DEF KeylessAreMixed, Exists
  <1>9. ASSUME NEW b \in Browsers, AdoptPublished(b)
       PROVE  KeylessAreMixed'
    <2> DEFINE id == [pub |-> account[Caller(b)].pub, priv |-> account[Caller(b)].blob.key]
    <2>1. /\ app' = [app EXCEPT ![b].status = "authed", ![b].user = task[b].acct, ![b].id = id]
          /\ mixed' = IF Caller(b) = task[b].acct THEN mixed \ {b} ELSE mixed \cup {b}
          /\ account' = account /\ account[Caller(b)].pub # None
          /\ id.pub = account[Caller(b)].pub
      BY <1>9 DEF AdoptPublished, SignedIn, Signed
    <2> HIDE DEF id
    <2>2. /\ app'[b].user = task[b].acct /\ app'[b].id = id
          /\ \A c \in Browsers : c # b => app'[c] = app[c] /\ (c \in mixed' <=> c \in mixed)
      BY <2>1 DEF TypeOK, App
    <2> QED
      BY ZenonT(120), <1>age, <2>1, <2>2 DEF KeylessAreMixed, Exists
  <1>10. ASSUME NEW b \in Browsers, Publish(b)
       PROVE  KeylessAreMixed'
    <2> DEFINE id == [pub |-> task[b].key, priv |-> task[b].key]
    <2>1. /\ app' = [app EXCEPT ![b].status = "authed", ![b].user = task[b].acct, ![b].id = id]
          /\ mixed' = IF Caller(b) = task[b].acct THEN mixed \ {b} ELSE mixed \cup {b}
          /\ account[Caller(b)].pub = None /\ task[b].key # None
          /\ id.pub = task[b].key /\ Caller(b) \in Accounts /\ Exists(Caller(b))
      BY <1>10, CallerFacts DEF Publish, SignedIn, Signed, Shapes
    <2>2. /\ account'[Caller(b)].pub = task[b].key
          /\ \A x \in Accounts : x # Caller(b) => account'[x] = account[x]
      BY <1>10, <2>1 DEF TypeOK, Publish, Account
    <2> HIDE DEF id
    <2>3. /\ app'[b].user = task[b].acct /\ app'[b].id = id
          /\ \A c \in Browsers : c # b => app'[c] = app[c] /\ (c \in mixed' <=> c \in mixed)
      BY <2>1 DEF TypeOK, App
    <2> QED
      BY <1>age, <2>1, <2>2, <2>3, ZenonT(120) DEF KeylessAreMixed, Exists
  <1>11. ASSUME NEW b \in Browsers, RecoverFinish(b)
       PROVE  KeylessAreMixed'
    <2>1. app' = app /\ mixed' = mixed
      BY <1>11 DEF RecoverFinish
    <2>2. \A x \in Accounts : account'[x].pub \in {account[x].pub, None}
      BY <1>11 DEF TypeOK, RecoverFinish, Upgraded, Rewrap, Account
    <2> QED
      BY <1>age, <2>1, <2>2 DEF KeylessAreMixed, Exists
  <1>12. ASSUME NEW b \in Browsers, CommitChange(b)
       PROVE  KeylessAreMixed'
    <2>1. app' = app /\ mixed' = mixed
      BY <1>12 DEF CommitChange
    <2>2. \A x \in Accounts : account'[x].pub \in {account[x].pub, None}
      BY <1>12 DEF TypeOK, CommitChange, Upgraded, Rewrap, Account
    <2> QED
      BY <1>age, <2>1, <2>2 DEF KeylessAreMixed, Exists
  <1>13. ASSUME NEW b \in Browsers, SetupRecovery(b)
       PROVE  KeylessAreMixed'
    <2>1. app' = app /\ mixed' = mixed
      BY <1>13 DEF SetupRecovery
    <2>2. \A x \in Accounts : account'[x].pub \in {account[x].pub, None}
      BY <1>13 DEF TypeOK, SetupRecovery, Upgraded, Rewrap, Account
    <2> QED
      BY <1>age, <2>1, <2>2 DEF KeylessAreMixed, Exists
  <1>14. ASSUME NEW b \in Browsers, RemoveRecovery(b)
       PROVE  KeylessAreMixed'
    <2>1. app' = app /\ mixed' = mixed
      BY <1>14 DEF RemoveRecovery
    <2>2. \A x \in Accounts : account'[x].pub \in {account[x].pub, None}
      BY <1>14 DEF TypeOK, RemoveRecovery, Upgraded, Rewrap, Account
    <2> QED
      BY <1>age, <2>1, <2>2 DEF KeylessAreMixed, Exists
  <1>15. ASSUME NEW b \in Browsers, DeleteAccount(b)
       PROVE  KeylessAreMixed'
    <2>1. \A c \in Browsers : \/ app'[c].status = "anon"
                              \/ /\ app'[c].status = app[c].status /\ app'[c].user = app[c].user
                                 /\ app'[c].id = app[c].id
      <3> DEFINE f == SignedOff(b)
      <3>1. app' = [f EXCEPT ![b].id = NoPair]
        BY <1>15 DEF DeleteAccount
      <3>2. /\ f \in [Browsers -> App] /\ f[b].status = "anon"
            /\ \A c \in Browsers : c # b => f[c] = app[c]
        BY SignedOffFacts
      <3> HIDE DEF f
      <3> QED
        BY <3>1, <3>2 DEF App
    <2>2. mixed' = mixed /\ \A x \in Accounts : account'[x].pub \in {account[x].pub, None}
      BY <1>15 DEF TypeOK, DeleteAccount, Account
    <2> QED
      BY <1>age, <2>1, <2>2 DEF KeylessAreMixed, Exists
  <1>16. ASSUME NEW b \in Browsers, SignOut(b)
       PROVE  KeylessAreMixed'
    <2>1. \A c \in Browsers : \/ app'[c].status = "anon"
                              \/ /\ app'[c].status = app[c].status /\ app'[c].user = app[c].user
                                 /\ app'[c].id = app[c].id
      <3>1. app' = SignedOff(b)
        BY <1>16 DEF SignOut
      <3> QED
        BY <3>1, SignedOffFacts
    <2>2. mixed' = mixed /\ account' = account
      BY <1>16 DEF SignOut
    <2> QED
      BY <1>age, <2>1, <2>2 DEF KeylessAreMixed, Exists
  <1>17. ASSUME NEW b \in Browsers, SignOutUnserved(b)
       PROVE  KeylessAreMixed'
    <2>1. \A c \in Browsers : \/ app'[c].status = "anon"
                              \/ /\ app'[c].status = app[c].status /\ app'[c].user = app[c].user
                                 /\ app'[c].id = app[c].id
      <3>1. app' = SignedOff(b)
        BY <1>17 DEF SignOutUnserved
      <3> QED
        BY <3>1, SignedOffFacts
    <2>2. mixed' = mixed /\ account' = account
      BY <1>17 DEF SignOutUnserved
    <2> QED
      BY <1>age, <2>1, <2>2 DEF KeylessAreMixed, Exists
  <1>18. ASSUME NEW b \in Browsers, Relock(b)
       PROVE  KeylessAreMixed'
    <2>1. \A c \in Browsers : \/ app'[c].status = "anon"
                              \/ /\ app'[c].status = app[c].status /\ app'[c].user = app[c].user
                                 /\ app'[c].id = app[c].id
      BY <1>18 DEF TypeOK, Relock, App
    <2>2. mixed' = mixed /\ account' = account
      BY <1>18 DEF Relock
    <2> QED
      BY <1>age, <2>1, <2>2 DEF KeylessAreMixed, Exists
  <1>19. ASSUME NEW b \in Browsers, Unlock(b)
       PROVE  KeylessAreMixed'
    <2>1. \A c \in Browsers : \/ app'[c].status = "anon"
                              \/ /\ app'[c].status = app[c].status /\ app'[c].user = app[c].user
                                 /\ app'[c].id = app[c].id
      BY <1>19 DEF TypeOK, Unlock, App
    <2>2. mixed' = mixed /\ account' = account
      BY <1>19 DEF Unlock
    <2> QED
      BY <1>age, <2>1, <2>2 DEF KeylessAreMixed, Exists
  <1>20. ASSUME NEW b \in Browsers, RefreshArrives(b)
       PROVE  KeylessAreMixed'
    <2>1. \A c \in Browsers : \/ app'[c].status = "anon"
                              \/ /\ app'[c].status = app[c].status /\ app'[c].user = app[c].user
                                 /\ app'[c].id = app[c].id
      BY <1>20 DEF TypeOK, RefreshArrives, App
    <2>2. mixed' = mixed /\ account' = account
      BY <1>20 DEF RefreshArrives
    <2> QED
      BY <1>age, <2>1, <2>2 DEF KeylessAreMixed, Exists
  <1>21. ASSUME NEW b \in Browsers, RefreshRefused(b)
       PROVE  KeylessAreMixed'
    <2>1. \A c \in Browsers : \/ app'[c].status = "anon"
                              \/ /\ app'[c].status = app[c].status /\ app'[c].user = app[c].user
                                 /\ app'[c].id = app[c].id
      <3>1. app' = SignedOff(b)
        BY <1>21 DEF RefreshRefused
      <3> QED
        BY <3>1, SignedOffFacts
    <2>2. mixed' = mixed /\ account' = account
      BY <1>21 DEF RefreshRefused
    <2> QED
      BY <1>age, <2>1, <2>2 DEF KeylessAreMixed, Exists
  <1>22. ASSUME NEW a \in Accounts, NEW pw \in Passwords, AdminReset(a, pw)
       PROVE  KeylessAreMixed'
    <2>1. app' = app /\ mixed' = mixed
      BY <1>22 DEF AdminReset
    <2>2. \A x \in Accounts : account'[x].pub \in {account[x].pub, None}
      BY <1>22 DEF TypeOK, AdminReset, Upgraded, Rewrap, Account
    <2> QED
      BY <1>age, <2>1, <2>2 DEF KeylessAreMixed, Exists
  <1>23. CASE UNCHANGED <<account, app, mixed>>
    BY <1>23, <1>age DEF KeylessAreMixed, Exists
  <1>24. ASSUME NEW b \in Browsers, NEW a \in Accounts, NEW pw \in Passwords,
               SignIn(b, a, pw) \/ RecoverBegin(b, a, pw)
       PROVE  UNCHANGED <<account, app, mixed>>
    BY <1>24 DEF SignIn, RecoverBegin
  <1>25. ASSUME NEW b \in Browsers, NEW k \in Keys,
               CreateIdentity(b, k)
       PROVE  UNCHANGED <<account, app, mixed>>
    BY <1>25 DEF CreateIdentity
  <1>26. ASSUME NEW b \in Browsers,
               SignInFails(b) \/ FailChange(b) \/ AccessExpires(b) \/
               Refresh(b)
       PROVE  UNCHANGED <<account, app, mixed>>
    BY <1>26 DEF SignInFails, FailChange, AccessExpires, Refresh
  <1>27. ASSUME NEW b \in Browsers, NEW pw \in Passwords,
               BeginChange(b, pw)
       PROVE  UNCHANGED <<account, app, mixed>>
    BY <1>27 DEF BeginChange
  <1>28. ASSUME NEW b \in Browsers, NEW on \in BOOLEAN,
               SetLock(b, on)
       PROVE  UNCHANGED <<account, app, mixed>>
    BY <1>28 DEF SetLock
  <1>29. CASE UNCHANGED vars
    BY <1>29, <1>23 DEF vars
  <1> QED
    BY <1>1, <1>2, <1>3, <1>4, <1>5, <1>6, <1>7, <1>8, <1>9, <1>10, <1>11,
      <1>12, <1>13, <1>14, <1>15, <1>16, <1>17, <1>18, <1>19, <1>20, <1>21,
      <1>22, <1>23, <1>24, <1>25, <1>26, <1>27, <1>28, <1>29 DEF Next,
      Start, Login, Settings, Access

\* A key is published for an account only while those who work for it are
\* restored pages or the publisher.
LEMMA SignedInKeyKept ==
  ASSUME TypeOK, Issued, Shapes, KeylessAreMixed, SignedInKeyIsTheAccounts, [Next]_vars
  PROVE  SignedInKeyIsTheAccounts'
  <1>age. /\ \A x \in Accounts :
               /\ account[x].pub # None /\ account'[x].pw # None => account'[x].pub = account[x].pub
               /\ account'[x].pw # None => account[x].pw # None
          /\ \A c \in Browsers : app[c].status = "authed" => app[c].user \in Accounts
    <2>1. \A c \in Browsers : app[c].status = "authed" => app[c].user \in Accounts
      BY DEF TypeOK, App, Opt
    <2> QED
      BY <2>1, AccountsAge
  <1>1. ASSUME NEW b \in Browsers, Boot(b)
       PROVE  SignedInKeyIsTheAccounts'
    <2>1. /\ app'[b].status = "loading" /\ account' = account
          /\ \A c \in Browsers : c # b => app'[c] = app[c] /\ (c \in mixed' <=> c \in mixed)
      BY <1>1 DEF TypeOK, Boot
    <2> QED
      BY <1>age, <2>1 DEF SignedInKeyIsTheAccounts
  <1>2. ASSUME NEW b \in Browsers, BootRestores(b)
       PROVE  SignedInKeyIsTheAccounts'
    <2> DEFINE a == session[Presented(b)].acct
    <2>1. /\ app'[b].user = a /\ app'[b].id = app[b].id /\ account' = account
          /\ \A c \in Browsers : c # b => app'[c] = app[c] /\ (c \in mixed' <=> c \in mixed)
          /\ account[a].pub \in {None, app[b].id.pub}
          /\ account[a].pub = None => b \in mixed'
      BY <1>2 DEF TypeOK, BootRestores, App
    <2> QED
      BY <1>age, <2>1 DEF SignedInKeyIsTheAccounts
  <1>3. ASSUME NEW b \in Browsers, BootNeedsPassword(b)
       PROVE  SignedInKeyIsTheAccounts'
    <2>1. \A c \in Browsers : \/ app'[c].status = "anon"
                              \/ /\ app'[c].status = app[c].status /\ app'[c].user = app[c].user
                                 /\ app'[c].id = app[c].id
      BY <1>3 DEF TypeOK, BootNeedsPassword, App
    <2>2. mixed' = mixed /\ account' = account
      BY <1>3 DEF BootNeedsPassword
    <2> QED
      BY <1>age, <2>1, <2>2 DEF SignedInKeyIsTheAccounts
  <1>4. ASSUME NEW b \in Browsers, BootMismatch(b)
       PROVE  SignedInKeyIsTheAccounts'
    <2>1. \A c \in Browsers : \/ app'[c].status = "anon"
                              \/ /\ app'[c].status = app[c].status /\ app'[c].user = app[c].user
                                 /\ app'[c].id = app[c].id
      BY <1>4 DEF TypeOK, BootMismatch, App
    <2>2. mixed' = mixed /\ account' = account
      BY <1>4 DEF BootMismatch
    <2> QED
      BY <1>age, <2>1, <2>2 DEF SignedInKeyIsTheAccounts
  <1>5. ASSUME NEW b \in Browsers, BootFails(b)
       PROVE  SignedInKeyIsTheAccounts'
    <2>1. \A c \in Browsers : \/ app'[c].status = "anon"
                              \/ /\ app'[c].status = app[c].status /\ app'[c].user = app[c].user
                                 /\ app'[c].id = app[c].id
      BY <1>5 DEF TypeOK, BootFails, App
    <2>2. mixed' = mixed /\ account' = account
      BY <1>5 DEF BootFails
    <2> QED
      BY <1>age, <2>1, <2>2 DEF SignedInKeyIsTheAccounts
  <1>6. ASSUME NEW b \in Browsers, NEW t \in Tokens, Admit(b, t)
       PROVE  SignedInKeyIsTheAccounts'
    <2>1. task[b].step \in {"checked", "pending"} /\ mixed' = mixed /\ Issue(b, t)
      BY <1>6 DEF Admit
    <2>2. \A c \in Browsers : /\ app'[c].status = app[c].status
                              /\ app'[c].user = app[c].user
                              /\ app'[c].id = app[c].id
      BY <2>1, IssueFacts
    <2>3. \A x \in Accounts : account'[x].pub \in {account[x].pub, None}
      BY <1>6 DEF TypeOK, Admit, Upgraded, Account
    <2> QED
      BY <1>age, <2>1, <2>2, <2>3 DEF SignedInKeyIsTheAccounts
  <1>7. ASSUME NEW b \in Browsers, NEW t \in Tokens, CompleteSecondFactor(b, t)
       PROVE  SignedInKeyIsTheAccounts'
    <2>1. task[b].step \in {"checked", "pending"} /\ mixed' = mixed /\ Issue(b, t)
      BY <1>7 DEF CompleteSecondFactor
    <2>2. \A c \in Browsers : /\ app'[c].status = app[c].status
                              /\ app'[c].user = app[c].user
                              /\ app'[c].id = app[c].id
      BY <2>1, IssueFacts
    <2>3. \A x \in Accounts : account'[x].pub \in {account[x].pub, None}
      BY <1>7 DEF TypeOK, CompleteSecondFactor, Upgraded, Account
    <2> QED
      BY <1>age, <2>1, <2>2, <2>3 DEF SignedInKeyIsTheAccounts
  <1>8. ASSUME NEW b \in Browsers, AskSecondFactor(b)
       PROVE  SignedInKeyIsTheAccounts'
    <2>1. app' = app /\ mixed' = mixed
      BY <1>8 DEF AskSecondFactor
    <2>2. \A x \in Accounts : account'[x].pub \in {account[x].pub, None}
      BY <1>8 DEF TypeOK, AskSecondFactor, Upgraded, Rewrap, Account
    <2> QED
      BY <1>age, <2>1, <2>2 DEF SignedInKeyIsTheAccounts
  <1>9. ASSUME NEW b \in Browsers, AdoptPublished(b)
       PROVE  SignedInKeyIsTheAccounts'
    <2> DEFINE id == [pub |-> account[Caller(b)].pub, priv |-> account[Caller(b)].blob.key]
    <2>1. /\ app' = [app EXCEPT ![b].status = "authed", ![b].user = task[b].acct, ![b].id = id]
          /\ mixed' = IF Caller(b) = task[b].acct THEN mixed \ {b} ELSE mixed \cup {b}
          /\ account' = account /\ account[Caller(b)].pub # None
          /\ id.pub = account[Caller(b)].pub
      BY <1>9 DEF AdoptPublished, SignedIn, Signed
    <2> HIDE DEF id
    <2>2. /\ app'[b].user = task[b].acct /\ app'[b].id = id
          /\ \A c \in Browsers : c # b => app'[c] = app[c] /\ (c \in mixed' <=> c \in mixed)
      BY <2>1 DEF TypeOK, App
    <2> QED
      BY ZenonT(120), <1>age, <2>1, <2>2 DEF SignedInKeyIsTheAccounts
  <1>10. ASSUME NEW b \in Browsers, Publish(b)
       PROVE  SignedInKeyIsTheAccounts'
    <2> DEFINE id == [pub |-> task[b].key, priv |-> task[b].key]
    <2>1. /\ app' = [app EXCEPT ![b].status = "authed", ![b].user = task[b].acct, ![b].id = id]
          /\ mixed' = IF Caller(b) = task[b].acct THEN mixed \ {b} ELSE mixed \cup {b}
          /\ account[Caller(b)].pub = None /\ task[b].key # None
          /\ id.pub = task[b].key /\ Caller(b) \in Accounts /\ Exists(Caller(b))
      BY <1>10, CallerFacts DEF Publish, SignedIn, Signed, Shapes
    <2>2. /\ account'[Caller(b)].pub = task[b].key
          /\ \A x \in Accounts : x # Caller(b) => account'[x] = account[x]
      BY <1>10, <2>1 DEF TypeOK, Publish, Account
    <2> HIDE DEF id
    <2>3. /\ app'[b].user = task[b].acct /\ app'[b].id = id
          /\ \A c \in Browsers : c # b => app'[c] = app[c] /\ (c \in mixed' <=> c \in mixed)
      BY <2>1 DEF TypeOK, App
    <2>4. app'[b].user = Caller(b) \/ b \in mixed'
      BY <2>1, <2>3
    <2>5. \A c \in Browsers : c # b /\ app[c].status = "authed" /\ app[c].user = Caller(b) => c \in mixed
      BY <2>1 DEF KeylessAreMixed
    <2>6. ASSUME NEW c \in Browsers, app'[c].status = "authed", c \notin mixed',
                 account'[app'[c].user].pub # None
          PROVE  app'[c].id.pub = account'[app'[c].user].pub
      <3>1. CASE c = b
        BY <2>1, <2>2, <2>3, <2>4, <2>6, <3>1
      <3>2. CASE c # b
        <4>1. app'[c] = app[c] /\ c \notin mixed /\ app[c].user \in Accounts
          BY <1>age, <2>3, <2>6, <3>2
        <4>2. account'[app[c].user] = account[app[c].user]
          BY <2>2, <2>5, <2>6, <3>2, <4>1
        <4> QED
          BY <2>6, <4>1, <4>2 DEF SignedInKeyIsTheAccounts
      <3> QED
        BY <3>1, <3>2
    <2> QED
      BY <2>6 DEF SignedInKeyIsTheAccounts
  <1>11. ASSUME NEW b \in Browsers, RecoverFinish(b)
       PROVE  SignedInKeyIsTheAccounts'
    <2>1. app' = app /\ mixed' = mixed
      BY <1>11 DEF RecoverFinish
    <2>2. \A x \in Accounts : account'[x].pub \in {account[x].pub, None}
      BY <1>11 DEF TypeOK, RecoverFinish, Upgraded, Rewrap, Account
    <2> QED
      BY <1>age, <2>1, <2>2 DEF SignedInKeyIsTheAccounts
  <1>12. ASSUME NEW b \in Browsers, CommitChange(b)
       PROVE  SignedInKeyIsTheAccounts'
    <2>1. app' = app /\ mixed' = mixed
      BY <1>12 DEF CommitChange
    <2>2. \A x \in Accounts : account'[x].pub \in {account[x].pub, None}
      BY <1>12 DEF TypeOK, CommitChange, Upgraded, Rewrap, Account
    <2> QED
      BY <1>age, <2>1, <2>2 DEF SignedInKeyIsTheAccounts
  <1>13. ASSUME NEW b \in Browsers, SetupRecovery(b)
       PROVE  SignedInKeyIsTheAccounts'
    <2>1. app' = app /\ mixed' = mixed
      BY <1>13 DEF SetupRecovery
    <2>2. \A x \in Accounts : account'[x].pub \in {account[x].pub, None}
      BY <1>13 DEF TypeOK, SetupRecovery, Upgraded, Rewrap, Account
    <2> QED
      BY <1>age, <2>1, <2>2 DEF SignedInKeyIsTheAccounts
  <1>14. ASSUME NEW b \in Browsers, RemoveRecovery(b)
       PROVE  SignedInKeyIsTheAccounts'
    <2>1. app' = app /\ mixed' = mixed
      BY <1>14 DEF RemoveRecovery
    <2>2. \A x \in Accounts : account'[x].pub \in {account[x].pub, None}
      BY <1>14 DEF TypeOK, RemoveRecovery, Upgraded, Rewrap, Account
    <2> QED
      BY <1>age, <2>1, <2>2 DEF SignedInKeyIsTheAccounts
  <1>15. ASSUME NEW b \in Browsers, DeleteAccount(b)
       PROVE  SignedInKeyIsTheAccounts'
    <2>1. \A c \in Browsers : \/ app'[c].status = "anon"
                              \/ /\ app'[c].status = app[c].status /\ app'[c].user = app[c].user
                                 /\ app'[c].id = app[c].id
      <3> DEFINE f == SignedOff(b)
      <3>1. app' = [f EXCEPT ![b].id = NoPair]
        BY <1>15 DEF DeleteAccount
      <3>2. /\ f \in [Browsers -> App] /\ f[b].status = "anon"
            /\ \A c \in Browsers : c # b => f[c] = app[c]
        BY SignedOffFacts
      <3> HIDE DEF f
      <3> QED
        BY <3>1, <3>2 DEF App
    <2>2. mixed' = mixed /\ \A x \in Accounts : account'[x].pub \in {account[x].pub, None}
      BY <1>15 DEF TypeOK, DeleteAccount, Account
    <2> QED
      BY <1>age, <2>1, <2>2 DEF SignedInKeyIsTheAccounts
  <1>16. ASSUME NEW b \in Browsers, SignOut(b)
       PROVE  SignedInKeyIsTheAccounts'
    <2>1. \A c \in Browsers : \/ app'[c].status = "anon"
                              \/ /\ app'[c].status = app[c].status /\ app'[c].user = app[c].user
                                 /\ app'[c].id = app[c].id
      <3>1. app' = SignedOff(b)
        BY <1>16 DEF SignOut
      <3> QED
        BY <3>1, SignedOffFacts
    <2>2. mixed' = mixed /\ account' = account
      BY <1>16 DEF SignOut
    <2> QED
      BY <1>age, <2>1, <2>2 DEF SignedInKeyIsTheAccounts
  <1>17. ASSUME NEW b \in Browsers, SignOutUnserved(b)
       PROVE  SignedInKeyIsTheAccounts'
    <2>1. \A c \in Browsers : \/ app'[c].status = "anon"
                              \/ /\ app'[c].status = app[c].status /\ app'[c].user = app[c].user
                                 /\ app'[c].id = app[c].id
      <3>1. app' = SignedOff(b)
        BY <1>17 DEF SignOutUnserved
      <3> QED
        BY <3>1, SignedOffFacts
    <2>2. mixed' = mixed /\ account' = account
      BY <1>17 DEF SignOutUnserved
    <2> QED
      BY <1>age, <2>1, <2>2 DEF SignedInKeyIsTheAccounts
  <1>18. ASSUME NEW b \in Browsers, Relock(b)
       PROVE  SignedInKeyIsTheAccounts'
    <2>1. \A c \in Browsers : \/ app'[c].status = "anon"
                              \/ /\ app'[c].status = app[c].status /\ app'[c].user = app[c].user
                                 /\ app'[c].id = app[c].id
      BY <1>18 DEF TypeOK, Relock, App
    <2>2. mixed' = mixed /\ account' = account
      BY <1>18 DEF Relock
    <2> QED
      BY <1>age, <2>1, <2>2 DEF SignedInKeyIsTheAccounts
  <1>19. ASSUME NEW b \in Browsers, Unlock(b)
       PROVE  SignedInKeyIsTheAccounts'
    <2>1. \A c \in Browsers : \/ app'[c].status = "anon"
                              \/ /\ app'[c].status = app[c].status /\ app'[c].user = app[c].user
                                 /\ app'[c].id = app[c].id
      BY <1>19 DEF TypeOK, Unlock, App
    <2>2. mixed' = mixed /\ account' = account
      BY <1>19 DEF Unlock
    <2> QED
      BY <1>age, <2>1, <2>2 DEF SignedInKeyIsTheAccounts
  <1>20. ASSUME NEW b \in Browsers, RefreshArrives(b)
       PROVE  SignedInKeyIsTheAccounts'
    <2>1. \A c \in Browsers : \/ app'[c].status = "anon"
                              \/ /\ app'[c].status = app[c].status /\ app'[c].user = app[c].user
                                 /\ app'[c].id = app[c].id
      BY <1>20 DEF TypeOK, RefreshArrives, App
    <2>2. mixed' = mixed /\ account' = account
      BY <1>20 DEF RefreshArrives
    <2> QED
      BY <1>age, <2>1, <2>2 DEF SignedInKeyIsTheAccounts
  <1>21. ASSUME NEW b \in Browsers, RefreshRefused(b)
       PROVE  SignedInKeyIsTheAccounts'
    <2>1. \A c \in Browsers : \/ app'[c].status = "anon"
                              \/ /\ app'[c].status = app[c].status /\ app'[c].user = app[c].user
                                 /\ app'[c].id = app[c].id
      <3>1. app' = SignedOff(b)
        BY <1>21 DEF RefreshRefused
      <3> QED
        BY <3>1, SignedOffFacts
    <2>2. mixed' = mixed /\ account' = account
      BY <1>21 DEF RefreshRefused
    <2> QED
      BY <1>age, <2>1, <2>2 DEF SignedInKeyIsTheAccounts
  <1>22. ASSUME NEW a \in Accounts, NEW pw \in Passwords, AdminReset(a, pw)
       PROVE  SignedInKeyIsTheAccounts'
    <2>1. app' = app /\ mixed' = mixed
      BY <1>22 DEF AdminReset
    <2>2. \A x \in Accounts : account'[x].pub \in {account[x].pub, None}
      BY <1>22 DEF TypeOK, AdminReset, Upgraded, Rewrap, Account
    <2> QED
      BY <1>age, <2>1, <2>2 DEF SignedInKeyIsTheAccounts
  <1>23. CASE UNCHANGED <<account, app, mixed>>
    BY <1>23, <1>age DEF SignedInKeyIsTheAccounts
  <1>24. ASSUME NEW b \in Browsers, NEW a \in Accounts, NEW pw \in Passwords,
               SignIn(b, a, pw) \/ RecoverBegin(b, a, pw)
       PROVE  UNCHANGED <<account, app, mixed>>
    BY <1>24 DEF SignIn, RecoverBegin
  <1>25. ASSUME NEW b \in Browsers, NEW k \in Keys,
               CreateIdentity(b, k)
       PROVE  UNCHANGED <<account, app, mixed>>
    BY <1>25 DEF CreateIdentity
  <1>26. ASSUME NEW b \in Browsers,
               SignInFails(b) \/ FailChange(b) \/ AccessExpires(b) \/
               Refresh(b)
       PROVE  UNCHANGED <<account, app, mixed>>
    BY <1>26 DEF SignInFails, FailChange, AccessExpires, Refresh
  <1>27. ASSUME NEW b \in Browsers, NEW pw \in Passwords,
               BeginChange(b, pw)
       PROVE  UNCHANGED <<account, app, mixed>>
    BY <1>27 DEF BeginChange
  <1>28. ASSUME NEW b \in Browsers, NEW on \in BOOLEAN,
               SetLock(b, on)
       PROVE  UNCHANGED <<account, app, mixed>>
    BY <1>28 DEF SetLock
  <1>29. CASE UNCHANGED vars
    BY <1>29, <1>23 DEF vars
  <1> QED
    BY <1>1, <1>2, <1>3, <1>4, <1>5, <1>6, <1>7, <1>8, <1>9, <1>10, <1>11,
      <1>12, <1>13, <1>14, <1>15, <1>16, <1>17, <1>18, <1>19, <1>20, <1>21,
      <1>22, <1>23, <1>24, <1>25, <1>26, <1>27, <1>28, <1>29 DEF Next,
      Start, Login, Settings, Access

\* What a signed-out browser holds was dead when it signed out, or was there
\* before; only an issue makes a token live, and that is of a token nobody holds.
LEMMA NothingLeftKept ==
  ASSUME TypeOK, Issued, Shapes, NothingLeft, [Next]_vars
  PROVE  NothingLeft'
  <1>age. ASSUME NEW c \in Browsers, NEW x \in {disk[c].rt, disk[c].cookie, app[c].access, late[c]},
                 x # None, ~session[x].live
          PROVE  ~session'[x].live
    BY <1>age, SessionsAge, HeldFacts DEF Issued
  <1>1. ASSUME NEW b \in Browsers, Boot(b)
       PROVE  NothingLeft'
    <2>1. /\ app'[b].status = "loading" /\ task'[b].step = "none" /\ late'[b] = None
          /\ \A c \in Browsers : c # b => app'[c] = app[c] /\ task'[c] = task[c] /\ late'[c] = late[c]
          /\ disk' = disk /\ out' = out
      BY <1>1 DEF TypeOK, Boot, NoTask
    <2> QED
      BY <1>age, <2>1 DEF NothingLeft
  <1>2. ASSUME NEW b \in Browsers, BootRestores(b)
       PROVE  NothingLeft'
    <2>1. out[b] # "served"
      BY <1>2, RefreshableFacts DEF BootRestores, NothingLeft
    <2>2. /\ \A c \in Browsers : c # b => app'[c] = app[c] /\ disk'[c] = disk[c]
          /\ task' = task /\ late' = late /\ out' = out
      BY <1>2 DEF TypeOK, BootRestores
    <2> QED
      BY <1>age, <2>1, <2>2 DEF NothingLeft
  <1>3. ASSUME NEW b \in Browsers, BootNeedsPassword(b)
       PROVE  NothingLeft'
    <2>1. out[b] # "served"
      BY <1>3, RefreshableFacts DEF BootNeedsPassword, NothingLeft
    <2>2. /\ \A c \in Browsers : c # b => app'[c] = app[c] /\ disk'[c] = disk[c]
          /\ task' = task /\ late' = late /\ out' = out
      BY <1>3 DEF TypeOK, BootNeedsPassword
    <2> QED
      BY <1>age, <2>1, <2>2 DEF NothingLeft
  <1>4. ASSUME NEW b \in Browsers, BootMismatch(b)
       PROVE  NothingLeft'
    <2>1. out[b] # "served"
      BY <1>4, RefreshableFacts DEF BootMismatch, NothingLeft
    <2>2. /\ \A c \in Browsers : c # b => app'[c] = app[c] /\ disk'[c] = disk[c]
          /\ task' = task /\ late' = late /\ out' = out
      BY <1>4 DEF TypeOK, BootMismatch
    <2> QED
      BY <1>age, <2>1, <2>2 DEF NothingLeft
  <1>5. ASSUME NEW b \in Browsers, BootFails(b)
       PROVE  NothingLeft'
    <2>1. /\ \A c \in Browsers : app'[c].status \in {app[c].status, "anon"}
          /\ disk' = disk /\ task' = task /\ late' = late /\ out' = out
      BY <1>5 DEF TypeOK, BootFails, App
    <2> QED
      BY <1>age, <2>1 DEF NothingLeft
  <1>6. ASSUME NEW b \in Browsers, NEW a \in Accounts, NEW pw \in Passwords, SignIn(b, a, pw)
       PROVE  NothingLeft'
    <2>1. /\ \A c \in Browsers : task'[c] = task[c] \/ task'[c].step \notin {"ensure", "publish"}
          /\ app' = app /\ disk' = disk /\ late' = late /\ out' = out
      BY <1>6 DEF TypeOK, SignIn, Task, NoTask
    <2> QED
      BY <1>age, <2>1 DEF NothingLeft
  <1>7. ASSUME NEW b \in Browsers, NEW a \in Accounts, NEW pw \in Passwords, RecoverBegin(b, a, pw)
       PROVE  NothingLeft'
    <2>1. /\ \A c \in Browsers : task'[c] = task[c] \/ task'[c].step \notin {"ensure", "publish"}
          /\ \A c \in Browsers : disk'[c].rt = disk[c].rt /\ disk'[c].cookie = disk[c].cookie
          /\ app' = app /\ late' = late /\ out' = out
      BY <1>7 DEF TypeOK, RecoverBegin, Task, NoTask, Disk
    <2> QED
      BY <1>age, <2>1 DEF NothingLeft
  <1>8. ASSUME NEW b \in Browsers, NEW t \in Tokens, Admit(b, t)
       PROVE  NothingLeft'
    <2>1. task[b].step \in {"checked", "pending"} /\ late' = late /\ Issue(b, t)
      BY <1>8 DEF Admit
    <2>2. /\ out'[b] = "no"
          /\ \A c \in Browsers : c # b => /\ disk'[c] = disk[c] /\ app'[c] = app[c]
                                         /\ task'[c] = task[c] /\ out'[c] = out[c]
      BY <2>1, IssueFacts
    <2> QED
      BY <1>age, <2>1, <2>2 DEF NothingLeft
  <1>9. ASSUME NEW b \in Browsers, NEW t \in Tokens, CompleteSecondFactor(b, t)
       PROVE  NothingLeft'
    <2>1. task[b].step \in {"checked", "pending"} /\ late' = late /\ Issue(b, t)
      BY <1>9 DEF CompleteSecondFactor
    <2>2. /\ out'[b] = "no"
          /\ \A c \in Browsers : c # b => /\ disk'[c] = disk[c] /\ app'[c] = app[c]
                                         /\ task'[c] = task[c] /\ out'[c] = out[c]
      BY <2>1, IssueFacts
    <2> QED
      BY <1>age, <2>1, <2>2 DEF NothingLeft
  <1>10. ASSUME NEW b \in Browsers, NEW k \in Keys, CreateIdentity(b, k)
       PROVE  NothingLeft'
    <2>1. out[b] # "served"
      BY <1>10 DEF CreateIdentity, NothingLeft
    <2>2. /\ \A c \in Browsers : c # b => /\ disk'[c] = disk[c] /\ app'[c] = app[c]
                                         /\ task'[c] = task[c]
          /\ out' = out /\ late' = late
      BY <1>10 DEF TypeOK, CreateIdentity, SignedIn, Signed
    <2> QED
      BY <1>age, <2>1, <2>2 DEF NothingLeft
  <1>11. ASSUME NEW b \in Browsers, AskSecondFactor(b)
       PROVE  NothingLeft'
    <2>1. /\ \A c \in Browsers : task'[c] = task[c] \/ task'[c].step \notin {"ensure", "publish"}
          /\ app' = app /\ disk' = disk /\ late' = late /\ out' = out
      BY <1>11 DEF TypeOK, AskSecondFactor, Task, NoTask
    <2> QED
      BY <1>age, <2>1 DEF NothingLeft
  <1>12. ASSUME NEW b \in Browsers, SignInFails(b)
       PROVE  NothingLeft'
    <2>1. /\ \A c \in Browsers : task'[c] = task[c] \/ task'[c].step \notin {"ensure", "publish"}
          /\ app' = app /\ disk' = disk /\ late' = late /\ out' = out
      BY <1>12 DEF TypeOK, SignInFails, Task, NoTask
    <2> QED
      BY <1>age, <2>1 DEF NothingLeft
  <1>13. ASSUME NEW b \in Browsers, AdoptPublished(b)
       PROVE  NothingLeft'
    <2>1. out[b] # "served"
      BY <1>13 DEF AdoptPublished, NothingLeft
    <2>2. /\ \A c \in Browsers : c # b => /\ disk'[c] = disk[c] /\ app'[c] = app[c]
                                         /\ task'[c] = task[c]
          /\ out' = out /\ late' = late
      BY <1>13 DEF TypeOK, AdoptPublished, SignedIn, Signed
    <2> QED
      BY <1>age, <2>1, <2>2 DEF NothingLeft
  <1>14. ASSUME NEW b \in Browsers, Publish(b)
       PROVE  NothingLeft'
    <2>1. out[b] # "served"
      BY <1>14 DEF Publish, NothingLeft
    <2>2. /\ \A c \in Browsers : c # b => /\ disk'[c] = disk[c] /\ app'[c] = app[c]
                                         /\ task'[c] = task[c]
          /\ out' = out /\ late' = late
      BY <1>14 DEF TypeOK, Publish, SignedIn, Signed
    <2> QED
      BY <1>age, <2>1, <2>2 DEF NothingLeft
  <1>15. ASSUME NEW b \in Browsers, RecoverFinish(b)
       PROVE  NothingLeft'
    <2>1. /\ \A c \in Browsers : task'[c] = task[c] \/ task'[c].step \notin {"ensure", "publish"}
          /\ app' = app /\ disk' = disk /\ late' = late /\ out' = out
      BY <1>15 DEF TypeOK, RecoverFinish, Task, NoTask
    <2> QED
      BY <1>age, <2>1 DEF NothingLeft
  <1>16. ASSUME NEW b \in Browsers, CommitChange(b)
       PROVE  NothingLeft'
    <2>1. app' = app /\ disk' = disk /\ late' = late /\ out' = out /\ task' = task
      BY <1>16 DEF CommitChange
    <2> QED
      BY <1>age, <2>1 DEF NothingLeft
  <1>17. ASSUME NEW b \in Browsers, DeleteAccount(b)
       PROVE  NothingLeft'
    <2>1. \A c \in Browsers : app'[c].status \in {app[c].status, "anon"}
      <3> DEFINE f == SignedOff(b)
      <3>1. app' = [f EXCEPT ![b].id = NoPair]
        BY <1>17 DEF DeleteAccount
      <3>2. /\ f \in [Browsers -> App] /\ f[b].status = "anon"
            /\ \A c \in Browsers : c # b => f[c] = app[c]
        BY SignedOffFacts
      <3> HIDE DEF f
      <3> QED
        BY <3>1, <3>2 DEF App
    <2>2. /\ \A c \in Browsers : disk'[c].rt \in {disk[c].rt, None} /\ disk'[c].cookie = disk[c].cookie
          /\ late' = late /\ out' = out /\ task' = task
      BY <1>17 DEF TypeOK, DeleteAccount, Disk
    <2> QED
      BY <1>age, <2>1, <2>2 DEF NothingLeft
  <1>18. ASSUME NEW b \in Browsers, SignOut(b)
       PROVE  NothingLeft'
    <2>1. \A c \in Browsers : app'[c].status \in {app[c].status, "anon"} /\ app'[b].status = "anon"
      <3>1. app' = SignedOff(b)
        BY <1>18 DEF SignOut
      <3> QED
        BY <3>1, SignedOffFacts
    <2>2. /\ disk'[b].rt = None /\ disk'[b].cookie = None
          /\ \A c \in Browsers : c # b => disk'[c] = disk[c] /\ out'[c] = out[c]
          /\ out'[b] = "served" => late[b] \in {None, app[b].access}
          /\ late' = late /\ task' = task
      BY <1>18 DEF TypeOK, SignOut, Disk
    <2>3. task[b].step = "none" /\ ~session'[app[b].access].live
      <3>1. app[b].status = "authed"
        BY <1>18 DEF TypeOK, SignOut, Screen, App
      <3>2. session'[app[b].access].live = FALSE
        BY <1>18, CallerFacts DEF TypeOK, SignOut, Session
      <3> QED
        BY <3>1, <3>2 DEF Shapes
    <2> QED
      BY <1>age, <2>1, <2>2, <2>3 DEF NothingLeft
  <1>19. ASSUME NEW b \in Browsers, SignOutUnserved(b)
       PROVE  NothingLeft'
    <2>1. \A c \in Browsers : app'[c].status \in {app[c].status, "anon"} /\ app'[b].status = "anon"
      <3>1. app' = SignedOff(b)
        BY <1>19 DEF SignOutUnserved
      <3> QED
        BY <3>1, SignedOffFacts
    <2>2. /\ \A c \in Browsers : c # b => disk'[c] = disk[c] /\ out'[c] = out[c]
          /\ out'[b] # "served"
          /\ late' = late /\ task' = task
      BY <1>19 DEF TypeOK, SignOutUnserved, Disk
    <2> QED
      BY <1>age, <2>1, <2>2 DEF NothingLeft
  <1>20. ASSUME NEW b \in Browsers, NEW on \in BOOLEAN, SetLock(b, on)
       PROVE  NothingLeft'
    <2>1. /\ \A c \in Browsers : disk'[c].rt = disk[c].rt /\ disk'[c].cookie = disk[c].cookie
          /\ app' = app /\ late' = late /\ out' = out /\ task' = task
      BY <1>20 DEF TypeOK, SetLock, Disk
    <2> QED
      BY <1>age, <2>1 DEF NothingLeft
  <1>21. ASSUME NEW b \in Browsers, Relock(b)
       PROVE  NothingLeft'
    <2>1. /\ \A c \in Browsers : app'[c].status \in {app[c].status, "anon"}
          /\ disk' = disk /\ task' = task /\ late' = late /\ out' = out
      BY <1>21 DEF TypeOK, Relock, App
    <2> QED
      BY <1>age, <2>1 DEF NothingLeft
  <1>22. ASSUME NEW b \in Browsers, Unlock(b)
       PROVE  NothingLeft'
    <2>1. /\ \A c \in Browsers : app'[c].status \in {app[c].status, "anon"}
          /\ disk' = disk /\ task' = task /\ late' = late /\ out' = out
      BY <1>22 DEF TypeOK, Unlock, App
    <2> QED
      BY <1>age, <2>1 DEF NothingLeft
  <1>23. ASSUME NEW b \in Browsers, Refresh(b)
       PROVE  NothingLeft'
    <2>1. out[b] # "served"
      BY <1>23 DEF Refresh, Requesting, NothingLeft
    <2>2. /\ \A c \in Browsers : c # b => late'[c] = late[c]
          /\ app' = app /\ disk' = disk /\ out' = out /\ task' = task
      BY <1>23 DEF TypeOK, Refresh
    <2> QED
      BY <1>age, <2>1, <2>2 DEF NothingLeft
  <1>24. ASSUME NEW b \in Browsers, RefreshArrives(b)
       PROVE  NothingLeft'
    <2>1. /\ \A c \in Browsers : app'[c].status = app[c].status
          /\ \A c \in Browsers : c # b => disk'[c] = disk[c] /\ late'[c] = late[c]
          /\ disk'[b].rt = late[b] /\ disk'[b].cookie = late[b] /\ late'[b] = None
          /\ out' = out /\ task' = task
      BY <1>24 DEF TypeOK, RefreshArrives, App, Disk
    <2> QED
      BY <1>age, <2>1 DEF NothingLeft
  <1>25. ASSUME NEW b \in Browsers, RefreshRefused(b)
       PROVE  NothingLeft'
    <2>1. \A c \in Browsers : app'[c].status \in {app[c].status, "anon"} /\ app'[b].status = "anon"
      <3>1. app' = SignedOff(b)
        BY <1>25 DEF RefreshRefused
      <3> QED
        BY <3>1, SignedOffFacts
    <2>2. late' = late /\ task' = task /\ disk' = disk /\ out' = out
      BY <1>25 DEF RefreshRefused
    <2> QED
      BY <1>age, <2>1, <2>2 DEF NothingLeft
  <1>26. ASSUME NEW a \in Accounts, NEW pw \in Passwords, AdminReset(a, pw)
       PROVE  NothingLeft'
    <2>1. app' = app /\ disk' = disk /\ late' = late /\ out' = out /\ task' = task
      BY <1>26 DEF AdminReset
    <2> QED
      BY <1>age, <2>1 DEF NothingLeft
  <1>27. CASE UNCHANGED <<app, disk, late, out, task, session>>
    BY <1>27, <1>age DEF NothingLeft
  <1>28. ASSUME NEW b \in Browsers, NEW pw \in Passwords,
               BeginChange(b, pw)
       PROVE  UNCHANGED <<app, disk, late, out, task, session>>
    BY <1>28 DEF BeginChange
  <1>29. ASSUME NEW b \in Browsers,
               FailChange(b) \/ SetupRecovery(b) \/ RemoveRecovery(b) \/
               AccessExpires(b)
       PROVE  UNCHANGED <<app, disk, late, out, task, session>>
    BY <1>29 DEF FailChange, SetupRecovery, RemoveRecovery, AccessExpires
  <1>30. CASE UNCHANGED vars
    BY <1>30, <1>27 DEF vars
  <1> QED
    BY <1>1, <1>2, <1>3, <1>4, <1>5, <1>6, <1>7, <1>8, <1>9, <1>10, <1>11,
      <1>12, <1>13, <1>14, <1>15, <1>16, <1>17, <1>18, <1>19, <1>20, <1>21,
      <1>22, <1>23, <1>24, <1>25, <1>26, <1>27, <1>28, <1>29, <1>30 DEF
      Next, Start, Login, Settings, Access

-----------------------------------------------------------------------------
\* IInv is inductive.
LEMMA InitIInv ==
  Init => IInv
  <1> SUFFICES ASSUME Init PROVE IInv
    OBVIOUS
  <1>1. PICK pw \in [Accounts -> Passwords] :
          account = [a \in Accounts |-> [pw |-> pw[a], legacy |-> a \in Legacy, pub |-> None,
                                         blob |-> Unwrapped, rec |-> None]]
    BY DEF Init
  <1>2. account \in [Accounts -> Account] /\ \A a \in Accounts : account[a].pub = None
    BY <1>1, Values DEF Account
  <1>3. TypeOK
    BY <1>2, Values DEF Init, TypeOK, Session, Disk, App
  <1> QED
    BY <1>2, <1>3 DEF Init, IInv, Issued, Shapes, KeyOpensWithPassword, KeylessAreMixed,
                     SignedInKeyIsTheAccounts, NothingLeft, NoTask, NoChange

LEMMA NextIInv ==
  IInv /\ [Next]_vars => IInv'
  BY TypesKept, IssuedKept, ShapesKept, KeyOpensKept, KeylessKept, SignedInKeyKept,
     NothingLeftKept
  DEF IInv

THEOREM Invariance == Spec => []IInv
  BY InitIInv, NextIInv, PTL DEF Spec

\* Type correctness, and that who is signed in is somebody, with a key.
THEOREM TypeCorrect == Spec => []TypeOK
  BY Invariance, PTL DEF IInv

\* Change, recovery, upgrade and reset leave the published key within reach of
\* the password of every account that is not marked.
THEOREM KeyOpens == Spec => []KeyOpensWithPassword
  BY Invariance, PTL DEF IInv

\* A browser that is signed in holds the key its account has published, unless
\* it is marked.
THEOREM SignedInKey == Spec => []SignedInKeyIsTheAccounts
  BY Invariance, PTL DEF IInv

\* After a sign-out that was served nothing signs the browser in but a sign-in.
THEOREM SignedOut == Spec => []SignedOutStaysOut
  <1>1. IInv => SignedOutStaysOut
    BY DEF IInv, NothingLeft, SignedOutStaysOut
  <1> QED
    BY <1>1, Invariance, PTL

\* A published key is never replaced while its account exists.
THEOREM KeyStays == Spec => PublishedKeyStays
  <1>1. IInv /\ [Next]_vars =>
          [\A a \in Accounts :
             account[a].pub # None /\ account'[a].pw # None => account'[a].pub = account[a].pub]_vars
    BY AccountsAge DEF IInv
  <1> QED
    BY <1>1, Invariance, PTL DEF Spec, PublishedKeyStays
=============================================================================
