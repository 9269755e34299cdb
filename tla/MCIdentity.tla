----------------------------- MODULE MCIdentity -----------------------------
EXTENDS Identity, TLC
CONSTANTS
  MaxBusy,  \* bound: requests and continuations under way at once
  Main,     \* bound: the browser every account is used on
  First     \* bound: the account used when other browsers are used
Symmetry == Permutations(Keys) \cup Permutations(Tokens) \cup Permutations(Passwords)

Busy == Cardinality({b \in Browsers : task[b].step # "none"})
      + Cardinality({b \in Browsers : change[b].step # "none"})
      + Cardinality({b \in Browsers : late[b] # None})

OneBrowser == \A b \in Browsers \ {Main} : app[b].status = "loading"
OneAccount ==
  \A a \in Accounts \ {First} :
    /\ \A t \in Tokens : session[t].acct # a
    /\ \A b \in Browsers : task[b].acct # a
    /\ a \notin tainted

\* Either several accounts on one browser, or one account on several; a lock,
\* a recovery key and what follows an unfitting key only with one of each.
Focus ==
  /\ Busy <= MaxBusy
  /\ OneBrowser \/ OneAccount
  /\ OneBrowser \/ \A b \in Browsers \ {Main} : late[b] = None
  /\ \/ OneBrowser /\ OneAccount
     \/ tainted = {} /\ ~disk[Main].lock /\ \A a \in Accounts : account[a].rec = None
=============================================================================
