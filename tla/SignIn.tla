------------------------------- MODULE SignIn -------------------------------
(***************************************************************************)
(* What the second step of signing in promises: a pending-login token is   *)
(* redeemed for at most one session, and a TOTP step, once it has opened a *)
(* session, opens no other, nor does any older one.                        *)
(***************************************************************************)
EXTENDS Naturals

CONSTANTS Jtis, Attempts, TotpSteps
VARIABLE sessions  \* the sessions opened: by which attempt, token and TOTP step

Session == [attempt : Attempts, jti : Jtis, step : TotpSteps]  \* step 0: no TOTP code used

Init == sessions = {}

\* attempt a turns token j into a session, with a TOTP code of step t or without.
Redeem(a, j, t) ==
  /\ \A s \in sessions : s.jti # j
  /\ t = 0 \/ \A s \in sessions : s.step < t
  /\ sessions' = sessions \cup {[attempt |-> a, jti |-> j, step |-> t]}

Next == \E a \in Attempts, j \in Jtis, t \in TotpSteps : Redeem(a, j, t)

Spec == Init /\ [][Next]_sessions
=============================================================================
