------------------------- MODULE SecondFactorProofs -------------------------
(***************************************************************************)
(* SecondFactor keeps the promise of SignIn and the bound on guesses, for  *)
(* any number of tokens, concurrent requests and failures of Redis.        *)
(*                                                                         *)
(* Theorems about Sessions, what a sign-in opens, for any sets of devices, *)
(* requests, sockets and workers: one inductive invariant carries them.    *)
(***************************************************************************)
EXTENDS SecondFactor, Sessions, TLAPS

\* A leaf is for the SMT solver, which is given time, unless it names another prover.
USE SMTT(60)

Bounds ==
  /\ clock \in 1 .. MaxClock
  /\ \A r \in Attempts : /\ req[r].step \in 0 .. MaxClock + 1
                         /\ req[r].kind # "totp" => req[r].step = 0
                         /\ req[r].pc # "idle" => req[r].jti \in Jtis
  /\ \A m \in minted : m.step \in 0 .. MaxClock + 1

\* SELECT ... FOR UPDATE: one request at a time works with a code.
RowLockExclusive == \A r, q \in Attempts : HoldsRow(r) /\ HoldsRow(q) => r = q

HasClaimed(r) == req[r].pc \in {"claimed", "cleared"}

\* A token claimed or redeemed is claimed by that one request, for good.
ClaimExclusive ==
  /\ \A r, q \in Attempts :
       HasClaimed(r) /\ HasClaimed(q) /\ req[r].jti = req[q].jti => r = q
  /\ \A r \in Attempts, m \in minted : HasClaimed(r) => m.jti # req[r].jti

\* Why no second claim can succeed: the marker is there, or the token expired
\* and nobody who decoded it in time is left.
NoSecondClaim(j) ==
  j \in used \/ (pending[j] = "expired" /\ \A r \in Attempts : ~MayStillClaim(r, j))

ClaimsAreMarked ==
  /\ \A r \in Attempts : HasClaimed(r) => NoSecondClaim(req[r].jti)
  /\ \A m \in minted : NoSecondClaim(m.jti)

\* A TOTP code past verification is still newer than every step spent: only
\* the holder of the row moves totp_last_step.
StepsAdvance ==
  /\ \A m \in minted : m.step <= lastStep
  /\ \A r \in Attempts : req[r].kind = "totp" /\ req[r].pc \in {"verified", "claimed", "cleared"}
                           => lastStep < req[r].step

\* The counter never lags the guesses, and a request past its guards was let
\* through below the limit.
CounterCoversGuesses ==
  ~outage =>
    /\ guesses <= fails
    /\ guesses <= MaxFails
    /\ \A r \in Attempts : req[r].kind \in CodeKinds /\ req[r].pc \in {"guarded", "failing"}
                             => guesses < MaxFails

IInv == /\ TypeOK /\ Bounds /\ RowLockExclusive /\ ClaimExclusive /\ ClaimsAreMarked
        /\ StepsAdvance /\ CounterCoversGuesses

-----------------------------------------------------------------------------
\* What moving a request to another step changes.
LEMMA GotoFacts ==
  ASSUME TypeOK, NEW r \in Attempts, NEW pc \in Steps, Goto(r, pc)
  PROVE  /\ req' \in [Attempts -> Request]
         /\ req'[r].pc = pc
         /\ \A q \in Attempts : q # r => req'[q] = req[q]
         /\ \A q \in Attempts : /\ req'[q].jti = req[q].jti /\ req'[q].kind = req[q].kind
                                /\ req'[q].step = req[q].step /\ req'[q].code = req[q].code
  <1>1. req \in [Attempts -> Request] /\ req[r] \in Request
    BY DEF TypeOK
  <1>2. req' = [req EXCEPT ![r] = [req[r] EXCEPT !.pc = pc]]
    BY DEF Goto
  <1> QED
    BY <1>1, <1>2 DEF Request

\* The initial states satisfy the invariant.
LEMMA InitInv == Init => IInv
  <1> SUFFICES ASSUME Init
               PROVE  IInv
    OBVIOUS
  <1>1. NoRequest \in Request
    BY DEF NoRequest, Request, Steps, Kinds, CodeKinds
  <1>2. TypeOK
    BY Zenon, <1>1 DEF Init, TypeOK
  <1>3. \A r \in Attempts : req[r].pc = "idle" /\ req[r].kind = "wrong" /\ req[r].step = 0
    BY DEF Init, NoRequest
  <1>4. Bounds
    BY <1>3, MaxClockAssumption DEF Init, Bounds
  <1>5. RowLockExclusive /\ ClaimExclusive /\ ClaimsAreMarked /\ StepsAdvance
    BY <1>3 DEF Init, RowLockExclusive, ClaimExclusive, ClaimsAreMarked, StepsAdvance, HoldsRow,
                HasClaimed
  <1>6. CounterCoversGuesses
    BY <1>3, MaxFailsAssumption DEF Init, CounterCoversGuesses
  <1> QED
    BY <1>2, <1>4, <1>5, <1>6 DEF IInv

Env ==
  \/ Tick \/ CounterLapses
  \/ \E j \in Jtis : IssuePending(j) \/ PendingExpires(j) \/ MarkerLapses(j)

\* The clock and the lapsing of tokens and keys keep it.
LEMMA EnvInv ==
  ASSUME IInv, Env
  PROVE  IInv'
  <1> USE DEF IInv, TypeOK, Bounds, RowLockExclusive, ClaimExclusive, ClaimsAreMarked, StepsAdvance,
      HoldsRow, HasClaimed, NoSecondClaim, MayStillClaim, redis
  <1>1. CASE Tick
    BY <1>1, MaxClockAssumption DEF Tick, CounterCoversGuesses
  <1>2. CASE CounterLapses
    <2>1. /\ fails' = 0 /\ guesses' = 0 /\ timer' = FALSE
          /\ UNCHANGED <<clock, lastStep, unspent, pending, used, req, minted, outage>>
      BY <1>2 DEF CounterLapses
    <2>2. /\ TypeOK' /\ Bounds' /\ RowLockExclusive'
          /\ ClaimExclusive' /\ ClaimsAreMarked' /\ StepsAdvance'
      BY ZenonT(120), <2>1
    <2>3. CounterCoversGuesses'
      BY <2>1, MaxFailsAssumption DEF CounterCoversGuesses
    <2> QED
      BY <2>2, <2>3
  <1>3. ASSUME NEW j \in Jtis, IssuePending(j)
        PROVE  IInv'
    BY <1>3 DEF IssuePending, CounterCoversGuesses
  <1>4. ASSUME NEW j \in Jtis, PendingExpires(j)
        PROVE  IInv'
    BY <1>4 DEF PendingExpires, CounterCoversGuesses
  <1>5. ASSUME NEW j \in Jtis, MarkerLapses(j)
        PROVE  IInv'
    BY <1>5 DEF MarkerLapses, CounterCoversGuesses
  <1> QED
    BY <1>1, <1>2, <1>3, <1>4, <1>5 DEF Env

-----------------------------------------------------------------------------
(* The steps of a request *)

\* The parts of the invariant that only a request's place in its course, its
\* claim or its session can disturb, for a step that only moves it, down to a
\* place where it holds no more than before.
Moves(r, pc) == Goto(r, pc) /\ UNCHANGED <<clock, lastStep, unspent, pending, used, minted>>

LEMMA MoveKeeps ==
  ASSUME IInv, NEW r \in Attempts, NEW pc \in Steps, Moves(r, pc), req[r].pc # "idle",
         pc = "locked" => \A q \in Attempts : ~HoldsRow(q),
         pc \notin {"locked", "done", "refused"} => HoldsRow(r) \/ req[r].kind \notin CodeKinds,
         pc = "claimed" => HasClaimed(r),
         pc = "cleared" => HasClaimed(r),
         pc \in {"decoded", "locked", "guarded", "verified"} => MayStillClaim(r, req[r].jti),
         pc = "verified" /\ req[r].kind = "totp" => lastStep < req[r].step
  PROVE  /\ req' \in [Attempts -> Request]
         /\ Bounds' /\ RowLockExclusive' /\ ClaimExclusive' /\ ClaimsAreMarked' /\ StepsAdvance'
  <1> USE DEF Moves
  <1>1. /\ req' \in [Attempts -> Request]
        /\ req'[r].pc = pc
        /\ \A q \in Attempts : q # r => req'[q] = req[q]
        /\ \A q \in Attempts : /\ req'[q].jti = req[q].jti /\ req'[q].kind = req[q].kind
                               /\ req'[q].step = req[q].step /\ req'[q].code = req[q].code
    BY GotoFacts DEF IInv
  <1>2. Bounds'
    BY <1>1 DEF IInv, Bounds
  <1>3. RowLockExclusive'
    BY <1>1 DEF IInv, RowLockExclusive, HoldsRow
  <1>4. ClaimExclusive'
    BY <1>1 DEF IInv, ClaimExclusive, HasClaimed
  <1>5. \A q \in Attempts, j \in Jtis : MayStillClaim(q, j)' => MayStillClaim(q, j)
    BY <1>1 DEF MayStillClaim
  <1>6. ClaimsAreMarked'
    <2>1. \A j \in Jtis : NoSecondClaim(j) => NoSecondClaim(j)'
      BY <1>5 DEF NoSecondClaim
    <2>2. \A m \in minted : m.jti \in Jtis
      BY DEF IInv, TypeOK, Minted
    <2>3. \A q \in Attempts : HasClaimed(q)' => HasClaimed(q) /\ req[q].jti \in Jtis
      BY <1>1 DEF HasClaimed, IInv, Bounds
    <2> QED
      BY <1>1, <2>1, <2>2, <2>3 DEF IInv, ClaimsAreMarked
  <1>7. StepsAdvance'
    BY <1>1 DEF IInv, StepsAdvance, HasClaimed
  <1> QED
    BY <1>1, <1>2, <1>3, <1>4, <1>6, <1>7

\* The steps that only move a request and touch neither Redis's claims nor the row.
LEMMA MovingInv ==
  ASSUME IInv, NEW r \in Attempts,
         \/ LockRow(r) \/ Guards(r) \/ GuardsWithoutRedis(r) \/ Verify(r) \/ CountFailure(r)
         \/ ArmTimer(r) \/ FailureUncounted(r) \/ ClearFailures(r) \/ FailuresNotCleared(r)
         \/ Abandon(r)
  PROVE  IInv'
  <1>0. /\ fails \in Nat /\ guesses \in Nat /\ req[r] \in Request
        /\ req[r].kind \in Kinds /\ req[r].pc \in Steps
    BY DEF IInv, TypeOK, Request
  <1> DEFINE Rest == /\ Bounds' /\ RowLockExclusive' /\ ClaimExclusive' /\ ClaimsAreMarked'
                     /\ StepsAdvance'
  <1>t. ASSUME req' \in [Attempts -> Request], fails' \in Nat, guesses' \in Nat,
               timer' \in BOOLEAN, outage' \in BOOLEAN,
               UNCHANGED <<clock, lastStep, unspent, pending, used, minted>>
        PROVE  TypeOK'
    BY <1>t DEF IInv, TypeOK
  <1>g. ASSUME NEW pc \in Steps, Goto(r, pc)
        PROVE  /\ req'[r].pc = pc
               /\ \A q \in Attempts : q # r => req'[q] = req[q]
               /\ \A q \in Attempts : req'[q].kind = req[q].kind
    BY <1>g, GotoFacts DEF IInv
  <1> USE DEF Steps
  <1>1. CASE LockRow(r)
    <2>1. Moves(r, "locked")
      BY <1>1 DEF LockRow, Moves, redis
    <2>2. req' \in [Attempts -> Request] /\ Rest
      BY <1>1, <2>1, MoveKeeps DEF LockRow, MayStillClaim
    <2>3. TypeOK'
      BY <1>1, <2>2, <1>t DEF LockRow, redis, IInv, TypeOK
    <2>4. CounterCoversGuesses'
      BY <1>1, <2>1, <1>g DEF Moves, LockRow, redis, IInv, CounterCoversGuesses
    <2> QED
      BY <2>2, <2>3, <2>4 DEF IInv
  <1>2. CASE Guards(r)
    <2> DEFINE pc == IF fails >= MaxFails \/ req[r].jti \in used THEN "refused" ELSE "guarded"
    <2>1. Moves(r, pc) /\ pc \in {"refused", "guarded"} /\ UNCHANGED <<fails, timer, guesses, outage>>
      BY <1>2 DEF Guards, Moves, redis
    <2>2. req[r].kind \in CodeKinds => HoldsRow(r)
      BY <1>2 DEF Guards, AtGuards, HoldsRow
    <2>3. req[r].pc \in {"locked", "decoded"}
      BY <1>2 DEF Guards, AtGuards
    <2>4. pc = "guarded" => fails < MaxFails
      BY <1>0, MaxFailsAssumption
    <2> HIDE DEF pc
    <2>5. req' \in [Attempts -> Request] /\ Rest
      BY <2>1, <2>2, <2>3, MoveKeeps DEF MayStillClaim
    <2>6. TypeOK'
      BY <2>1, <2>5, <1>t DEF Moves, IInv, TypeOK
    <2>7. CounterCoversGuesses'
      BY <1>0, <2>1, <2>4, <1>g, MaxFailsAssumption DEF Moves, IInv, CounterCoversGuesses
    <2> QED
      BY <2>5, <2>6, <2>7 DEF IInv
  <1>3. CASE GuardsWithoutRedis(r)
    <2>1. PICK pc \in {"guarded", "refused"} : Moves(r, pc)
      BY <1>3 DEF GuardsWithoutRedis, Moves, redis
    <2>2. /\ req[r].pc \in {"locked", "decoded"}
          /\ req[r].kind \in CodeKinds => HoldsRow(r)
          /\ outage' = TRUE /\ UNCHANGED <<fails, timer, guesses>>
      BY <1>3 DEF GuardsWithoutRedis, AtGuards, HoldsRow, redis
    <2>3. req' \in [Attempts -> Request] /\ Rest
      BY <2>1, <2>2, MoveKeeps DEF MayStillClaim
    <2>4. TypeOK'
      BY <2>1, <2>2, <2>3, <1>t DEF Moves, IInv, TypeOK
    <2> QED
      BY <2>2, <2>3, <2>4 DEF IInv, CounterCoversGuesses
  <1>4. CASE Verify(r)
    <2> DEFINE pc == IF CredentialHolds(r) THEN "verified" ELSE "failing"
    <2>1. Moves(r, pc) /\ pc \in {"verified", "failing"} /\ UNCHANGED <<fails, timer, guesses, outage>>
      BY <1>4 DEF Verify, Moves, redis
    <2>2. req[r].pc = "guarded" /\ (req[r].kind \in CodeKinds => HoldsRow(r))
      BY <1>4 DEF Verify, HoldsRow
    <2>3. pc = "verified" /\ req[r].kind = "totp" => lastStep < req[r].step
      <3> SUFFICES ASSUME CredentialHolds(r), req[r].kind = "totp"
                   PROVE  lastStep < req[r].step
        OBVIOUS
      <3>1. req[r].step > lastStep
        BY DEF CredentialHolds, TotpAccepts
      <3> QED
        BY <3>1, <1>0 DEF IInv, TypeOK, Request
    <2> HIDE DEF pc
    <2>4. req' \in [Attempts -> Request] /\ Rest
      BY <2>1, <2>2, <2>3, MoveKeeps DEF MayStillClaim
    <2>5. TypeOK'
      BY <2>1, <2>4, <1>t DEF Moves, IInv, TypeOK
    <2>6. CounterCoversGuesses'
      BY <1>0, <2>1, <2>2, <1>g DEF Moves, IInv, CounterCoversGuesses
    <2> QED
      BY <2>4, <2>5, <2>6 DEF IInv
  <1>5. CASE CountFailure(r)
    <2> DEFINE pc == IF fails = 0 THEN "arming" ELSE "refused"
    <2>1. Moves(r, pc) /\ pc \in {"arming", "refused"} /\ UNCHANGED <<timer, outage>>
      BY <1>5 DEF CountFailure, Moves
    <2>2. /\ fails' = fails + 1
          /\ guesses' = (IF req[r].kind \in CodeKinds THEN guesses + 1 ELSE guesses)
          /\ req[r].pc = "failing" /\ (req[r].kind \in CodeKinds => HoldsRow(r))
      BY <1>5 DEF CountFailure, HoldsRow
    <2> HIDE DEF pc
    <2>3. req' \in [Attempts -> Request] /\ Rest
      BY <2>1, <2>2, MoveKeeps
    <2>4. TypeOK'
      BY <1>0, <2>1, <2>2, <2>3, <1>t DEF Moves, IInv, TypeOK
    <2>5. CounterCoversGuesses'
      <3>1. /\ req'[r].pc = pc
            /\ \A q \in Attempts : q # r => req'[q] = req[q]
        BY <2>1, <1>g DEF Moves
      <3>2. CASE req[r].kind \in CodeKinds
        <4>1. \A q \in Attempts : HoldsRow(q) => q = r
          BY <2>2, <3>2 DEF IInv, RowLockExclusive
        <4>2. \A q \in Attempts : ~(req'[q].kind \in CodeKinds /\ req'[q].pc \in {"guarded", "failing"})
          BY <2>1, <3>1, <4>1 DEF HoldsRow
        <4> QED
          BY <1>0, <2>1, <2>2, <3>2, <4>2, MaxFailsAssumption DEF IInv, CounterCoversGuesses
      <3>3. CASE req[r].kind \notin CodeKinds
        BY <1>0, <2>1, <2>2, <3>1, <3>3, MaxFailsAssumption DEF IInv, CounterCoversGuesses
      <3> QED
        BY <3>2, <3>3
    <2> QED
      BY <2>3, <2>4, <2>5 DEF IInv
  <1>6. CASE ArmTimer(r)
    <2>1. Moves(r, "refused") /\ UNCHANGED <<fails, guesses, outage>> /\ timer' \in BOOLEAN
          /\ req[r].pc = "arming"
      BY <1>6 DEF ArmTimer, Moves
    <2>2. req' \in [Attempts -> Request] /\ Rest
      BY <2>1, MoveKeeps
    <2>3. TypeOK'
      BY <2>1, <2>2, <1>t DEF Moves, IInv, TypeOK
    <2>4. CounterCoversGuesses'
      BY <2>1, <1>g DEF Moves, IInv, CounterCoversGuesses
    <2> QED
      BY <2>2, <2>3, <2>4 DEF IInv
  <1>7. CASE FailureUncounted(r)
    <2>1. Moves(r, "refused") /\ UNCHANGED <<fails, guesses, timer>> /\ outage' = TRUE
          /\ req[r].pc # "idle"
      BY <1>7 DEF FailureUncounted, Moves, redis
    <2>2. req' \in [Attempts -> Request] /\ Rest
      BY <2>1, MoveKeeps
    <2>3. TypeOK'
      BY <2>1, <2>2, <1>t DEF Moves, IInv, TypeOK
    <2> QED
      BY <2>1, <2>2, <2>3 DEF IInv, CounterCoversGuesses
  <1>8. CASE ClearFailures(r)
    <2>1. /\ Moves(r, "cleared") /\ UNCHANGED outage /\ req[r].pc = "claimed"
          /\ fails' = 0 /\ guesses' = 0 /\ timer' = FALSE
      BY <1>8 DEF ClearFailures, Moves
    <2>2. req' \in [Attempts -> Request] /\ Rest
      BY <2>1, MoveKeeps DEF HasClaimed, HoldsRow
    <2>3. TypeOK'
      BY Zenon, <2>1, <2>2, <1>t DEF Moves, IInv, TypeOK
    <2>4. CounterCoversGuesses'
      BY <2>1, MaxFailsAssumption DEF CounterCoversGuesses
    <2> QED
      BY <2>2, <2>3, <2>4 DEF IInv
  <1>9. CASE FailuresNotCleared(r)
    <2>1. /\ Moves(r, "cleared") /\ UNCHANGED <<fails, guesses, timer>> /\ outage' = TRUE
          /\ req[r].pc = "claimed"
      BY <1>9 DEF FailuresNotCleared, Moves, redis
    <2>2. req' \in [Attempts -> Request] /\ Rest
      BY <2>1, MoveKeeps DEF HasClaimed, HoldsRow
    <2>3. TypeOK'
      BY <2>1, <2>2, <1>t DEF Moves, IInv, TypeOK
    <2> QED
      BY <2>1, <2>2, <2>3 DEF IInv, CounterCoversGuesses
  <1>10. CASE Abandon(r)
    <2>1. Moves(r, "refused") /\ UNCHANGED <<fails, guesses, timer, outage>> /\ req[r].pc # "idle"
      BY <1>10 DEF Abandon, InFlight, Moves, redis
    <2>2. req' \in [Attempts -> Request] /\ Rest
      BY <2>1, MoveKeeps
    <2>3. TypeOK'
      BY <2>1, <2>2, <1>t DEF Moves, IInv, TypeOK
    <2>4. CounterCoversGuesses'
      BY <2>1, <1>g DEF Moves, IInv, CounterCoversGuesses
    <2> QED
      BY <2>2, <2>3, <2>4 DEF IInv
  <1> QED
    BY <1>1, <1>2, <1>3, <1>4, <1>5, <1>6, <1>7, <1>8, <1>9, <1>10

\* A new request names a token that has not expired, so it reopens no claim.
LEMMA SubmitInv ==
  ASSUME IInv, NEW r \in Attempts, Submit(r)
  PROVE  IInv'
  <1>1. PICK j \in Jtis, kind \in Kinds, step \in Nat, code \in BackupCodes \cup {NoCode} :
          /\ Decode(r, j, kind, step, code)
          /\ step \in 0 .. MaxClock + 1 /\ (kind # "totp" => step = 0)
    <2>1. clock \in 1 .. MaxClock /\ MaxClock \in Nat
      BY MaxClockAssumption DEF IInv, Bounds
    <2>2. PICK j \in Jtis :
            \/ \E step \in clock - 1 .. clock + 1 : step > 0 /\ Decode(r, j, "totp", step, NoCode)
            \/ \E code \in BackupCodes : Decode(r, j, "backup", 0, code)
            \/ \E kind \in {"wrong", "passkey", "badkey"} : Decode(r, j, kind, 0, NoCode)
      BY DEF Submit
    <2>3. CASE \E step \in clock - 1 .. clock + 1 : step > 0 /\ Decode(r, j, "totp", step, NoCode)
      <3>1. PICK step \in clock - 1 .. clock + 1 : step > 0 /\ Decode(r, j, "totp", step, NoCode)
        BY <2>3
      <3>2. step \in Nat /\ step \in 0 .. MaxClock + 1
        BY <2>1, <3>1
      <3> QED
        BY <3>1, <3>2 DEF Kinds, CodeKinds
    <2>4. CASE \E code \in BackupCodes : Decode(r, j, "backup", 0, code)
      BY <2>1, <2>4 DEF Kinds, CodeKinds
    <2>5. CASE \E kind \in {"wrong", "passkey", "badkey"} : Decode(r, j, kind, 0, NoCode)
      BY <2>1, <2>5 DEF Kinds, CodeKinds
    <2> QED
      BY <2>2, <2>3, <2>4, <2>5
  <1> DEFINE new == [pc |-> "decoded", jti |-> j, kind |-> kind, step |-> step, code |-> code]
  <1>2. /\ pending[j] = "valid" /\ req' = [req EXCEPT ![r] = new] /\ new \in Request
        /\ new.pc = "decoded" /\ new.jti = j /\ new.kind = kind /\ new.step = step
        /\ UNCHANGED <<clock, lastStep, unspent, pending, used, fails, timer, minted, guesses, outage>>
    BY <1>1 DEF Decode, redis, Request, Steps
  <1> HIDE DEF new
  <1>3. /\ req' \in [Attempts -> Request] /\ req'[r] = new
        /\ \A q \in Attempts : q # r => req'[q] = req[q]
    BY <1>2 DEF IInv, TypeOK
  <1>4. TypeOK'
    BY <1>2, <1>3 DEF IInv, TypeOK
  <1>5. Bounds'
    BY <1>1, <1>2, <1>3 DEF IInv, Bounds
  <1>6. RowLockExclusive'
    BY <1>2, <1>3 DEF IInv, RowLockExclusive, HoldsRow
  <1>7. ClaimExclusive' /\ StepsAdvance'
    BY <1>2, <1>3 DEF IInv, ClaimExclusive, StepsAdvance, HasClaimed
  <1>8. ClaimsAreMarked'
    <2>1. \A k \in Jtis : NoSecondClaim(k) => NoSecondClaim(k)'
      BY <1>2, <1>3 DEF NoSecondClaim, MayStillClaim
    <2>2. \A m \in minted : m.jti \in Jtis
      BY DEF IInv, TypeOK, Minted
    <2>3. \A q \in Attempts : HasClaimed(q)' => HasClaimed(q) /\ q # r /\ req[q].jti \in Jtis
      BY <1>2, <1>3 DEF HasClaimed, IInv, Bounds
    <2> QED
      BY <1>2, <1>3, <2>1, <2>2, <2>3 DEF IInv, ClaimsAreMarked
  <1>9. CounterCoversGuesses'
    BY <1>2, <1>3 DEF IInv, CounterCoversGuesses
  <1> QED
    BY <1>4, <1>5, <1>6, <1>7, <1>8, <1>9 DEF IInv

\* Only one request wins the SET NX of a token's marker.
LEMMA ClaimInv ==
  ASSUME IInv, NEW r \in Attempts, Claim(r)
  PROVE  IInv'
  <1> DEFINE j == req[r].jti
             pc == IF j \in used THEN "refused" ELSE "claimed"
  <1>1. /\ req[r].pc = "verified" /\ Goto(r, pc) /\ used' = used \cup {j} /\ pc \in Steps
        /\ UNCHANGED <<clock, lastStep, unspent, pending, fails, timer, minted, guesses, outage>>
    BY DEF Claim, Steps
  <1>2. /\ j \in Jtis /\ MayStillClaim(r, j) /\ (req[r].kind \in CodeKinds => HoldsRow(r))
        /\ (pc = "claimed" => j \notin used) /\ pc \in {"refused", "claimed"}
    BY <1>1 DEF IInv, Bounds, HoldsRow, MayStillClaim
  <1>3. /\ req' \in [Attempts -> Request]
        /\ req'[r].pc = pc
        /\ \A q \in Attempts : q # r => req'[q] = req[q]
        /\ \A q \in Attempts : /\ req'[q].jti = req[q].jti /\ req'[q].kind = req[q].kind
                               /\ req'[q].step = req[q].step /\ req'[q].code = req[q].code
    <2> HIDE DEF pc
    <2> QED BY <1>1, GotoFacts DEF IInv
  <1> HIDE DEF pc
  <1>4. TypeOK'
    BY <1>1, <1>2, <1>3 DEF IInv, TypeOK
  <1>5. Bounds'
    BY <1>1, <1>2, <1>3 DEF IInv, Bounds
  <1>6. RowLockExclusive' /\ StepsAdvance'
    BY <1>1, <1>2, <1>3 DEF IInv, RowLockExclusive, StepsAdvance, HoldsRow
  <1>7. pc = "claimed" => ~NoSecondClaim(j)
    BY <1>2 DEF NoSecondClaim
  <1>8. ClaimExclusive'
    <2>1. pc = "claimed" => /\ \A q \in Attempts : HasClaimed(q) => req[q].jti # j
                            /\ \A m \in minted : m.jti # j
      BY <1>7 DEF IInv, ClaimsAreMarked
    <2> QED
      BY <1>1, <1>2, <1>3, <2>1 DEF IInv, ClaimExclusive, HasClaimed
  <1>9. ClaimsAreMarked'
    <2>1. \A k \in Jtis : NoSecondClaim(k) => NoSecondClaim(k)'
      BY <1>1, <1>2, <1>3 DEF NoSecondClaim, MayStillClaim
    <2>2. PICK k \in Jtis : k = j /\ req'[r].jti = k /\ NoSecondClaim(k)'
      BY <1>1, <1>2, <1>3 DEF NoSecondClaim
    <2>3. \A m \in minted : m.jti \in Jtis
      BY DEF IInv, TypeOK, Minted
    <2>4. \A q \in Attempts : q # r /\ HasClaimed(q)' => HasClaimed(q) /\ req[q].jti \in Jtis
      BY <1>3 DEF HasClaimed, IInv, Bounds
    <2> QED
      BY <1>1, <1>3, <2>1, <2>2, <2>3, <2>4 DEF IInv, ClaimsAreMarked
  <1>10. CounterCoversGuesses'
    BY <1>1, <1>2, <1>3 DEF IInv, CounterCoversGuesses
  <1> QED
    BY <1>4, <1>5, <1>6, <1>8, <1>9, <1>10 DEF IInv

\* The commit spends the step and the token.
LEMMA CommitInv ==
  ASSUME IInv, NEW r \in Attempts, Commit(r)
  PROVE  IInv'
  <1> DEFINE j == req[r].jti
             m0 == [attempt |-> r, jti |-> j, step |-> req[r].step, code |-> req[r].code]
  <1>1. /\ req[r].pc = "cleared" /\ Goto(r, "done") /\ minted' = minted \cup {m0}
        /\ lastStep' = (IF req[r].kind = "totp" THEN req[r].step ELSE lastStep)
        /\ UNCHANGED <<clock, unspent, pending, used, fails, timer, guesses, outage>>
    BY DEF Commit, redis
  <1>2. /\ j \in Jtis /\ HasClaimed(r) /\ (req[r].kind \in CodeKinds => HoldsRow(r))
        /\ req[r] \in Request /\ req[r].step \in Nat /\ req[r].step \in 0 .. MaxClock + 1
        /\ (req[r].kind # "totp" => req[r].step = 0)
        /\ (req[r].kind = "totp" => lastStep < req[r].step)
        /\ lastStep \in Nat /\ lastStep' \in Nat
    BY <1>1 DEF IInv, TypeOK, Bounds, StepsAdvance, HoldsRow, HasClaimed, Request
  <1>3. m0 \in Minted /\ m0.jti = j /\ m0.step = req[r].step
    BY <1>2 DEF Minted, Request
  <1> HIDE DEF m0
  <1>4. /\ req' \in [Attempts -> Request]
        /\ req'[r].pc = "done"
        /\ \A q \in Attempts : q # r => req'[q] = req[q]
        /\ \A q \in Attempts : /\ req'[q].jti = req[q].jti /\ req'[q].kind = req[q].kind
                               /\ req'[q].step = req[q].step /\ req'[q].code = req[q].code
    BY <1>1, GotoFacts DEF IInv, Steps
  <1>5. TypeOK'
    BY <1>1, <1>2, <1>3, <1>4 DEF IInv, TypeOK
  <1>6. Bounds'
    BY <1>1, <1>2, <1>3, <1>4 DEF IInv, Bounds
  <1>7. RowLockExclusive'
    BY <1>4 DEF IInv, RowLockExclusive, HoldsRow
  <1>8. ClaimExclusive'
    BY <1>1, <1>2, <1>3, <1>4 DEF IInv, ClaimExclusive, HasClaimed
  <1>9. ClaimsAreMarked'
    <2>1. \A k \in Jtis : NoSecondClaim(k) => NoSecondClaim(k)'
      BY <1>1, <1>4 DEF NoSecondClaim, MayStillClaim
    <2>2. \A m \in minted' : m.jti \in Jtis /\ NoSecondClaim(m.jti)
      BY <1>1, <1>2, <1>3 DEF IInv, TypeOK, Minted, ClaimsAreMarked
    <2>3. \A q \in Attempts : HasClaimed(q)' => HasClaimed(q) /\ req[q].jti \in Jtis
      BY <1>4 DEF HasClaimed, IInv, Bounds
    <2> QED
      BY <1>4, <2>1, <2>2, <2>3 DEF IInv, ClaimsAreMarked
  <1>10. StepsAdvance'
    <2>1. \A m \in minted : m.step \in Nat /\ m.step <= lastStep
      BY DEF IInv, TypeOK, Minted, StepsAdvance
    <2>2. lastStep <= lastStep' /\ req[r].step <= lastStep'
      BY <1>1, <1>2
    <2>3. \A m \in minted' : m.step <= lastStep'
      BY <1>1, <1>2, <1>3, <2>1, <2>2
    <2>4. \A q \in Attempts : req'[q].kind = "totp" /\ req'[q].pc \in {"verified", "claimed", "cleared"}
                                => lastStep' < req'[q].step
      <3> SUFFICES ASSUME NEW q \in Attempts, req'[q].kind = "totp",
                          req'[q].pc \in {"verified", "claimed", "cleared"}
                   PROVE  lastStep' < req'[q].step
        OBVIOUS
      <3>1. q # r /\ HoldsRow(q) /\ lastStep < req[q].step
        BY <1>4 DEF HoldsRow, CodeKinds, IInv, StepsAdvance
      <3>2. req[r].kind \notin CodeKinds
        BY <1>2, <3>1 DEF IInv, RowLockExclusive
      <3> QED
        BY <1>1, <1>4, <3>1, <3>2 DEF CodeKinds
    <2> QED
      BY <2>3, <2>4 DEF StepsAdvance
  <1>11. CounterCoversGuesses'
    BY <1>1, <1>4 DEF IInv, CounterCoversGuesses
  <1> QED
    BY <1>5, <1>6, <1>7, <1>8, <1>9, <1>10, <1>11 DEF IInv

\* Every step keeps the invariant.
LEMMA StepInv == IInv /\ [Next]_vars => IInv'
  <1> SUFFICES ASSUME IInv, [Next]_vars
               PROVE  IInv'
    OBVIOUS
  <1>1. CASE Env
    BY <1>1, EnvInv
  <1>2. ASSUME NEW r \in Attempts, RequestStep(r)
        PROVE  IInv'
    BY <1>2, SubmitInv, MovingInv, ClaimInv, CommitInv DEF RequestStep
  <1>3. CASE UNCHANGED vars
    BY <1>3 DEF vars, redis, IInv, TypeOK, Bounds, RowLockExclusive, ClaimExclusive,
      ClaimsAreMarked, StepsAdvance, CounterCoversGuesses, HoldsRow, HasClaimed, NoSecondClaim,
      MayStillClaim
  <1> QED
    BY <1>1, <1>2, <1>3 DEF Next, Env

-----------------------------------------------------------------------------
\* The inductive invariant holds for any number of tokens and requests.
THEOREM Invariance == Spec => []IInv
  BY InitInv, StepInv, PTL DEF Spec

\* Type correctness: every variable keeps its type (the counter never goes negative).
THEOREM TypeCorrect == Spec => []TypeOK
  BY Invariance, PTL DEF IInv

\* However many requests race, at most MaxFails wrong codes are tried per life
\* of the 2fa_fail: counter while Redis answers.
THEOREM GuessBound == Spec => []GuessesBounded
  <1>1. IInv => GuessesBounded
    BY DEF IInv, CounterCoversGuesses, GuessesBounded
  <1> QED
    BY <1>1, Invariance, PTL

\* The initial state opens no session.
LEMMA PromiseInit == Init => Promise!Init
  BY DEF Init, Promise!Init, Sessions

\* A commit redeems the token; no other step opens a session.
LEMMA PromiseStep == IInv /\ [Next]_vars => [Promise!Next]_Sessions
  <1> SUFFICES ASSUME IInv, [Next]_vars
               PROVE  [Promise!Next]_Sessions
    OBVIOUS
  <1>1. CASE minted' = minted
    BY <1>1 DEF Sessions
  <1>2. ASSUME NEW r \in Attempts, Commit(r)
        PROVE  Promise!Next
    <2> DEFINE m0 == [attempt |-> r, jti |-> req[r].jti, step |-> req[r].step, code |-> req[r].code]
               s0 == [attempt |-> r, jti |-> req[r].jti, step |-> req[r].step]
    <2>1. req[r].pc = "cleared" /\ minted' = minted \cup {m0}
      BY <1>2 DEF Commit
    <2>2. Sessions' = Sessions \cup {s0}
      <3>1. s0 = [attempt |-> m0.attempt, jti |-> m0.jti, step |-> m0.step]
        OBVIOUS
      <3> HIDE DEF m0, s0
      <3>2. \A x : x \in Sessions' <=> x \in Sessions \/ x = s0
        BY <2>1, <3>1, Zenon DEF Sessions
      <3> QED
        BY <3>2
    <2>3. req[r].jti \in Jtis /\ req[r].step \in 0 .. MaxClock + 1
      BY <2>1 DEF IInv, Bounds
    <2>4. \A s \in Sessions : s.jti # req[r].jti
      BY <2>1 DEF IInv, ClaimExclusive, HasClaimed, Sessions
    <2>5. req[r].step = 0 \/ \A s \in Sessions : s.step < req[r].step
      <3>1. CASE req[r].kind # "totp"
        BY <3>1 DEF IInv, Bounds
      <3>2. CASE req[r].kind = "totp"
        <4>1. lastStep \in Nat /\ req[r].step \in Nat /\ lastStep < req[r].step
          BY <2>1, <3>2 DEF IInv, TypeOK, Request, StepsAdvance
        <4>2. \A m \in minted : m.step \in Nat /\ m.step <= lastStep
          BY DEF IInv, TypeOK, Minted, StepsAdvance
        <4> QED
          BY <4>1, <4>2 DEF Sessions
      <3> QED
        BY <3>1, <3>2
    <2>6. Promise!Redeem(r, req[r].jti, req[r].step)
      BY <2>2, <2>4, <2>5 DEF Promise!Redeem
    <2> QED
      BY <2>3, <2>6 DEF Promise!Next
  <1>3. minted' = minted \/ \E r \in Attempts : Commit(r)
    BY DEF Next, vars, redis, RequestStep, Tick, CounterLapses, IssuePending, PendingExpires,
      MarkerLapses, Submit, Decode, LockRow, Guards, GuardsWithoutRedis, Verify, CountFailure,
      ArmTimer, FailureUncounted, Claim, ClearFailures, FailuresNotCleared, Abandon
  <1> QED
    BY <1>1, <1>2, <1>3

\* The two endpoints implement SignIn: one session per pending token and per
\* TOTP step, for every interleaving of requests, lapsing keys and Redis errors.
THEOREM Refinement == Spec => KeepsPromise
  <1>1. Promise!Init /\ [][Promise!Next]_Sessions => Promise!Spec
    BY DEF Promise!Spec, Sessions
  <1> QED
    BY <1>1, PromiseInit, PromiseStep, Invariance, PTL DEF Spec, KeepsPromise

-----------------------------------------------------------------------------
(* The sessions that are opened, and how they end *)

\* Rows exist only for logins that committed, and a session some UPDATE has
\* matched is never again a session still to be created.
RowsFollowLogins ==
  /\ \A d \in Devices : login[d].pc # "done" => token[d] = "none" /\ d \notin devices
  /\ \A r \in Resets : \A d \in reset[r].hit : token[d] # "none" /\ d # reset[r].by

\* Every version in circulation was read when the account had seen at least as
\* many resets.
VersionsLagEpochs ==
  /\ tv <= epoch
  /\ \A d \in Devices : login[d].tv <= epoch
  /\ \A r \in Resets : reset[r].tv <= epoch
  /\ \A a \in access : a.tv <= a.epoch /\ a.epoch <= epoch

\* Sockets a revocation is due to are open or closed, never still in handshake.
DueSocketsWereOpen == \A s \in due : socket[s].pc \in {"open", "closed"}

SessionsInv ==
  /\ SessionsTypeOK
  /\ RowsFollowLogins
  /\ EvictedSessionsStayOut
  /\ VersionsLagEpochs
  /\ DueSocketsWereOpen
  /\ RevocationReachesSockets

-----------------------------------------------------------------------------
\* The rows after an UPDATE or a DELETE are rows, and none becomes live.
LEMMA RowOperators ==
  ASSUME SessionsTypeOK, NEW D \in SUBSET Devices
  PROVE  /\ RevokeRows(D) \in [Devices -> {"none", "live", "expired", "revoked", "gone"}]
         /\ DeleteRows(D) \in [Devices -> {"none", "live", "expired", "revoked", "gone"}]
         /\ \A d \in Devices : (RevokeRows(D)[d] = "none") = (token[d] = "none")
         /\ \A d \in D : RevokeRows(D)[d] # "live" /\ DeleteRows(D)[d] = "gone"
         /\ \A d \in Devices : RevokeRows(D)[d] = "live" => token[d] = "live"
         /\ \A d \in Devices \ D : RevokeRows(D)[d] = token[d] /\ DeleteRows(D)[d] = token[d]
  BY DEF SessionsTypeOK, RevokeRows, DeleteRows

\* What a publish leaves of the inboxes and the sockets due.
LEMMA PublishFacts ==
  ASSUME SessionsTypeOK, DueSocketsWereOpen, RevocationReachesSockets,
         NEW D \in SUBSET Devices, Publish(D), UNCHANGED socket
  PROVE  /\ inbox' \in [Workers -> SUBSET (SUBSET Devices)]
         /\ due' \in SUBSET Sockets
         /\ DueSocketsWereOpen'
         /\ RevocationReachesSockets'
  <1>1. PICK reach \in SUBSET Workers :
          /\ inbox' = [w \in Workers |-> IF w \in reach THEN inbox[w] \cup {D} ELSE inbox[w]]
          /\ due' = due \cup {s \in Sockets : /\ socket[s].pc = "open"
                                              /\ socket[s].dev \in D
                                              /\ socket[s].worker \in reach}
    BY DEF Publish
  <1>2. inbox' \in [Workers -> SUBSET (SUBSET Devices)]
    BY <1>1 DEF SessionsTypeOK
  <1>3. due' \in SUBSET Sockets
    BY <1>1 DEF SessionsTypeOK
  <1>4. DueSocketsWereOpen'
    BY <1>1 DEF DueSocketsWereOpen
  <1>5. RevocationReachesSockets'
    <2>1. \A w \in Workers : inbox[w] \subseteq inbox'[w]
      BY <1>1 DEF SessionsTypeOK
    <2>2. \A s \in Sockets : socket[s].worker \in Workers
      BY DEF SessionsTypeOK, Socket
    <2> QED
      BY <1>1, <2>1, <2>2 DEF RevocationReachesSockets, SessionsTypeOK
  <1> QED
    BY <1>2, <1>3, <1>4, <1>5

\* The initial states satisfy the invariant.
LEMMA SessionsInvInit == SessionsInit => SessionsInv
  BY DEF SessionsInit, SessionsInv, SessionsTypeOK, Login, Reset, Socket, RowsFollowLogins, EvictedSessionsStayOut,
         VersionsLagEpochs, DueSocketsWereOpen, RevocationReachesSockets

\* The steps of a device's own requests keep it.
LEMMA DeviceStepInv ==
  ASSUME SessionsInv, NEW d \in Devices, DeviceStep(d)
  PROVE  SessionsInv'
  <1> USE DEF SessionsInv, RowsFollowLogins, EvictedSessionsStayOut, VersionsLagEpochs
  <1>1. CASE LoginRead(d)
    BY <1>1, RowOperators DEF LoginRead, SessionsTypeOK, Login, Access, Reset, DueSocketsWereOpen, RevocationReachesSockets, db, history
  <1>2. CASE LoginCommit(d)
    BY <1>2, RowOperators DEF LoginCommit, SessionsTypeOK, Login, Access, Reset, DueSocketsWereOpen, RevocationReachesSockets, db, history
  <1>3. CASE LoginFail(d)
    BY <1>3, RowOperators DEF LoginFail, SessionsTypeOK, Login, Access, Reset, DueSocketsWereOpen, RevocationReachesSockets, db, history
  <1>4. CASE RefreshRead(d)
    BY <1>4, RowOperators DEF RefreshRead, SessionsTypeOK, Login, Access, Reset, DueSocketsWereOpen, RevocationReachesSockets, db, history
  <1>5. CASE RefreshMint(d)
    BY <1>5, RowOperators DEF RefreshMint, SessionsTypeOK, Login, Access, Reset, DueSocketsWereOpen, RevocationReachesSockets, db, history
  <1>6. CASE RefreshRefused(d)
    BY <1>6, RowOperators DEF RefreshRefused, SessionsTypeOK, Login, Access, Reset, DueSocketsWereOpen, RevocationReachesSockets, db, history
  <1>7. CASE TokenExpires(d)
    BY <1>7, RowOperators DEF TokenExpires, SessionsTypeOK, Login, Access, Reset, DueSocketsWereOpen, RevocationReachesSockets, db, history
  <1>8. CASE Logout(d)
    <2>1. DueSocketsWereOpen' /\ RevocationReachesSockets' /\ inbox' \in [Workers -> SUBSET (SUBSET Devices)] /\ due' \in SUBSET Sockets
      BY <1>8, PublishFacts DEF Logout
    <2> QED
      BY <1>8, <2>1 DEF Logout, SessionsTypeOK, db
  <1>9. CASE CommitLogout(d)
    <2>1. SessionsTypeOK'
      BY <1>9, RowOperators DEF CommitLogout, SessionsTypeOK, history
    <2>2. RowsFollowLogins' /\ EvictedSessionsStayOut' /\ VersionsLagEpochs'
      BY <1>9, RowOperators DEF CommitLogout, SessionsTypeOK, Reset, history
    <2>3. DueSocketsWereOpen' /\ RevocationReachesSockets'
      BY <1>9 DEF CommitLogout, DueSocketsWereOpen, RevocationReachesSockets, history
    <2> QED
      BY <2>1, <2>2, <2>3
  <1>10. CASE RevokeDevice(d)
    <2>1. DueSocketsWereOpen' /\ RevocationReachesSockets' /\ inbox' \in [Workers -> SUBSET (SUBSET Devices)] /\ due' \in SUBSET Sockets
      BY <1>10, PublishFacts DEF RevokeDevice
    <2> QED
      BY <1>10, <2>1 DEF RevokeDevice, SessionsTypeOK, db
  <1>11. CASE CommitRevokeDevice(d)
    <2>1. token' = DeleteRows({d}) /\ {d} \in SUBSET Devices
      BY <1>11 DEF CommitRevokeDevice
    <2>2. d \in devices /\ devices' = devices \ {d}
      BY <1>11 DEF CommitRevokeDevice
    <2>3. UNCHANGED <<account, tv, access, login, refreshing, reset, socket, inbox, epoch, due>>
      BY <1>11 DEF CommitRevokeDevice, history
    <2>4. SessionsTypeOK'
      BY <1>11, <2>1, <2>2, <2>3, RowOperators DEF CommitRevokeDevice, SessionsTypeOK
    <2>5. RowsFollowLogins' /\ EvictedSessionsStayOut' /\ VersionsLagEpochs'
      BY <2>1, <2>2, <2>3, RowOperators DEF SessionsTypeOK, Reset
    <2>6. DueSocketsWereOpen' /\ RevocationReachesSockets'
      BY <2>3 DEF DueSocketsWereOpen, RevocationReachesSockets
    <2> QED
      BY <2>4, <2>5, <2>6
  <1>12. CASE AbortEnding(d)
    <2>1. SessionsTypeOK'
      BY <1>12 DEF AbortEnding, SessionsTypeOK, db, history
    <2>2. RowsFollowLogins' /\ EvictedSessionsStayOut' /\ VersionsLagEpochs'
      BY <1>12 DEF AbortEnding, db, history
    <2>3. DueSocketsWereOpen' /\ RevocationReachesSockets'
      BY <1>12 DEF AbortEnding, DueSocketsWereOpen, RevocationReachesSockets, history
    <2> QED
      BY <2>1, <2>2, <2>3
  <1> QED
    BY <1>1, <1>2, <1>3, <1>4, <1>5, <1>6, <1>7, <1>8, <1>9, <1>10, <1>11, <1>12 DEF DeviceStep

\* So do the steps of the requests that revoke sessions.
LEMMA ResetStepInv ==
  ASSUME SessionsInv, NEW r \in Resets, ResetStep(r)
  PROVE  SessionsInv'
  <1> USE DEF SessionsInv, RowsFollowLogins, EvictedSessionsStayOut, VersionsLagEpochs
  <1>1. CASE BeginReset(r)
    BY <1>1, RowOperators DEF BeginReset, SessionsTypeOK, Login, Access, Reset, DueSocketsWereOpen, RevocationReachesSockets, db, history
  <1>2. CASE RevokeTokens(r)
    <2> DEFINE hit == {d \in devices : token[d] = "live" /\ d # reset[r].by}
    <2>1. /\ reset' \in [Resets -> Reset]
          /\ reset'[r].pc = "revoking" /\ reset'[r].hit = hit
          /\ reset'[r].by = reset[r].by /\ reset'[r].tv = reset[r].tv
          /\ \A q \in Resets \ {r} : reset'[q] = reset[q]
      <3>1. hit \in SUBSET Devices
        BY DEF SessionsTypeOK
      <3>2. reset[r] \in Reset /\ reset \in [Resets -> Reset]
        BY DEF SessionsTypeOK
      <3>3. reset' = [reset EXCEPT ![r] = [reset[r] EXCEPT !.pc = "revoking", !.hit = hit]]
        BY <1>2 DEF RevokeTokens
      <3> HIDE DEF hit
      <3> QED
        BY ZenonT(120), <3>1, <3>2, <3>3 DEF Reset
    <2>2. /\ UNCHANGED <<account, tv, devices, token, access, login, refreshing, ending, socket,
                         inbox, epoch, due>>
      BY <1>2 DEF RevokeTokens, db, history
    <2>3. SessionsTypeOK'
      BY <2>1, <2>2 DEF SessionsTypeOK
    <2>4. RowsFollowLogins' /\ EvictedSessionsStayOut' /\ VersionsLagEpochs'
      BY <2>1, <2>2
    <2>5. DueSocketsWereOpen' /\ RevocationReachesSockets'
      BY <2>2 DEF DueSocketsWereOpen, RevocationReachesSockets
    <2> QED
      BY <2>3, <2>4, <2>5
  <1>3. CASE PublishRevoked(r)
    <2>1. /\ reset' \in [Resets -> Reset]
          /\ reset'[r] = [reset[r] EXCEPT !.pc = "published"]
          /\ \A q \in Resets : /\ reset'[q].hit = reset[q].hit /\ reset'[q].by = reset[q].by
                               /\ reset'[q].tv = reset[q].tv
                               /\ reset'[q].pc = "done" => reset[q].pc = "done"
      BY <1>3 DEF PublishRevoked, SessionsTypeOK, Reset
    <2>2. UNCHANGED <<account, tv, devices, token, access, login, refreshing, ending, socket, epoch>>
      BY <1>3 DEF PublishRevoked, db
    <2>3. /\ inbox' \in [Workers -> SUBSET (SUBSET Devices)] /\ due' \in SUBSET Sockets
          /\ DueSocketsWereOpen' /\ RevocationReachesSockets'
      <3> DEFINE D == devices \ {reset[r].by}
      <3>1. D \in SUBSET Devices
        BY DEF SessionsTypeOK
      <3>2. CASE D = {}
        <4>1. UNCHANGED <<inbox, due>>
          BY <1>3, <3>2 DEF PublishRevoked, CloseDeviceSockets
        <4> QED
          BY <2>2, <4>1 DEF SessionsTypeOK, DueSocketsWereOpen, RevocationReachesSockets
      <3>3. CASE D # {}
        <4>1. Publish(D)
          BY <1>3, <3>3 DEF PublishRevoked, CloseDeviceSockets
        <4> QED
          BY <2>2, <3>1, <4>1, PublishFacts
      <3> QED
        BY <3>2, <3>3
    <2>4. SessionsTypeOK'
      BY <2>1, <2>2, <2>3 DEF SessionsTypeOK
    <2>5. RowsFollowLogins' /\ EvictedSessionsStayOut' /\ VersionsLagEpochs'
      BY <2>1, <2>2
    <2> QED
      BY <2>3, <2>4, <2>5
  <1>4. CASE CommitReset(r)
    <2>1. /\ reset' \in [Resets -> Reset]
          /\ \A q \in Resets : /\ reset'[q].hit = reset[q].hit /\ reset'[q].by = reset[q].by
                               /\ reset'[q].tv \in {reset[q].tv, 0}
                               /\ reset'[q].pc = "done" => reset[q].pc = "done" \/ q = r
      <3>1. reset' = [reset EXCEPT ![r] = [reset[r] EXCEPT !.pc = "done", !.tv = 0]]
        BY <1>4 DEF CommitReset
      <3>2. reset \in [Resets -> Reset] /\ reset[r] \in Reset
        BY DEF SessionsTypeOK
      <3> QED
        BY Zenon, <3>1, <3>2 DEF Reset
    <2>2. UNCHANGED <<account, devices, access, login, refreshing, ending, socket, inbox, due>>
      BY <1>4 DEF CommitReset
    <2>3. token' = RevokeRows(reset[r].hit) /\ reset[r].hit \in SUBSET Devices
      BY <1>4 DEF CommitReset, SessionsTypeOK, Reset
    <2>4. tv' \in Nat /\ epoch' \in Nat /\ epoch <= epoch' /\ tv' <= epoch'
      <3>1. tv \in Nat /\ epoch \in Nat /\ reset[r].tv \in Nat
        BY DEF SessionsTypeOK, Reset
      <3>2. CASE reset[r].bump
        BY <1>4, <3>1, <3>2 DEF CommitReset
      <3>3. CASE ~reset[r].bump
        BY <1>4, <3>1, <3>3 DEF CommitReset
      <3> QED
        BY <3>2, <3>3
    <2>5. SessionsTypeOK'
      BY <2>1, <2>2, <2>3, <2>4, RowOperators DEF SessionsTypeOK
    <2>6. RowsFollowLogins'
      BY <2>1, <2>2, <2>3, RowOperators DEF SessionsTypeOK, Reset
    <2>7. EvictedSessionsStayOut'
      <3> SUFFICES ASSUME NEW q \in Resets, reset'[q].pc = "done", NEW d \in reset'[q].hit
                   PROVE  token'[d] # "live"
        BY DEF EvictedSessionsStayOut
      <3>1. d \in reset[q].hit /\ d \in Devices
        BY <2>1 DEF SessionsTypeOK, Reset
      <3>2. CASE q = r
        BY <2>3, <3>1, <3>2, RowOperators
      <3>3. CASE q # r
        BY <2>1, <2>3, <3>1, <3>3, RowOperators
      <3> QED
        BY <3>2, <3>3
    <2>8. VersionsLagEpochs'
      BY <2>1, <2>2, <2>4 DEF SessionsTypeOK, Login, Reset, Access
    <2>9. DueSocketsWereOpen' /\ RevocationReachesSockets'
      BY <2>2 DEF DueSocketsWereOpen, RevocationReachesSockets
    <2> QED
      BY <2>5, <2>6, <2>7, <2>8, <2>9
  <1>5. CASE AbortReset(r)
    BY <1>5, RowOperators DEF AbortReset, SessionsTypeOK, Login, Access, Reset, DueSocketsWereOpen, RevocationReachesSockets, db, history
  <1> QED
    BY <1>1, <1>2, <1>3, <1>4, <1>5 DEF ResetStep

\* What every step of the socket side leaves alone or keeps.
SocketSide ==
  /\ UNCHANGED <<account, tv, devices, token, access, login, refreshing, reset, ending,
                 epoch, due>>
  /\ socket' \in [Sockets -> Socket] /\ inbox' \in [Workers -> SUBSET (SUBSET Devices)]
  /\ DueSocketsWereOpen' /\ RevocationReachesSockets'

\* The handshakes, the sockets and the deliveries keep the invariant.
LEMMA SocketStepInv ==
  ASSUME SessionsInv, \/ \E s \in Sockets : SocketStep(s)
               \/ \E w \in Workers : \E D \in inbox[w] : Deliver(w, D)
  PROVE  SessionsInv'
  <1> USE DEF SocketSide, DueSocketsWereOpen, RevocationReachesSockets
  <1>1. ASSUME NEW s \in Sockets, NEW d \in Devices, IssueTicket(s, d)
        PROVE  SocketSide
    <2> DEFINE new == [socket[s] EXCEPT !.pc = "ticket", !.dev = d]
    <2>1. socket[s].pc = "idle" /\ socket' = [socket EXCEPT ![s] = new]
      BY <1>1 DEF IssueTicket
    <2>2. new \in Socket /\ socket \in [Sockets -> Socket]
      <3>1. socket \in [Sockets -> Socket] /\ socket[s] \in Socket
        BY DEF SessionsInv, SessionsTypeOK
      <3>2. d \in Devices
        OBVIOUS
      <3> QED
        BY Zenon, <3>1, <3>2 DEF Socket
    <2>3. UNCHANGED <<account, tv, devices, token, access, login, refreshing, reset, ending, inbox,
                      epoch, due>>
      BY <1>1 DEF IssueTicket, db, history
    <2>4. s \notin due
      BY <2>1 DEF SessionsInv
    <2> HIDE DEF new
    <2> QED
      BY <2>1, <2>2, <2>3, <2>4 DEF SessionsInv, SessionsTypeOK
  <1>2. ASSUME NEW s \in Sockets, CheckHandshake(s)
        PROVE  SocketSide
    BY <1>2 DEF CheckHandshake, SessionsInv, SessionsTypeOK, Socket, db, history
  <1>3. ASSUME NEW s \in Sockets, Register(s)
        PROVE  SocketSide
    BY <1>3 DEF Register, SessionsInv, SessionsTypeOK, Socket, db, history
  <1>4. ASSUME NEW s \in Sockets, Disconnect(s)
        PROVE  SocketSide
    BY <1>4 DEF Disconnect, SessionsInv, SessionsTypeOK, Socket, db, history
  <1>5. ASSUME NEW w \in Workers, NEW D \in inbox[w], Deliver(w, D)
        PROVE  SocketSide
    BY <1>5 DEF Deliver, SessionsInv, SessionsTypeOK, Socket, db, history
  <1>6. SocketSide
    BY <1>1, <1>2, <1>3, <1>4, <1>5 DEF SocketStep
  <1> QED
    BY <1>6 DEF SessionsInv, SessionsTypeOK, RowsFollowLogins, EvictedSessionsStayOut, VersionsLagEpochs

\* Deleting the account keeps it too.
LEMMA DeleteAccountInv ==
  ASSUME SessionsInv, DeleteAccount
  PROVE  SessionsInv'
  <1>1. /\ token' = DeleteRows(devices) /\ devices \in SUBSET Devices
        /\ account' = FALSE /\ devices' = {}
        /\ UNCHANGED <<tv, access, login, refreshing, reset, ending, socket, inbox, epoch, due>>
    BY DEF DeleteAccount, SessionsInv, SessionsTypeOK, history
  <1>2. SessionsTypeOK'
    BY Zenon, <1>1, RowOperators DEF SessionsInv, SessionsTypeOK
  <1>3. RowsFollowLogins' /\ EvictedSessionsStayOut'
    BY <1>1, RowOperators DEF SessionsInv, SessionsTypeOK, Reset, RowsFollowLogins, EvictedSessionsStayOut
  <1>4. VersionsLagEpochs' /\ DueSocketsWereOpen' /\ RevocationReachesSockets'
    BY <1>1 DEF SessionsInv, VersionsLagEpochs, DueSocketsWereOpen, RevocationReachesSockets
  <1> QED
    BY <1>2, <1>3, <1>4 DEF SessionsInv

\* The invariant is inductive.
LEMMA SessionsInvStep == SessionsInv /\ [SessionsNext]_sessionsVars => SessionsInv'
  <1> SUFFICES ASSUME SessionsInv, [SessionsNext]_sessionsVars PROVE SessionsInv'
    OBVIOUS
  <1>1. CASE UNCHANGED sessionsVars
    BY <1>1 DEF sessionsVars, db, history, SessionsInv, SessionsTypeOK, RowsFollowLogins, EvictedSessionsStayOut,
                VersionsLagEpochs, DueSocketsWereOpen, RevocationReachesSockets
  <1>2. CASE SessionsNext
    BY <1>2, DeviceStepInv, ResetStepInv, SocketStepInv, DeleteAccountInv DEF SessionsNext
  <1> QED
    BY <1>1, <1>2

\* The invariant holds in every reachable state.
THEOREM SessionsInvariance == SessionsSpec => []SessionsInv
  BY SessionsInvInit, SessionsInvStep, PTL DEF SessionsSpec

\* Type correctness of the session model.
THEOREM SessionsTypes == SessionsSpec => []SessionsTypeOK
  <1>1. SessionsInv => SessionsTypeOK
    BY DEF SessionsInv
  <1> QED
    BY <1>1, SessionsInvariance, PTL

\* A session that existed when a committed revoke_sessions ran its UPDATE, and
\* was not the caller's, can never refresh again.
THEOREM EvictionSticks == SessionsSpec => []EvictedSessionsStayOut
  <1>1. SessionsInv => EvictedSessionsStayOut
    BY DEF SessionsInv
  <1> QED
    BY <1>1, SessionsInvariance, PTL

\* Unless two resets computed token_version from the same read, an accepted
\* access token was minted after the last committed reset.
THEOREM FreshTokens == SessionsSpec => []AcceptedTokensAreFresh
  <1>1. SessionsInv => AcceptedTokensAreFresh
    BY DEF SessionsInv, SessionsTypeOK, Access, VersionsLagEpochs, AcceptedTokensAreFresh, Accepted
  <1> QED
    BY <1>1, SessionsInvariance, PTL

\* No session.revoked envelope is used up while a socket it is due to lives on.
THEOREM RevocationReaches == SessionsSpec => []RevocationReachesSockets
  <1>1. SessionsInv => RevocationReachesSockets
    BY DEF SessionsInv
  <1> QED
    BY <1>1, SessionsInvariance, PTL

\* A step takes a live session away only for one of the reasons listed; the
\* device that changes its own password is not among its victims.
THEOREM CallerKeepsSession == SessionsSpec => CallerKeepsItsSession
  <1>1. SessionsInv /\ [SessionsNext]_sessionsVars => [SessionEndsForAReason]_sessionsVars
    <2> SUFFICES ASSUME SessionsInv, SessionsNext, NEW d \in Devices, token[d] = "live", token'[d] # "live"
                 PROVE  \/ token'[d] = "expired"
                        \/ ending[d] # "none" /\ ending'[d] = "none"
                        \/ account /\ ~account'
                        \/ \E r \in Resets : /\ reset[r].pc = "published"
                                             /\ reset'[r].pc = "done" /\ reset[r].by # d
      BY DEF SessionEndsForAReason
    <2> USE DEF SessionsInv, SessionsTypeOK
    <2>1. ASSUME NEW e \in Devices, DeviceStep(e)
          PROVE  \/ token'[d] = "expired"
                 \/ ending[d] # "none" /\ ending'[d] = "none"
      <3>1. CASE TokenExpires(e)
        BY <3>1 DEF TokenExpires
      <3>2. CASE CommitLogout(e)
        BY <3>2 DEF CommitLogout, RevokeRows
      <3>3. CASE CommitRevokeDevice(e)
        BY <3>3 DEF CommitRevokeDevice, DeleteRows
      <3>4. CASE LoginCommit(e)
        BY <3>4 DEF LoginCommit
      <3> QED
        BY <2>1, <3>1, <3>2, <3>3, <3>4
        DEF DeviceStep, LoginRead, LoginFail, RefreshRead, RefreshMint, RefreshRefused, Logout,
            RevokeDevice, AbortEnding, db
    <2>2. ASSUME NEW r \in Resets, ResetStep(r)
          PROVE  reset[r].pc = "published" /\ reset'[r].pc = "done" /\ reset[r].by # d
      <3>1. CASE CommitReset(r)
        <4>1. token' = RevokeRows(reset[r].hit) /\ reset[r].pc = "published"
          BY <3>1 DEF CommitReset
        <4>2. reset'[r].pc = "done"
          BY <3>1 DEF CommitReset, Reset
        <4>3. d \in reset[r].hit
          BY <4>1 DEF RevokeRows
        <4> QED
          BY <4>1, <4>2, <4>3 DEF RowsFollowLogins
      <3> QED
        BY <2>2, <3>1 DEF ResetStep, BeginReset, RevokeTokens, PublishRevoked, AbortReset, db
    <2>3. ASSUME NEW s \in Sockets, SocketStep(s)
          PROVE  FALSE
      BY Zenon, <2>3 DEF SocketStep, IssueTicket, CheckHandshake, Register, Disconnect, db
    <2>4. ASSUME NEW w \in Workers, NEW D \in inbox[w], Deliver(w, D)
          PROVE  FALSE
      BY <2>4 DEF Deliver, db
    <2>5. CASE DeleteAccount
      BY <2>5 DEF DeleteAccount
    <2> QED
      BY <2>1, <2>2, <2>3, <2>4, <2>5 DEF SessionsNext
  <1> QED
    BY <1>1, SessionsInvariance, PTL DEF SessionsSpec, CallerKeepsItsSession
=============================================================================
