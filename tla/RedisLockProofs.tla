-------------------------- MODULE RedisLockProofs --------------------------
(***************************************************************************)
(* Proofs about RedisLock, for any number of instances, goroutines and     *)
(* tokens and any durations that satisfy LockAssumption.                   *)
(***************************************************************************)
EXTENDS RedisLock, TLAPS

(***************************************************************************)
(* A token nobody was granted appears nowhere.                             *)
(***************************************************************************)
FreshUnused ==
  \A t \in Tokens : grantee[t] = Nobody =>
    /\ key # t
    /\ rstate[t] = "off"
    /\ t \notin stop
    /\ missed[t] = 0
    /\ \A g \in Goroutines : tok[g] # t
    /\ \A i \in Instances : lockTok[i] # t

(***************************************************************************)
(* Between the grant and the end of the critical section a goroutine's     *)
(* token is the one it was granted.                                        *)
(***************************************************************************)
OwnToken ==
  \A g \in Goroutines : pc[g] \in {"granted", "held"} =>
    tok[g] \in Tokens /\ grantee[tok[g]] = g

(***************************************************************************)
(* Tokens never leave their instance: the redisLock object, and an Unlock  *)
(* that has taken a token out of it, hold one granted to the same process. *)
(***************************************************************************)
TokenStaysHome ==
  /\ \A i \in Instances : lockTok[i] \in Tokens =>
       grantee[lockTok[i]] \in Goroutines /\ Home[grantee[lockTok[i]]] = i
  /\ \A g \in Goroutines : pc[g] = "releasing" =>
       /\ tok[g] \in Tokens
       /\ grantee[tok[g]] \in Goroutines
       /\ Home[grantee[tok[g]]] = Home[g]

Ownership == FreshUnused /\ OwnToken /\ TokenStaysHome

(***************************************************************************)
(* The ticker and the extension in flight started together.                *)
(***************************************************************************)
TickerPhase ==
  \A t \in Tokens :
    /\ rstate[t] = "waiting" => timer[t] <= RenewInterval
    /\ rstate[t] = "extending" =>
         timer[t] + OpTimeout = RenewInterval + opLeft[t] /\ opLeft[t] <= OpTimeout

(***************************************************************************)
(* How much of the lifetime may be used up: one refresh period, or two     *)
(* after a missed refresh.                                                 *)
(***************************************************************************)
Spent(t) == IF missed[t] = 0 THEN RenewInterval ELSE RenewInterval + RenewInterval

SoundGrant(g) ==
  /\ key = tok[g]
  /\ rstate[tok[g]] = "off"
  /\ tok[g] \notin stop
  /\ missed[tok[g]] = 0
  /\ reply[g] <= OpTimeout
  /\ ttl + OpTimeout >= TTL + reply[g]

SoundHold(g) ==
  /\ key = tok[g]
  /\ lockTok[Home[g]] = tok[g]
  /\ rstate[tok[g]] # "off"
  /\ tok[g] \notin stop
  /\ missed[tok[g]] \in {0, 1}
  /\ rstate[tok[g]] = "waiting" =>
       ttl + OpTimeout + Spent(tok[g]) >= TTL + timer[tok[g]]
  /\ rstate[tok[g]] = "extending" =>
       ttl + 2 * OpTimeout + Spent(tok[g]) >= TTL + opLeft[tok[g]]

SoundRefresher(t) ==
  rstate[t] # "off" /\ t \notin stop =>
    /\ grantee[t] \in Goroutines
    /\ pc[grantee[t]] = "held"
    /\ tok[grantee[t]] = t

(***************************************************************************)
(* What holds until some refresher misses two refreshes in a row.          *)
(***************************************************************************)
Sound ==
  /\ \A g \in Goroutines :
       /\ pc[g] = "granted" => SoundGrant(g)
       /\ pc[g] = "held" => SoundHold(g)
       /\ pc[g] = "releasing" => grantee[tok[g]] = g
  /\ \A t \in Tokens : SoundRefresher(t)

\* The inductive invariant.
IInv ==
  /\ TypeOK
  /\ Ownership
  /\ TickerPhase
  /\ ~overdue => Sound

-----------------------------------------------------------------------------
(***************************************************************************)
(* The initial state has the types.                                        *)
(***************************************************************************)
LEMMA TypeInit == Init => TypeOK
<1> SUFFICES ASSUME Init PROVE TypeOK
  BY Zenon
<1>1. overdue \in BOOLEAN
  BY Zenon DEF Init
<1>2. /\ missed \in [Tokens -> 0..2]
      /\ timer \in [Tokens -> Nat]
      /\ opLeft \in [Tokens -> Nat]
      /\ reply \in [Goroutines -> Nat]
      /\ ttl \in Nat
  BY DEF Init
<1> QED
  BY <1>1, <1>2, Zenon DEF Init, TypeOK, PcStates, RefreshStates

(***************************************************************************)
(* Every step keeps the types.                                             *)
(***************************************************************************)
LEMMA TypeStep == TypeOK /\ [Next]_vars => TypeOK'
<1> SUFFICES ASSUME TypeOK, [Next]_vars PROVE TypeOK'
  BY Zenon
<1> USE LockAssumption DEF TypeOK, PcStates, RefreshStates, redisVars, callerVars, refreshVars
<1>1. ASSUME NEW g \in Goroutines, LockCertificate(g) PROVE TypeOK'
  BY <1>1, Zenon DEF LockCertificate
<1>2. ASSUME NEW g \in Goroutines, NEW t \in Tokens, SetNX(g, t) PROVE TypeOK'
  BY <1>2, Zenon DEF SetNX
<1>3. ASSUME NEW g \in Goroutines, LockError(g) PROVE TypeOK'
  BY <1>3, Zenon DEF LockError
<1>4. ASSUME NEW g \in Goroutines, LockAcquired(g) PROVE TypeOK'
  BY <1>4, Zenon DEF LockAcquired
<1>5. ASSUME NEW g \in Goroutines, UnlockNotHeld(g) PROVE TypeOK'
  BY <1>5, Zenon DEF UnlockNotHeld
<1>6. ASSUME NEW g \in Goroutines, UnlockTake(g) PROVE TypeOK'
  BY <1>6, Zenon DEF UnlockTake
<1>7. ASSUME NEW g \in Goroutines, Release(g) PROVE TypeOK'
  BY <1>7, Zenon DEF Release, ReleaseScript
<1>8. ASSUME NEW g \in Goroutines, ReleaseError(g) PROVE TypeOK'
  BY <1>8, Zenon DEF ReleaseError
<1>9. ASSUME NEW t \in Tokens, RefreshTick(t) PROVE TypeOK'
  BY <1>9, Zenon DEF RefreshTick
<1>10. ASSUME NEW t \in Tokens, RefreshStop(t) PROVE TypeOK'
  BY <1>10 DEF RefreshStop, Forget
<1>11. ASSUME NEW t \in Tokens, Extend(t) PROVE TypeOK'
  BY <1>11 DEF Extend
<1>12. ASSUME NEW t \in Tokens, ExtendLost(t) PROVE TypeOK'
  <2>1. overdue' \in BOOLEAN
    BY <1>12, Zenon DEF ExtendLost, ExtendFailed
  <2> QED
    BY <1>12, <2>1 DEF ExtendLost, ExtendFailed, Forget
<1>13. ASSUME NEW t \in Tokens, ExtendError(t) PROVE TypeOK'
  <2>1. overdue' \in BOOLEAN
    BY <1>13, Zenon DEF ExtendError, ExtendFailed
  <2> QED
    BY <1>13, <2>1 DEF ExtendError, ExtendFailed, Forget
<1>14. ASSUME NEW i \in Instances, Crash(i) PROVE TypeOK'
  BY <1>14 DEF Crash, Forget, RefreshersOf
<1>15. CASE Tick
  <2>1. \A n \in Nat : Less(n) \in Nat
    BY DEF Less
  <2> QED
    BY <1>15, <2>1, Zenon DEF Tick
<1>16. CASE UNCHANGED vars
  BY <1>16, Zenon DEF vars
<1> QED
  BY <1>1, <1>2, <1>3, <1>4, <1>5, <1>6, <1>7, <1>8, <1>9, <1>10, <1>11, <1>12,
     <1>13, <1>14, <1>15, <1>16, Zenon DEF Next, CallerStep, RefreshStep

(***************************************************************************)
(* Type correctness.                                                       *)
(***************************************************************************)
THEOREM TypeCorrect == Spec => []TypeOK
  BY TypeInit, TypeStep, PTL DEF Spec

(***************************************************************************)
(* Who owns which token, and where it may be, survives every step.         *)
(***************************************************************************)
LEMMA OwnershipStep == TypeOK /\ Ownership /\ [Next]_vars => Ownership'
<1> SUFFICES ASSUME TypeOK, Ownership, [Next]_vars PROVE Ownership'
  BY Zenon
<1> USE LockAssumption DEF TypeOK, Ownership, FreshUnused, OwnToken, TokenStaysHome, redisVars, callerVars, refreshVars
<1>1. ASSUME NEW g \in Goroutines, LockCertificate(g) PROVE Ownership'
  BY <1>1 DEF LockCertificate
<1>2. ASSUME NEW g \in Goroutines, NEW t \in Tokens, SetNX(g, t) PROVE Ownership'
  BY <1>2 DEF SetNX
<1>3. ASSUME NEW g \in Goroutines, LockError(g) PROVE Ownership'
  BY <1>3 DEF LockError
<1>4. ASSUME NEW g \in Goroutines, LockAcquired(g) PROVE Ownership'
  BY <1>4 DEF LockAcquired
<1>5. ASSUME NEW g \in Goroutines, UnlockNotHeld(g) PROVE Ownership'
  BY <1>5 DEF UnlockNotHeld
<1>6. ASSUME NEW g \in Goroutines, UnlockTake(g) PROVE Ownership'
  BY <1>6 DEF UnlockTake
<1>7. ASSUME NEW g \in Goroutines, Release(g) PROVE Ownership'
  BY <1>7 DEF Release, ReleaseScript
<1>8. ASSUME NEW g \in Goroutines, ReleaseError(g) PROVE Ownership'
  BY <1>8 DEF ReleaseError
<1>9. ASSUME NEW t \in Tokens, RefreshTick(t) PROVE Ownership'
  BY <1>9 DEF RefreshTick
<1>10. ASSUME NEW t \in Tokens, RefreshStop(t) PROVE Ownership'
  BY <1>10, Zenon DEF RefreshStop, Forget
<1>11. ASSUME NEW t \in Tokens, Extend(t) PROVE Ownership'
  BY <1>11 DEF Extend
<1>12. ASSUME NEW t \in Tokens, ExtendLost(t) PROVE Ownership'
  BY <1>12 DEF ExtendLost, ExtendFailed, Forget
<1>13. ASSUME NEW t \in Tokens, ExtendError(t) PROVE Ownership'
  BY <1>13 DEF ExtendError, ExtendFailed, Forget
<1>14. ASSUME NEW i \in Instances, Crash(i) PROVE Ownership'
  BY <1>14 DEF Crash, Forget, RefreshersOf
<1>15. CASE Tick
  BY <1>15 DEF Tick, Less, Prompt
<1>16. CASE UNCHANGED vars
  BY <1>16, Zenon DEF vars
<1> QED
  BY <1>1, <1>2, <1>3, <1>4, <1>5, <1>6, <1>7, <1>8, <1>9, <1>10, <1>11, <1>12,
     <1>13, <1>14, <1>15, <1>16, Zenon DEF Next, CallerStep, RefreshStep

(***************************************************************************)
(* The ticker and the extension it started stay in step.                   *)
(***************************************************************************)
LEMMA TickerStep == TypeOK /\ TickerPhase /\ [Next]_vars => TickerPhase'
<1> SUFFICES ASSUME TypeOK, TickerPhase, [Next]_vars PROVE TickerPhase'
  BY Zenon
<1> USE LockAssumption DEF TypeOK, TickerPhase, redisVars, callerVars, refreshVars
<1>1. ASSUME NEW g \in Goroutines, LockCertificate(g) PROVE TickerPhase'
  BY <1>1, Zenon DEF LockCertificate
<1>2. ASSUME NEW g \in Goroutines, NEW t \in Tokens, SetNX(g, t) PROVE TickerPhase'
  BY <1>2, Zenon DEF SetNX
<1>3. ASSUME NEW g \in Goroutines, LockError(g) PROVE TickerPhase'
  BY <1>3, Zenon DEF LockError
<1>4. ASSUME NEW g \in Goroutines, LockAcquired(g) PROVE TickerPhase'
  BY <1>4 DEF LockAcquired
<1>5. ASSUME NEW g \in Goroutines, UnlockNotHeld(g) PROVE TickerPhase'
  BY <1>5, Zenon DEF UnlockNotHeld
<1>6. ASSUME NEW g \in Goroutines, UnlockTake(g) PROVE TickerPhase'
  BY <1>6, Zenon DEF UnlockTake
<1>7. ASSUME NEW g \in Goroutines, Release(g) PROVE TickerPhase'
  BY <1>7, Zenon DEF Release, ReleaseScript
<1>8. ASSUME NEW g \in Goroutines, ReleaseError(g) PROVE TickerPhase'
  BY <1>8, Zenon DEF ReleaseError
<1>9. ASSUME NEW t \in Tokens, RefreshTick(t) PROVE TickerPhase'
  BY <1>9 DEF RefreshTick
<1>10. ASSUME NEW t \in Tokens, RefreshStop(t) PROVE TickerPhase'
  BY <1>10, Zenon DEF RefreshStop, Forget
<1>11. ASSUME NEW t \in Tokens, Extend(t) PROVE TickerPhase'
  BY <1>11 DEF Extend
<1>12. ASSUME NEW t \in Tokens, ExtendLost(t) PROVE TickerPhase'
  BY <1>12 DEF ExtendLost, ExtendFailed, Forget
<1>13. ASSUME NEW t \in Tokens, ExtendError(t) PROVE TickerPhase'
  BY <1>13 DEF ExtendError, ExtendFailed, Forget
<1>14. ASSUME NEW i \in Instances, Crash(i) PROVE TickerPhase'
  BY <1>14, Zenon DEF Crash, Forget, RefreshersOf
<1>15. CASE Tick
  <2> SUFFICES ASSUME NEW t \in Tokens
               PROVE  /\ rstate'[t] = "waiting" => timer'[t] <= RenewInterval
                      /\ rstate'[t] = "extending" =>
                           /\ timer'[t] + OpTimeout = RenewInterval + opLeft'[t]
                           /\ opLeft'[t] <= OpTimeout
    BY Zenon DEF TickerPhase
  <2>1. /\ rstate'[t] = rstate[t]
        /\ timer'[t] = Less(timer[t])
        /\ opLeft'[t] = Less(opLeft[t])
        /\ rstate[t] = "extending" => opLeft[t] > 0
    BY <1>15, Zenon DEF Tick, Prompt
  <2> QED
    BY <2>1 DEF Less
<1>16. CASE UNCHANGED vars
  BY <1>16, Zenon DEF vars
<1> QED
  BY <1>1, <1>2, <1>3, <1>4, <1>5, <1>6, <1>7, <1>8, <1>9, <1>10, <1>11, <1>12,
     <1>13, <1>14, <1>15, <1>16, Zenon DEF Next, CallerStep, RefreshStep

(***************************************************************************)
(* overdue never goes back to FALSE.                                       *)
(***************************************************************************)
LEMMA OverdueStep == TypeOK /\ [Next]_vars /\ ~overdue' => ~overdue
<1> SUFFICES ASSUME TypeOK, [Next]_vars, overdue PROVE overdue'
  BY Zenon
<1> QED
  BY Zenon DEF Next, CallerStep, RefreshStep, LockCertificate, SetNX, LockError, LockAcquired,
     UnlockNotHeld, UnlockTake, Release, ReleaseError, RefreshTick, RefreshStop, Extend,
     ExtendLost, ExtendError, ExtendFailed, Crash, Tick, vars, refreshVars

(***************************************************************************)
(* As long as no refresher misses twice in a row, the lock stays sound.    *)
(***************************************************************************)
LEMMA SoundStep ==
  TypeOK /\ Ownership /\ TickerPhase /\ Sound /\ ~overdue' /\ [Next]_vars => Sound'
<1> SUFFICES ASSUME TypeOK, Ownership, TickerPhase, Sound, ~overdue', [Next]_vars PROVE Sound'
  BY Zenon
<1> USE LockAssumption DEF TypeOK, Ownership, FreshUnused, OwnToken, TokenStaysHome, TickerPhase,
      Sound, SoundGrant, SoundHold, SoundRefresher, Spent, redisVars, callerVars, refreshVars
<1>1. ASSUME NEW g \in Goroutines, LockCertificate(g) PROVE Sound'
  BY <1>1 DEF LockCertificate
<1>2. ASSUME NEW g \in Goroutines, NEW t \in Tokens, SetNX(g, t) PROVE Sound'
  BY <1>2 DEF SetNX
<1>3. ASSUME NEW g \in Goroutines, LockError(g) PROVE Sound'
  BY <1>3 DEF LockError
<1>4. ASSUME NEW g \in Goroutines, LockAcquired(g) PROVE Sound'
  BY <1>4 DEF LockAcquired
<1>5. ASSUME NEW g \in Goroutines, UnlockNotHeld(g) PROVE Sound'
  BY <1>5, Zenon DEF UnlockNotHeld
<1>6. ASSUME NEW g \in Goroutines, UnlockTake(g) PROVE Sound'
  BY <1>6 DEF UnlockTake
<1>7. ASSUME NEW g \in Goroutines, Release(g) PROVE Sound'
  BY <1>7 DEF Release, ReleaseScript
<1>8. ASSUME NEW g \in Goroutines, ReleaseError(g) PROVE Sound'
  BY <1>8 DEF ReleaseError
<1>9. ASSUME NEW t \in Tokens, RefreshTick(t) PROVE Sound'
  BY <1>9 DEF RefreshTick
<1>10. ASSUME NEW t \in Tokens, RefreshStop(t) PROVE Sound'
  BY <1>10 DEF RefreshStop, Forget
<1>11. ASSUME NEW t \in Tokens, Extend(t) PROVE Sound'
  BY <1>11 DEF Extend
<1>12. ASSUME NEW t \in Tokens, ExtendLost(t) PROVE Sound'
  BY <1>12 DEF ExtendLost, ExtendFailed, Forget
<1>13. ASSUME NEW t \in Tokens, ExtendError(t) PROVE Sound'
  <2>1. /\ ttl' = ttl \/ (key = t /\ ttl' = TTL)
        /\ UNCHANGED <<key, grantee, pc, tok, reply, lockTok>>
    BY <1>13, Zenon DEF ExtendError
  <2>2. CASE t \in stop /\ Forget({t})
    BY <2>1, <2>2 DEF Forget
  <2>3. CASE t \notin stop /\ ExtendFailed(t)
    <3>1. missed[t] = 0
      BY <1>13, <2>3, Zenon DEF ExtendFailed
    <3>2. /\ rstate' = [rstate EXCEPT ![t] = "waiting"]
          /\ missed' = [missed EXCEPT ![t] = 1]
          /\ UNCHANGED <<timer, stop>>
      BY <2>3, <3>1, Zenon DEF ExtendFailed
    <3> QED
      BY <1>13, <2>1, <2>3, <3>1, <3>2 DEF ExtendError
  <2> QED
    BY <1>13, <2>2, <2>3, Zenon DEF ExtendError, ExtendFailed
<1>14. ASSUME NEW i \in Instances, Crash(i) PROVE Sound'
  BY <1>14 DEF Crash, Forget, RefreshersOf
<1>15. CASE Tick
  <2> USE <1>15 DEF Tick, Less, Prompt
  <2>1. ASSUME NEW g \in Goroutines, pc'[g] = "granted" PROVE SoundGrant(g)'
    BY <2>1
  <2>2. ASSUME NEW g \in Goroutines, pc'[g] = "held" PROVE SoundHold(g)'
    <3>1. pc[g] = "held" /\ SoundHold(g) /\ tok[g] \in Tokens
      BY <2>2, Zenon
    <3>2. CASE rstate[tok[g]] = "waiting"
      BY <3>1, <3>2
    <3>3. CASE rstate[tok[g]] = "extending"
      BY <3>1, <3>3
    <3> QED
      BY <3>1, <3>2, <3>3 DEF RefreshStates
  <2>3. ASSUME NEW g \in Goroutines, pc'[g] = "releasing" PROVE (grantee[tok[g]] = g)'
    BY <2>3, Zenon
  <2>4. ASSUME NEW t \in Tokens PROVE SoundRefresher(t)'
    BY <2>4, Zenon
  <2> QED
    BY <2>1, <2>2, <2>3, <2>4, Zenon DEF Sound
<1>16. CASE UNCHANGED vars
  BY <1>16, Zenon DEF vars
<1> QED
  BY <1>1, <1>2, <1>3, <1>4, <1>5, <1>6, <1>7, <1>8, <1>9, <1>10, <1>11, <1>12,
     <1>13, <1>14, <1>15, <1>16, Zenon DEF Next, CallerStep, RefreshStep

-----------------------------------------------------------------------------
(***************************************************************************)
(* The initial state, with a free key and no refresher, satisfies the      *)
(* inductive invariant.                                                    *)
(***************************************************************************)
LEMMA InductiveInit == Init => IInv
<1> SUFFICES ASSUME Init PROVE IInv
  BY Zenon
<1>1. TypeOK
  BY TypeInit, Zenon
<1>2. Ownership
  BY LockAssumption, Zenon DEF Init, Ownership, FreshUnused, OwnToken, TokenStaysHome
<1>3. TickerPhase
  BY Zenon DEF Init, TickerPhase
<1>4. Sound
  BY Zenon DEF Init, Sound, SoundRefresher
<1> QED
  BY <1>1, <1>2, <1>3, <1>4, Zenon DEF IInv

(***************************************************************************)
(* Every step of the lock keeps the inductive invariant.                   *)
(***************************************************************************)
LEMMA InductiveStep == IInv /\ [Next]_vars => IInv'
<1> SUFFICES ASSUME IInv, [Next]_vars PROVE IInv'
  BY Zenon
<1>1. TypeOK' /\ Ownership' /\ TickerPhase'
  BY TypeStep, OwnershipStep, TickerStep, Zenon DEF IInv
<1>2. ASSUME ~overdue' PROVE Sound'
  <2>1. ~overdue
    BY <1>2, OverdueStep, Zenon DEF IInv
  <2> QED
    BY <1>2, <2>1, SoundStep, Zenon DEF IInv
<1> QED
  BY <1>1, <1>2, Zenon DEF IInv

(***************************************************************************)
(* The inductive invariant holds in every reachable state.                 *)
(***************************************************************************)
THEOREM Invariance == Spec => []IInv
  BY InductiveInit, InductiveStep, PTL DEF Spec

(***************************************************************************)
(* Two goroutines in the critical section would both have stored the one   *)
(* token the key holds.                                                    *)
(***************************************************************************)
LEMMA InvImpliesMutex == IInv => MutexUnlessOverdue
  BY DEF IInv, MutexUnlessOverdue, InCriticalSection, Ownership, OwnToken, Sound, SoundHold

(***************************************************************************)
(* A refresher that extends the key works for the goroutine that holds it. *)
(***************************************************************************)
LEMMA InvImpliesRefresher == IInv => RefresherHasHolder
  BY Zenon DEF IInv, RefresherHasHolder, InCriticalSection, Sound, SoundRefresher

(***************************************************************************)
(* Mutual exclusion across all instances and goroutines, unless a          *)
(* refresher has missed two refreshes in a row.                            *)
(***************************************************************************)
THEOREM MutualExclusion == Spec => []MutexUnlessOverdue
  BY Invariance, InvImpliesMutex, PTL

(***************************************************************************)
(* Under the same condition every refresher that was not told to stop      *)
(* works for a goroutine in its critical section.                          *)
(***************************************************************************)
THEOREM RefreshersWork == Spec => []RefresherHasHolder
  BY Invariance, InvImpliesRefresher, PTL

(***************************************************************************)
(* No single step deletes the key of an instance other than the one that   *)
(* runs Unlock.                                                            *)
(***************************************************************************)
LEMMA ReleaseStep ==
  ASSUME IInv, [Next]_vars, NEW g \in Goroutines,
         pc[g] = "releasing", pc'[g] = "idle", key # NoToken, key' # key
  PROVE  Home[grantee[key]] = Home[g]
<1> USE LockAssumption DEF IInv, TypeOK, redisVars, callerVars, refreshVars
<1>1. ASSUME NEW h \in Goroutines, CallerStep(h) PROVE Home[grantee[key]] = Home[g]
  <2>1. h = g /\ Release(g)
    BY <1>1, Zenon DEF CallerStep, LockCertificate, SetNX, LockError, LockAcquired, UnlockNotHeld,
                UnlockTake, Release, ReleaseError
  <2>2. key = tok[g]
    BY <2>1, Zenon DEF Release, ReleaseScript
  <2> QED
    BY <2>2, Zenon DEF Ownership, TokenStaysHome
<1>2. ASSUME NEW t \in Tokens, RefreshStep(t) PROVE FALSE
  BY <1>2, Zenon DEF RefreshStep, RefreshTick, RefreshStop, Extend, ExtendLost, ExtendError
<1>3. ASSUME NEW i \in Instances, Crash(i) PROVE FALSE
  BY <1>3, Zenon DEF Crash
<1>4. CASE Tick
  BY <1>4, Zenon DEF Tick
<1>5. CASE UNCHANGED vars
  BY <1>5, Zenon DEF vars
<1> QED
  BY <1>1, <1>2, <1>3, <1>4, <1>5, Zenon DEF Next

(***************************************************************************)
(* An Unlock never deletes a key granted to another instance, even after   *)
(* its own lock expired: the release script compares the token, and tokens *)
(* do not leave their instance.                                            *)
(***************************************************************************)
THEOREM ReleaseIsLocal == Spec => ReleaseSparesOtherInstances
<1>1. IInv /\ [Next]_vars =>
        [\A g \in Goroutines :
           pc[g] = "releasing" /\ pc'[g] = "idle" /\ key # NoToken /\ key' # key
             => Home[grantee[key]] = Home[g]]_vars
  BY ReleaseStep, Zenon
<1> QED
  BY <1>1, Invariance, PTL DEF Spec, ReleaseSparesOtherInstances

-----------------------------------------------------------------------------
(***************************************************************************)
(* The refinement.  A step that leaves key, pc, tok, grantee and overdue   *)
(* alone changes nothing a caller of LeaseLock sees.                       *)
(***************************************************************************)
LEMMA LeaseStep == IInv /\ IInv' /\ [Next]_vars => [Lease!LeaseNext]_(Lease!leaseVars)
<1> SUFFICES ASSUME IInv, IInv', [Next]_vars PROVE [Lease!LeaseNext]_(Lease!leaseVars)
  BY Zenon
<1> USE LockAssumption DEF IInv, TypeOK, Inside, LeaseHolder, HasLease,
      redisVars, callerVars, refreshVars
<1> DEFINE Silent == LeaseHolder' = LeaseHolder /\ Inside' = Inside /\ (overdue' = overdue)
<1>0. Silent => [Lease!LeaseNext]_(Lease!leaseVars)
  BY Zenon DEF Lease!leaseVars
<1>1. ASSUME NEW g \in Goroutines, LockCertificate(g) PROVE Silent
  BY <1>1, Zenon DEF LockCertificate
<1>2. ASSUME NEW g \in Goroutines, NEW t \in Tokens, SetNX(g, t) PROVE Lease!Enter(g)
  BY <1>2 DEF SetNX, Lease!Enter
<1>3. ASSUME NEW g \in Goroutines, LockError(g) PROVE Lease!Leave({g})
  BY <1>3, Zenon DEF LockError, Lease!Leave, Ownership, OwnToken
<1>4. ASSUME NEW g \in Goroutines, LockAcquired(g) PROVE Silent
  BY <1>4 DEF LockAcquired
<1>5. ASSUME NEW g \in Goroutines, UnlockNotHeld(g) PROVE Lease!Leave({g})
  BY <1>5, Zenon DEF UnlockNotHeld, Lease!Leave, Ownership, OwnToken
<1>6. ASSUME NEW g \in Goroutines, UnlockTake(g) PROVE Lease!Leave({g})
  BY <1>6, Zenon DEF UnlockTake, Lease!Leave, Ownership, OwnToken
<1>7. ASSUME NEW g \in Goroutines, Release(g) PROVE Silent \/ Lease!Lapse
  BY <1>7 DEF Release, ReleaseScript, Lease!Lapse, Ownership, OwnToken, Sound
<1>8. ASSUME NEW g \in Goroutines, ReleaseError(g) PROVE Silent
  BY <1>8, Zenon DEF ReleaseError
<1>9. ASSUME NEW t \in Tokens, RefreshTick(t) PROVE Silent
  BY <1>9, Zenon DEF RefreshTick
<1>10. ASSUME NEW t \in Tokens, RefreshStop(t) PROVE Silent
  BY <1>10, Zenon DEF RefreshStop
<1>11. ASSUME NEW t \in Tokens, Extend(t) PROVE Silent
  BY <1>11, Zenon DEF Extend
<1>12. ASSUME NEW t \in Tokens, ExtendLost(t) PROVE Silent \/ Lease!Endanger
  BY <1>12, Zenon DEF ExtendLost, ExtendFailed, Lease!Endanger
<1>13. ASSUME NEW t \in Tokens, ExtendError(t) PROVE Silent \/ Lease!Endanger
  BY <1>13, Zenon DEF ExtendError, ExtendFailed, Lease!Endanger
<1>14. ASSUME NEW i \in Instances, Crash(i)
       PROVE  \E H \in SUBSET Goroutines : Lease!Leave(H)
  <2>1. PICK H \in SUBSET Goroutines : H = {g \in Inside : Home[g] = i}
    BY Zenon
  <2>2. Lease!Leave(H)
    BY <1>14, <2>1, Zenon DEF Crash, Lease!Leave, Ownership, OwnToken
  <2> QED
    BY <2>2, Zenon
<1>15. ASSUME Tick PROVE Silent \/ Lease!Lapse
  <2>1. Inside' = Inside /\ (overdue' = overdue)
    BY <1>15, Zenon DEF Tick
  <2>2. CASE key' = key
    BY <1>15, <2>1, <2>2, Zenon DEF Tick
  <2>3. CASE key' = NoToken /\ key # NoToken /\ overdue
    BY <1>15, <2>1, <2>3, Zenon DEF Tick, Lease!Lapse
  <2>4. CASE key' = NoToken /\ ~overdue
    <3>1. ASSUME NEW g \in Goroutines, g \in Inside PROVE FALSE
      <4>1. tok'[g] \in Tokens /\ key' = tok'[g]
        <5>1. ~overdue' /\ pc'[g] \in {"granted", "held"}
          BY <1>15, <2>4, <3>1, Zenon DEF Tick
        <5> QED
          BY <5>1, Zenon DEF Ownership, OwnToken, Sound, SoundGrant, SoundHold
      <4> QED
        BY <2>4, <4>1, Zenon
    <3> QED
      BY <1>15, <2>1, <3>1, Zenon DEF Tick
  <2> QED
    BY <1>15, <2>2, <2>3, <2>4, Zenon DEF Tick
<1>16. ASSUME UNCHANGED vars PROVE Silent
  BY <1>16, Zenon DEF vars
<1>17. ASSUME NEW g \in Goroutines, CallerStep(g) PROVE Silent \/ Lease!LeaseNext
  <2>1. (\E h \in Goroutines : Lease!Leave({h})) => Lease!LeaseNext
    BY Zenon DEF Lease!LeaseNext
  <2> HIDE DEF Silent
  <2> QED
    BY <1>1, <1>2, <1>3, <1>4, <1>5, <1>6, <1>7, <1>8, <1>17, <2>1, Zenon DEF CallerStep, Lease!LeaseNext
<1>18. ASSUME NEW t \in Tokens, RefreshStep(t) PROVE Silent \/ Lease!LeaseNext
  <2> HIDE DEF Silent
  <2> QED
    BY <1>9, <1>10, <1>11, <1>12, <1>13, <1>18, Zenon DEF RefreshStep, Lease!LeaseNext
<1>19. ASSUME NEW i \in Instances, Crash(i) PROVE Lease!LeaseNext
  BY <1>14, <1>19, Zenon DEF Lease!LeaseNext
<1> HIDE DEF Silent
<1> QED
  BY <1>0, <1>15, <1>16, <1>17, <1>18, <1>19, Zenon DEF Next, Lease!LeaseNext

(***************************************************************************)
(* The Redis lock implements the lease lock its callers rely on.           *)
(***************************************************************************)
THEOREM LockImplementsLease == Spec => ImplementsLease
<1>1. Init => Lease!LeaseInit
  BY LockAssumption, Zenon DEF Init, Lease!LeaseInit, Inside, LeaseHolder, HasLease
<1> QED
  BY <1>1, Invariance, LeaseStep, PTL DEF Spec, ImplementsLease, Lease!LeaseSpec
=============================================================================
