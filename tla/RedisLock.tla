------------------------------ MODULE RedisLock ------------------------------
(***************************************************************************)
(* The distributed certificate lock of certificate/store_redis.go: one     *)
(* Redis key, the Centauri instances that compete for it, the goroutines   *)
(* of each instance that call LockCertificate / UnlockCertificate, the     *)
(* redisLock object each instance shares between its goroutines, and the   *)
(* refresh goroutine that every successful Lock starts.                    *)
(*                                                                         *)
(* Time is counted in units small enough to tell the three durations of    *)
(* the code apart (redisLockTTL, redisLockRenewInterval and                *)
(* redisOperationTimeout).  All timers are relative, so no clock grows.    *)
(* The scheduler is prompt: a due timer or an expired operation is served  *)
(* before time passes on (see Tick).                                       *)
(***************************************************************************)
EXTENDS Naturals

CONSTANTS
  Instances,      \* the Centauri processes sharing one Redis server
  Goroutines,     \* the goroutines that lock the certificate
  Home,           \* the instance each goroutine runs in
  Tokens,         \* lock tokens; its size bounds how often the lock is taken
  NoToken,        \* the empty token, and the value of an absent key
  Nobody,         \* the owner of a token that was never sent to Redis
  TTL,            \* redisLockTTL
  RenewInterval,  \* redisLockRenewInterval
  OpTimeout       \* redisOperationTimeout

(***************************************************************************)
(* The last conjunct is what the code's 60s / 20s / 5s buys: two refresh   *)
(* periods and two slow operations still fit into one lifetime.            *)
(***************************************************************************)
ASSUME LockAssumption ==
  /\ Home \in [Goroutines -> Instances]
  /\ NoToken \notin Tokens
  /\ Nobody \notin Goroutines
  /\ TTL \in Nat /\ RenewInterval \in Nat /\ OpTimeout \in Nat
  /\ 0 < OpTimeout
  /\ OpTimeout < RenewInterval
  /\ 2 * OpTimeout + 2 * RenewInterval < TTL

VARIABLES
  key,      \* Redis: the token stored under the lock key, NoToken if absent
  ttl,      \* Redis: time left until the key expires, 0 if absent
  grantee,  \* the goroutine whose SETNX stored a token (history)
  pc,       \* control state of each goroutine
  tok,      \* the local variable "token" of Lock, later of Unlock
  reply,    \* time left for the reply of an applied SETNX to arrive
  lockTok,  \* per instance: redisLock.token (with it goes redisLock.stopChan)
  rstate,   \* per token: control state of the refresh goroutine
  timer,    \* per token: time left until the refresh ticker fires
  opLeft,   \* per token: time left for the extension in flight
  stop,     \* the tokens whose stop channel is closed
  missed,   \* per token: refreshes missed in a row, at most 2 (history)
  overdue   \* some refresher has missed two refreshes in a row (history)

redisVars   == <<key, ttl, grantee>>
callerVars  == <<pc, tok, reply, lockTok>>
refreshVars == <<rstate, timer, opLeft, stop, missed, overdue>>
vars        == <<redisVars, callerVars, refreshVars>>

PcStates      == {"idle", "locking", "granted", "held", "releasing"}
RefreshStates == {"off", "waiting", "extending"}

(***************************************************************************)
(* Types.                                                                  *)
(***************************************************************************)
TypeOK ==
  /\ key \in Tokens \cup {NoToken}
  /\ ttl \in Nat
  /\ grantee \in [Tokens -> Goroutines \cup {Nobody}]
  /\ pc \in [Goroutines -> PcStates]
  /\ tok \in [Goroutines -> Tokens \cup {NoToken}]
  /\ reply \in [Goroutines -> Nat]
  /\ lockTok \in [Instances -> Tokens \cup {NoToken}]
  /\ rstate \in [Tokens -> RefreshStates]
  /\ timer \in [Tokens -> Nat]
  /\ opLeft \in [Tokens -> Nat]
  /\ stop \in SUBSET Tokens
  /\ missed \in [Tokens -> 0..2]
  /\ overdue \in BOOLEAN

Init ==
  /\ key = NoToken
  /\ ttl = 0
  /\ grantee = [t \in Tokens |-> Nobody]
  /\ pc = [g \in Goroutines |-> "idle"]
  /\ tok = [g \in Goroutines |-> NoToken]
  /\ reply = [g \in Goroutines |-> 0]
  /\ lockTok = [i \in Instances |-> NoToken]
  /\ rstate = [t \in Tokens |-> "off"]
  /\ timer = [t \in Tokens |-> 0]
  /\ opLeft = [t \in Tokens |-> 0]
  /\ stop = {}
  /\ missed = [t \in Tokens |-> 0]
  /\ overdue = FALSE

-----------------------------------------------------------------------------
(***************************************************************************)
(* redisLock.Lock.  Every pass of its loop makes a new token and tries     *)
(* SETNX.  An attempt that fails, or that finds the key taken, leaves no   *)
(* trace: the goroutine stays in "locking", and SetNX stands for the next  *)
(* attempt that Redis grants.  From then on the reply has OpTimeout left   *)
(* to reach the client.                                                    *)
(***************************************************************************)
LockCertificate(g) ==
  /\ pc[g] = "idle"
  /\ pc' = [pc EXCEPT ![g] = "locking"]
  /\ UNCHANGED <<redisVars, tok, reply, lockTok, refreshVars>>

\* Mutant: a plain SET, which overwrites the token of the current holder.
SetWithoutNX(g, t) ==
  /\ pc[g] = "locking"
  /\ grantee[t] = Nobody
  /\ key' = t
  /\ ttl' = TTL
  /\ grantee' = [grantee EXCEPT ![t] = g]
  /\ pc' = [pc EXCEPT ![g] = "granted"]
  /\ tok' = [tok EXCEPT ![g] = t]
  /\ reply' = [reply EXCEPT ![g] = OpTimeout]
  /\ UNCHANGED <<lockTok, refreshVars>>

SetNX(g, t) ==
  /\ pc[g] = "locking"
  /\ key = NoToken
  /\ grantee[t] = Nobody
  /\ key' = t
  /\ ttl' = TTL
  /\ grantee' = [grantee EXCEPT ![t] = g]
  /\ pc' = [pc EXCEPT ![g] = "granted"]
  /\ tok' = [tok EXCEPT ![g] = t]
  /\ reply' = [reply EXCEPT ![g] = OpTimeout]
  /\ UNCHANGED <<lockTok, refreshVars>>

\* The grant happened but its reply was lost or came too late: Lock retries
\* with another token and the granted one is left to expire.
LockError(g) ==
  /\ pc[g] = "granted"
  /\ pc' = [pc EXCEPT ![g] = "locking"]
  /\ tok' = [tok EXCEPT ![g] = NoToken]
  /\ reply' = [reply EXCEPT ![g] = 0]
  /\ UNCHANGED <<redisVars, lockTok, refreshVars>>

\* The reply arrives: token and stopChan are replaced under l.mu, whatever
\* they were, the refresh goroutine starts and Lock returns.
LockAcquired(g) ==
  /\ pc[g] = "granted"
  /\ pc' = [pc EXCEPT ![g] = "held"]
  /\ reply' = [reply EXCEPT ![g] = 0]
  /\ lockTok' = [lockTok EXCEPT ![Home[g]] = tok[g]]
  /\ rstate' = [rstate EXCEPT ![tok[g]] = "waiting"]
  /\ timer' = [timer EXCEPT ![tok[g]] = RenewInterval]
  /\ UNCHANGED <<redisVars, tok, opLeft, stop, missed, overdue>>

(***************************************************************************)
(* redisLock.Unlock.  Under l.mu the token and stop channel of the shared  *)
(* object are taken out of it; the release script then runs on Redis.      *)
(***************************************************************************)
UnlockNotHeld(g) ==
  /\ pc[g] = "held"
  /\ lockTok[Home[g]] = NoToken
  /\ pc' = [pc EXCEPT ![g] = "idle"]
  /\ tok' = [tok EXCEPT ![g] = NoToken]
  /\ UNCHANGED <<redisVars, reply, lockTok, refreshVars>>

\* Mutant: Unlock that forgets to close the stop channel.
UnlockWithoutStop(g) ==
  /\ pc[g] = "held"
  /\ lockTok[Home[g]] # NoToken
  /\ pc' = [pc EXCEPT ![g] = "releasing"]
  /\ tok' = [tok EXCEPT ![g] = lockTok[Home[g]]]
  /\ lockTok' = [lockTok EXCEPT ![Home[g]] = NoToken]
  /\ UNCHANGED <<redisVars, reply, refreshVars>>

UnlockTake(g) ==
  /\ pc[g] = "held"
  /\ lockTok[Home[g]] # NoToken
  /\ pc' = [pc EXCEPT ![g] = "releasing"]
  /\ tok' = [tok EXCEPT ![g] = lockTok[Home[g]]]
  /\ lockTok' = [lockTok EXCEPT ![Home[g]] = NoToken]
  /\ stop' = stop \cup {lockTok[Home[g]]}
  /\ UNCHANGED <<redisVars, reply, rstate, timer, opLeft, missed, overdue>>

\* Mutant: a plain DEL.
DeleteKey(t) ==
  /\ key' = NoToken
  /\ ttl' = 0

\* The script deletes the key only while it still holds the token.
ReleaseScript(t) ==
  /\ key' = IF key = t THEN NoToken ELSE key
  /\ ttl' = IF key = t THEN 0 ELSE ttl

Release(g) ==
  /\ pc[g] = "releasing"
  /\ ReleaseScript(tok[g])
  /\ pc' = [pc EXCEPT ![g] = "idle"]
  /\ tok' = [tok EXCEPT ![g] = NoToken]
  /\ UNCHANGED <<grantee, reply, lockTok, refreshVars>>

\* Redis could not be reached: Unlock only warns and the key stays.
ReleaseError(g) ==
  /\ pc[g] = "releasing"
  /\ pc' = [pc EXCEPT ![g] = "idle"]
  /\ tok' = [tok EXCEPT ![g] = NoToken]
  /\ UNCHANGED <<redisVars, reply, lockTok, refreshVars>>

-----------------------------------------------------------------------------
\* The refresh goroutines of the tokens S end, and their locals with them.
Forget(S) ==
  /\ rstate' = [t \in Tokens |-> IF t \in S THEN "off" ELSE rstate[t]]
  /\ timer' = [t \in Tokens |-> IF t \in S THEN 0 ELSE timer[t]]
  /\ opLeft' = [t \in Tokens |-> IF t \in S THEN 0 ELSE opLeft[t]]
  /\ missed' = [t \in Tokens |-> IF t \in S THEN 0 ELSE missed[t]]
  /\ stop' = stop \ S

(***************************************************************************)
(* redisLock.refresh, the goroutine of one granted token.  Its ticker runs *)
(* on while an extension is in flight.  When both the ticker and the stop  *)
(* channel are ready, select may pick either.                              *)
(***************************************************************************)
RefreshTick(t) ==
  /\ rstate[t] = "waiting"
  /\ timer[t] = 0
  /\ rstate' = [rstate EXCEPT ![t] = "extending"]
  /\ timer' = [timer EXCEPT ![t] = RenewInterval]
  /\ opLeft' = [opLeft EXCEPT ![t] = OpTimeout]
  /\ UNCHANGED <<redisVars, callerVars, stop, missed, overdue>>

RefreshStop(t) ==
  /\ rstate[t] = "waiting"
  /\ t \in stop
  /\ Forget({t})
  /\ UNCHANGED <<redisVars, callerVars, overdue>>

\* Mutant: an extension that leaves the expiry of the key as it is.
ExtendNothing(t) ==
  /\ rstate[t] = "extending"
  /\ key = t
  /\ rstate' = [rstate EXCEPT ![t] = "waiting"]
  /\ opLeft' = [opLeft EXCEPT ![t] = 0]
  /\ missed' = [missed EXCEPT ![t] = 0]
  /\ UNCHANGED <<redisVars, callerVars, timer, stop, overdue>>

\* The extend script found the key under its own token.
Extend(t) ==
  /\ rstate[t] = "extending"
  /\ key = t
  /\ ttl' = TTL
  /\ rstate' = [rstate EXCEPT ![t] = "waiting"]
  /\ opLeft' = [opLeft EXCEPT ![t] = 0]
  /\ missed' = [missed EXCEPT ![t] = 0]
  /\ UNCHANGED <<key, grantee, callerVars, timer, stop, overdue>>

\* A failed extension: return if stop is closed, else warn and go back to the
\* select.
ExtendFailed(t) ==
  \/ /\ t \in stop
     /\ Forget({t})
     /\ UNCHANGED overdue
  \/ /\ t \notin stop
     /\ rstate' = [rstate EXCEPT ![t] = "waiting"]
     /\ opLeft' = [opLeft EXCEPT ![t] = 0]
     /\ missed' = [missed EXCEPT ![t] = IF missed[t] = 0 THEN 1 ELSE 2]
     /\ overdue' = (overdue \/ missed[t] # 0)
     /\ UNCHANGED <<timer, stop>>

\* The extend script found another token, or none, and answered 0.
ExtendLost(t) ==
  /\ rstate[t] = "extending"
  /\ key # t
  /\ ExtendFailed(t)
  /\ UNCHANGED <<redisVars, callerVars>>

\* The operation failed; if only its reply was lost, the key was extended.
ExtendError(t) ==
  /\ rstate[t] = "extending"
  /\ ExtendFailed(t)
  /\ \/ ttl' = ttl
     \/ key = t /\ ttl' = TTL
  /\ UNCHANGED <<key, grantee, callerVars>>

-----------------------------------------------------------------------------
(***************************************************************************)
(* An instance dies and is started again: its goroutines, its refreshers   *)
(* and its redisLock object are gone, the Redis key is not.                *)
(***************************************************************************)
RefreshersOf(i) == {t \in Tokens : grantee[t] # Nobody /\ Home[grantee[t]] = i}

Crash(i) ==
  /\ pc' = [g \in Goroutines |-> IF Home[g] = i THEN "idle" ELSE pc[g]]
  /\ tok' = [g \in Goroutines |-> IF Home[g] = i THEN NoToken ELSE tok[g]]
  /\ reply' = [g \in Goroutines |-> IF Home[g] = i THEN 0 ELSE reply[g]]
  /\ lockTok' = [lockTok EXCEPT ![i] = NoToken]
  /\ Forget(RefreshersOf(i))
  /\ UNCHANGED <<redisVars, overdue>>

(***************************************************************************)
(* One unit of time passes.  It may not pass over a reply or an operation  *)
(* whose time is up, a ticker that is due, or a refresher that would find  *)
(* its stop channel closed.  Redis drops the key when its time is up.      *)
(***************************************************************************)
Prompt ==
  /\ \A g \in Goroutines : pc[g] = "granted" => reply[g] > 0
  /\ \A t \in Tokens : rstate[t] = "waiting" => timer[t] > 0 /\ t \notin stop
  /\ \A t \in Tokens : rstate[t] = "extending" => opLeft[t] > 0

Less(n) == IF n = 0 THEN 0 ELSE n - 1

Tick ==
  /\ Prompt
  /\ ttl' = Less(ttl)
  /\ key' = IF ttl > 1 THEN key ELSE NoToken
  /\ reply' = [g \in Goroutines |-> Less(reply[g])]
  /\ timer' = [t \in Tokens |-> Less(timer[t])]
  /\ opLeft' = [t \in Tokens |-> Less(opLeft[t])]
  /\ UNCHANGED <<grantee, pc, tok, lockTok, rstate, stop, missed, overdue>>

-----------------------------------------------------------------------------
CallerStep(g) ==
  \/ LockCertificate(g)
  \/ \E t \in Tokens : SetNX(g, t)
  \/ LockError(g)
  \/ LockAcquired(g)
  \/ UnlockNotHeld(g)
  \/ UnlockTake(g)
  \/ Release(g)
  \/ ReleaseError(g)

RefreshStep(t) ==
  \/ RefreshTick(t)
  \/ RefreshStop(t)
  \/ Extend(t)
  \/ ExtendLost(t)
  \/ ExtendError(t)

Next ==
  \/ \E g \in Goroutines : CallerStep(g)
  \/ \E t \in Tokens : RefreshStep(t)
  \/ \E i \in Instances : Crash(i)
  \/ Tick

Spec == Init /\ [][Next]_vars

(***************************************************************************)
(* The Go runtime runs every goroutine that is not blocked, replies arrive *)
(* or time out, and time passes.  Nothing forces a caller to lock, to      *)
(* leave its critical section, or Redis to answer it with success.         *)
(***************************************************************************)
FairSpec ==
  /\ Spec
  /\ WF_vars(Tick)
  /\ \A g \in Goroutines : WF_vars(LockAcquired(g) \/ LockError(g))
  /\ \A t \in Tokens : WF_vars(RefreshStep(t))

-----------------------------------------------------------------------------
InCriticalSection(g) == pc[g] = "held"
LiveHold(t) == \E g \in Goroutines : pc[g] \in {"granted", "held"} /\ tok[g] = t

(***************************************************************************)
(* While no refresher has missed two refreshes in a row, at most one       *)
(* goroutine of all instances is between Lock and Unlock: neither crashes, *)
(* lost replies, failed releases nor a single failed refresh break the     *)
(* lock.                                                                   *)
(***************************************************************************)
MutexUnlessOverdue ==
  ~overdue =>
    \A g, h \in Goroutines :
      InCriticalSection(g) /\ InCriticalSection(h) => g = h

(***************************************************************************)
(* Under the same condition a refresh goroutine that nobody has told to    *)
(* stop works for a goroutine that is still in its critical section: no    *)
(* refresher outlives its Unlock and keeps a finished lock alive.          *)
(***************************************************************************)
RefresherHasHolder ==
  ~overdue =>
    \A t \in Tokens :
      rstate[t] # "off" /\ t \notin stop =>
        \E g \in Goroutines : InCriticalSection(g) /\ tok[g] = t

(***************************************************************************)
(* Unlock in one instance never deletes a key that a goroutine of another  *)
(* instance was granted, however late it runs and whatever expired in the  *)
(* meantime (releaseLockScript).                                           *)
(***************************************************************************)
ReleaseSparesOtherInstances ==
  [][\A g \in Goroutines :
       pc[g] = "releasing" /\ pc'[g] = "idle" /\ key # NoToken /\ key' # key
         => Home[grantee[key]] = Home[g]]_vars

(***************************************************************************)
(* A key whose owner died, gave up on the reply or failed to release it    *)
(* goes away by itself: no refresher keeps it alive (redisLockTTL).        *)
(***************************************************************************)
AbandonedKeyExpires ==
  \A t \in Tokens : (key = t /\ ~LiveHold(t)) ~> (key # t)

(***************************************************************************)
(* The comment on releaseLockScript: an Unlock does not affect "any lock   *)
(* acquired by someone else in the meantime (e.g. if our lock expired)".   *)
(* Someone else may be a goroutine of the same instance, which shares the  *)
(* redisLock object.                                                       *)
(***************************************************************************)
ReleaseSparesOthers ==
  [][\A g \in Goroutines :
       pc[g] = "releasing" /\ pc'[g] = "idle" /\ key # NoToken /\ key' # key
         => grantee[key] = g]_vars

-----------------------------------------------------------------------------
(***************************************************************************)
(* The lease as callers see it: a goroutine is inside from the grant of    *)
(* its SETNX until Unlock takes the token, and it has the lease while the  *)
(* key holds its token.                                                    *)
(***************************************************************************)
Inside == {g \in Goroutines : pc[g] \in {"granted", "held"}}

HasLease(g) == g \in Inside /\ tok[g] = key

LeaseHolder ==
  IF key \in Tokens /\ HasLease(grantee[key]) THEN grantee[key] ELSE Nobody

Lease == INSTANCE LeaseLock WITH
  Holders <- Goroutines, Nobody <- Nobody,
  lease <- LeaseHolder, inside <- Inside, endangered <- overdue

(***************************************************************************)
(* RedisLock implements LeaseLock: a lock is entered only when the lease   *)
(* is free, and a lease ends while its holder is inside only after two     *)
(* missed refreshes in a row.                                              *)
(***************************************************************************)
ImplementsLease == Lease!LeaseSpec
=============================================================================
