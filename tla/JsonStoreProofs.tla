--------------------------- MODULE JsonStoreProofs ---------------------------
(***************************************************************************)
(* Proofs about JsonStore, for any goroutines, spellings and bounds.       *)
(***************************************************************************)
EXTENDS JsonStore, SequenceProofs

Fields  == {"pc", "key", "mu", "new", "slice"}
Locking == {"lock"} \cup Inside

Typed ==
  /\ made \in 0..MaxMutex
  /\ locks \in [Spellings -> 0..made]
  /\ holder \in [Mutexes -> Workers \cup {None}]
  /\ DOMAIN g = Workers
  /\ \A w \in Workers :
       /\ DOMAIN g[w] = Fields
       /\ g[w].pc \in {"idle", "insert"} \cup Locking
       /\ g[w].pc # "idle" => g[w].key \in Spellings
       /\ g[w].pc \in Locking => g[w].mu \in 1..made

(***************************************************************************)
(* No mutex is made for two spellings.                                     *)
(***************************************************************************)
Separate ==
  /\ \A s, t \in Spellings : locks[s] = locks[t] /\ locks[s] # 0 => s = t
  /\ \A w \in Workers, t \in Spellings :
       g[w].pc \in Locking /\ g[w].mu = locks[t] => t = g[w].key

(***************************************************************************)
(* A goroutine whose spelling has one mutex waits for that mutex, and has  *)
(* it locked while it is inside.                                           *)
(***************************************************************************)
Holding ==
  \A w \in Workers :
    g[w].pc \in Locking /\ g[w].key \notin twice =>
      /\ g[w].mu = locks[g[w].key]
      /\ g[w].pc \in Inside => holder[g[w].mu] = w

LockInv == Typed /\ Separate /\ Holding

(***************************************************************************)
(* Unless it was noted, one goroutine saves at a time, and what it is      *)
(* about to write is what is in memory.                                    *)
(***************************************************************************)
OneSaves ==
  ~mixed =>
    /\ \A v, w \in Workers : g[v].pc \in Saving /\ g[w].pc \in Saving => v = w
    /\ \A w \in Workers : g[w].pc = "write" => g[w].slice = certificates

JsonInv == LockInv /\ OneSaves /\ FileMatchesMemory

-----------------------------------------------------------------------------
(***************************************************************************)
(* Where the control states lie.                                           *)
(***************************************************************************)
LEMMA Places ==
  /\ Inside \subseteq Locking /\ Saving \subseteq Inside
  /\ "lock" \in Locking \ Inside /\ "idle" \notin Locking /\ "insert" \notin Locking
  /\ "get" \in Inside \ Saving /\ "unlock" \in Inside \ Saving
  BY Zenon DEF Locking, Inside, Saving

(***************************************************************************)
(* JsonInv holds initially.                                                *)
(***************************************************************************)
LEMMA JsonInitially == Init => JsonInv
  <1> SUFFICES ASSUME Init PROVE JsonInv
      BY Zenon
  <1>1. Typed
        BY JsonAssumption, Places DEF Init, Typed, Idle, Fields
  <1>2. Separate /\ Holding /\ OneSaves /\ FileMatchesMemory
        BY Zenon DEF Init, Separate, Holding, OneSaves, FileMatchesMemory, Idle, Locking, Inside, Saving
  <1> QED
        BY <1>1, <1>2, Zenon DEF JsonInv, LockInv

(***************************************************************************)
(* A process that is started again begins like the first one.              *)
(***************************************************************************)
LEMMA RestartKeeps ==
  ASSUME JsonInv, Restart
  PROVE  JsonInv'
  <1>1. Typed'
        BY JsonAssumption, Places DEF Restart, Typed, Idle, Fields
  <1>2. Separate' /\ Holding' /\ OneSaves' /\ FileMatchesMemory'
        BY Zenon DEF Restart, Separate, Holding, OneSaves, FileMatchesMemory, Idle, Locking, Inside, Saving
  <1> QED
        BY <1>1, <1>2, Zenon DEF JsonInv, LockInv

-----------------------------------------------------------------------------
(***************************************************************************)
(* Worker w goes on within its critical section and touches no mutex.      *)
(***************************************************************************)
Proceeds(w) ==
  /\ UNCHANGED lockVars
  /\ DOMAIN g' = Workers /\ \A v \in Workers \ {w} : g'[v] = g[v]
  /\ g[w].pc \in Inside /\ g'[w].pc \in Inside
  /\ DOMAIN g'[w] = Fields /\ g'[w].key = g[w].key /\ g'[w].mu = g[w].mu

(***************************************************************************)
(* Steps inside a critical section leave the locks in order.               *)
(***************************************************************************)
LEMMA ProceedsKeeps ==
  ASSUME LockInv, NEW w \in Workers, Proceeds(w)
  PROVE  LockInv'
  <1> USE Places DEF LockInv, Typed, Proceeds, lockVars
  <1>1. \A v \in Workers : /\ g'[v].key = g[v].key /\ g'[v].mu = g[v].mu /\ DOMAIN g'[v] = Fields
                           /\ g'[v].pc \in Inside <=> g[v].pc \in Inside
                           /\ g'[v].pc = g[v].pc \/ (g'[v].pc \in Inside /\ g[v].pc \in Inside)
        BY Zenon
  <1>2. Typed'
        BY <1>1, Zenon
  <1>3. Separate'
        BY <1>1 DEF Separate
  <1>4. Holding'
        BY <1>1, Zenon DEF Holding
  <1> QED
        BY <1>2, <1>3, <1>4, Zenon

(***************************************************************************)
(* lockFor finds the mutex of the spelling, or none.                       *)
(***************************************************************************)
LEMMA LockForKeeps ==
  ASSUME LockInv, NEW w \in Workers, NEW s \in Spellings, LockFor(w, s)
  PROVE  LockInv'
  <1> USE DEF LockInv, lockVars
  <1>1. /\ DOMAIN g' = Workers /\ \A v \in Workers \ {w} : g'[v] = g[v]
        /\ DOMAIN g'[w] = Fields /\ g'[w].key = s /\ g'[w].mu = locks[s]
        /\ g'[w].pc = IF locks[s] = 0 THEN "insert" ELSE "lock"
        BY Zenon DEF LockFor, Typed, Fields
  <1>2. locks[s] \in 0..made /\ made \in Nat /\ UNCHANGED <<locks, holder, made, twice>>
        BY DEF LockFor, Typed
  <1>3. Typed'
        BY <1>1, <1>2, Places DEF Typed
  <1>4. Separate'
        BY <1>1, <1>2, Places DEF Separate, Typed
  <1>5. Holding'
        BY <1>1, <1>2, Places DEF Holding, Typed
  <1> QED
        BY <1>3, <1>4, <1>5, Zenon

(**************************************************************************)
(* A new mutex is nobody else's.  A spelling that gets its second one is in*)
(* twice from then on, and the goroutines with the first are exempt.       *)
(**************************************************************************)
LEMMA MakeMutexKeeps ==
  ASSUME LockInv, NEW w \in Workers, MakeMutex(w)
  PROVE  LockInv'
  <1> USE DEF LockInv
  <1> DEFINE s == g[w].key
  <1>1. /\ DOMAIN g' = Workers /\ \A v \in Workers \ {w} : g'[v] = g[v]
        /\ DOMAIN g'[w] = Fields /\ g'[w].key = s /\ g'[w].mu = made + 1 /\ g'[w].pc = "lock"
        BY Zenon DEF MakeMutex, Typed, Fields
  <1>2. s \in Spellings /\ made \in Nat /\ made' = made + 1 /\ made' \in 0..MaxMutex
        BY JsonAssumption DEF MakeMutex, Typed
  <1>3. locks' = [locks EXCEPT ![s] = made + 1] /\ UNCHANGED holder
        BY Zenon DEF MakeMutex
  <1>4. twice' = IF locks[s] = 0 THEN twice ELSE twice \cup {s}
        BY Zenon DEF MakeMutex
  <1>5. \A t \in Spellings : locks[t] \in 0..made
        BY Zenon DEF Typed
  <1> HIDE DEF s
  <1>6. Typed'
        BY <1>1, <1>2, <1>3, <1>5 DEF Typed, Locking
  <1>7. Separate'
        BY <1>1, <1>2, <1>3, <1>5 DEF Separate, Typed, Locking
  <1>8. Holding'
    <2> SUFFICES ASSUME NEW v \in Workers, g'[v].pc \in Locking, g'[v].key \notin twice'
                 PROVE  g'[v].mu = locks'[g'[v].key] /\ (g'[v].pc \in Inside => holder'[g'[v].mu] = v)
        BY Zenon DEF Holding
    <2>1. CASE v = w
          BY <1>1, <1>2, <1>3, <2>1, Places, Zenon DEF Typed
    <2>2. CASE v # w
      <3>1. g'[v] = g[v] /\ g[v].key \notin twice /\ g[v].mu = locks[g[v].key] /\ g[v].mu # 0
            BY <1>1, <1>2, <1>4, <2>2 DEF Holding, Typed
      <3>2. g[v].key # s
            BY <1>1, <1>4, <2>2, <3>1, Zenon
      <3> QED
            BY <1>3, <3>1, <3>2 DEF Holding, Typed
    <2> QED
          BY <2>1, <2>2, Zenon
  <1> QED
        BY <1>6, <1>7, <1>8, Zenon

(**************************************************************************)
(* A goroutine locks a mutex nobody has locked, so it evicts nobody.       *)
(**************************************************************************)
LEMMA MutexLockKeeps ==
  ASSUME LockInv, NEW w \in Workers, Lock(w)
  PROVE  LockInv'
  <1> USE DEF LockInv
  <1> DEFINE m == g[w].mu
  <1>1. /\ DOMAIN g' = Workers /\ \A v \in Workers \ {w} : g'[v] = g[v]
        /\ DOMAIN g'[w] = Fields /\ g'[w].key = g[w].key /\ g'[w].mu = m
        /\ g[w].pc = "lock" /\ g'[w].pc = "get"
        BY Zenon DEF Lock, Typed, Fields
  <1>2. g[w].mu = m /\ m \in Mutexes /\ holder[m] = None /\ holder' = [holder EXCEPT ![m] = w]
        BY JsonAssumption DEF Lock, Typed, Locking, Mutexes
  <1>3. UNCHANGED <<locks, made, twice>>
        BY Zenon DEF Lock
  <1> HIDE DEF m
  <1>4. Typed'
        BY <1>1, <1>2, <1>3, Places, Zenon DEF Typed
  <1>5. Separate'
        BY <1>1, <1>2, <1>3, Places DEF Separate, Typed
  <1>6. Holding'
    <2>1. \A v \in Workers \ {w} : g[v].pc \in Inside /\ g[v].key \notin twice => g[v].mu # m
          BY <1>2, JsonAssumption, Places DEF Holding
    <2>2. \A v \in Workers : g[v].pc \in Locking => g[v].mu \in Mutexes
          BY JsonAssumption DEF Typed, Mutexes
    <2> QED
          BY <1>1, <1>2, <1>3, <2>1, <2>2, Places DEF Holding, Typed
  <1> QED
        BY <1>4, <1>5, <1>6, Zenon

(**************************************************************************)
(* The mutex that lockFor finds for the unlocking goroutine is locked by no*)
(* other goroutine whose spelling has one mutex.                           *)
(**************************************************************************)
LEMMA UnlockKeeps ==
  ASSUME LockInv, NEW w \in Workers, g[w].pc = "unlock",
         holder' = [holder EXCEPT ![locks[g[w].key]] = None], g' = [g EXCEPT ![w] = Idle],
         UNCHANGED <<locks, made, twice>>
  PROVE  LockInv'
  <1> USE DEF LockInv
  <1> DEFINE s == g[w].key
  <1>1. /\ DOMAIN g' = Workers /\ \A v \in Workers \ {w} : g'[v] = g[v]
        /\ DOMAIN g'[w] = Fields /\ g'[w].pc = "idle"
        BY Zenon DEF Typed, Fields, Idle
  <1>2. s \in Spellings /\ "unlock" \in Inside /\ "idle" \notin Locking /\ Inside \subseteq Locking
        BY Places, Zenon DEF Typed
  <1> HIDE DEF s
  <1>3. Typed'
        BY <1>1, <1>2, Places, Zenon DEF Typed
  <1>4. Separate'
        BY <1>1, <1>2 DEF Separate
  <1>5. Holding'
    <2> SUFFICES ASSUME NEW v \in Workers, g'[v].pc \in Locking, g'[v].key \notin twice'
                 PROVE  g'[v].mu = locks'[g'[v].key] /\ (g'[v].pc \in Inside => holder'[g'[v].mu] = v)
        BY Zenon DEF Holding
    <2>1. v # w /\ g'[v] = g[v] /\ g[v].mu = locks[g[v].key] /\ (g[v].pc \in Inside => holder[g[v].mu] = v)
          BY <1>1, <1>2, Zenon DEF Holding
    <2>2. ASSUME g[v].pc \in Inside PROVE locks[s] # g[v].mu
      <3>1. CASE g[v].key = s
            BY <1>2, <2>1, <2>2, <3>1 DEF Holding, s
      <3>2. CASE g[v].key # s
            BY <1>2, <2>1, <2>2, <3>2, Zenon DEF Separate
      <3> QED
            BY <3>1, <3>2, Zenon
    <2> QED
          BY <2>1, <2>2, <1>2 DEF Typed, s
  <1> QED
        BY <1>3, <1>4, <1>5, Zenon

-----------------------------------------------------------------------------
(***************************************************************************)
(* Worker w moves on; of the steps that save, only one that finds nobody   *)
(* else saving leaves mixed FALSE.                                         *)
(***************************************************************************)
LEMMA SavesApart ==
  ASSUME JsonInv, NEW w \in Workers, DOMAIN g' = Workers,
         \A v \in Workers \ {w} : g'[v] = g[v], ~mixed' => ~mixed,
         g'[w].pc \notin Saving \/ g[w].pc \in Saving
           \/ (~mixed' => \A v \in Workers \ {w} : g[v].pc \notin Saving),
         ~mixed' => \/ certificates' = certificates
                    \/ \A v \in Workers \ {w} : g[v].pc \notin Saving,
         ~mixed' /\ g'[w].pc = "write" => g'[w].slice = certificates'
  PROVE  OneSaves'
  <1> SUFFICES ASSUME ~mixed' PROVE
         /\ \A u, v \in Workers : g'[u].pc \in Saving /\ g'[v].pc \in Saving => u = v
         /\ \A v \in Workers : g'[v].pc = "write" => g'[v].slice = certificates'
      BY Zenon DEF OneSaves
  <1>1. /\ \A u, v \in Workers : g[u].pc \in Saving /\ g[v].pc \in Saving => u = v
        /\ \A v \in Workers : g[v].pc = "write" => g[v].slice = certificates
        BY Zenon DEF JsonInv, OneSaves
  <1>2. "write" \in Saving
        BY Zenon DEF Saving
  <1> QED
        BY <1>1, <1>2

(***************************************************************************)
(* The steps of LockCertificate keep JsonInv.                              *)
(***************************************************************************)
LEMMA LockStepKeeps ==
  ASSUME JsonInv, NEW w \in Workers,
         (\E s \in Spellings : LockFor(w, s)) \/ MakeMutex(w) \/ Lock(w)
  PROVE  JsonInv'
  <1>1. LockInv'
        BY LockForKeeps, MakeMutexKeeps, MutexLockKeeps, Zenon DEF JsonInv
  <1>2. /\ DOMAIN g' = Workers /\ \A v \in Workers \ {w} : g'[v] = g[v]
        /\ g[w].pc \notin Saving /\ g'[w].pc \notin Saving
        /\ UNCHANGED <<up, certificates, file, mixed, failed>>
    <2>1. CASE \E s \in Spellings : LockFor(w, s)
      <3>1. PICK s \in Spellings : LockFor(w, s)
            BY <2>1, Zenon
      <3>2. /\ DOMAIN g' = Workers /\ \A v \in Workers \ {w} : g'[v] = g[v]
            /\ g'[w].pc = "insert" \/ g'[w].pc = "lock"
            BY <3>1, Zenon DEF JsonInv, LockInv, Typed, LockFor, Fields
      <3> QED
            BY <3>1, <3>2, Zenon DEF LockFor, Saving
    <2>2. CASE MakeMutex(w)
          BY <2>2, Zenon DEF JsonInv, LockInv, Typed, MakeMutex, Fields, Saving
    <2>3. CASE Lock(w)
          BY <2>3, Zenon DEF JsonInv, LockInv, Typed, Lock, Fields, Saving
    <2> QED
          BY <2>1, <2>2, <2>3, Zenon
  <1>3. g'[w].pc # "write"
        BY <1>2, Zenon DEF Saving
  <1>4. OneSaves'
        BY <1>2, <1>3, SavesApart, Zenon
  <1>5. FileMatchesMemory'
        BY <1>2, Zenon DEF JsonInv, FileMatchesMemory
  <1> QED
        BY <1>1, <1>4, <1>5, Zenon DEF JsonInv

(**************************************************************************)
(* UnlockCertificate keeps JsonInv, also where it ends the process.        *)
(**************************************************************************)
LEMMA UnlockStepKeeps ==
  ASSUME JsonInv, NEW w \in Workers, Unlock(w)
  PROVE  JsonInv'
  <1>1. CASE Restart
        BY <1>1, RestartKeeps, Zenon
  <1>2. CASE /\ holder' = [holder EXCEPT ![locks[g[w].key]] = None] /\ g' = [g EXCEPT ![w] = Idle]
             /\ UNCHANGED <<up, certificates, file, locks, made, twice, caVars, mixed, failed>>
    <2>1. g[w].pc = "unlock"
          BY Zenon DEF Unlock
    <2>2. LockInv'
          BY <1>2, <2>1, UnlockKeeps, Zenon DEF JsonInv
    <2>3. /\ DOMAIN g' = Workers /\ \A v \in Workers \ {w} : g'[v] = g[v]
          /\ g[w].pc \notin Saving /\ g'[w].pc \notin Saving /\ g'[w].pc # "write"
          BY <1>2, <2>1, Zenon DEF JsonInv, LockInv, Typed, Idle, Saving
    <2>4. OneSaves'
          BY <1>2, <2>3, SavesApart, Zenon
    <2>5. FileMatchesMemory'
          BY <1>2, <2>3, Zenon DEF JsonInv, FileMatchesMemory
    <2> QED
          BY <2>2, <2>4, <2>5, Zenon DEF JsonInv
  <1> QED
        BY <1>1, <1>2, Zenon DEF Unlock

(**************************************************************************)
(* GetCertificate and a failing supplier keep JsonInv: a goroutine that    *)
(* starts to save while another one does is noted in mixed.                *)
(**************************************************************************)
LEMMA LookupKeeps ==
  ASSUME JsonInv, NEW w \in Workers, GetCertificate(w) \/ ObtainError(w)
  PROVE  JsonInv'
  <1>1. g[w].pc = "get" /\ UNCHANGED <<up, certificates, file, lockVars, failed>>
        BY Zenon DEF GetCertificate, ObtainError
  <1>2. /\ DOMAIN g' = Workers /\ \A v \in Workers \ {w} : g'[v] = g[v]
        /\ DOMAIN g'[w] = Fields /\ g'[w].key = g[w].key /\ g'[w].mu = g[w].mu
        BY DEF JsonInv, LockInv, Typed, Fields, GetCertificate, ObtainError
  <1>3. \/ g'[w].pc = "unlock" /\ mixed' = mixed
        \/ /\ g'[w].pc = "remove"
           /\ mixed' = (mixed \/ \E v \in Workers \ {w} : g[v].pc \in Saving)
        BY Zenon DEF JsonInv, LockInv, Typed, Fields, GetCertificate, ObtainError
  <1>4. LockInv'
    <2>1. Proceeds(w)
          BY <1>1, <1>2, <1>3, Places, Zenon DEF Proceeds, Saving
    <2> QED
          BY <2>1, ProceedsKeeps, Zenon DEF JsonInv
  <1>5. OneSaves'
    <2>1. ~mixed' => ~mixed
          BY <1>3, Zenon
    <2>2. \/ g'[w].pc \notin Saving
          \/ ~mixed' => \A v \in Workers \ {w} : g[v].pc \notin Saving
          BY <1>3, Places, Zenon
    <2>3. g'[w].pc # "write"
          BY <1>3, Zenon
    <2> QED
          BY <1>1, <1>2, <2>1, <2>2, <2>3, SavesApart, Zenon
  <1>6. FileMatchesMemory'
    <2>1. CASE g'[w].pc = "unlock" /\ mixed' = mixed
          BY <1>1, <1>2, <2>1, Places, Zenon DEF JsonInv, FileMatchesMemory
    <2>2. CASE g'[w].pc = "remove"
          BY <2>2, Zenon DEF FileMatchesMemory, Saving
    <2> QED
          BY <1>3, <2>1, <2>2, Zenon
  <1> QED
        BY <1>4, <1>5, <1>6, Zenon DEF JsonInv

(**************************************************************************)
(* The steps of SaveCertificate keep JsonInv: while nobody else saves, what*)
(* is written is what the pruning left in memory.                          *)
(**************************************************************************)
LEMMA SaveKeeps ==
  ASSUME JsonInv, NEW w \in Workers,
         \/ RemoveCertificate(w) \/ AppendLoad(w) \/ AppendStore(w)
         \/ Save(w) \/ SaveError(w) \/ Write(w)
  PROVE  JsonInv'
  <1> USE DEF RemoveCertificate, AppendLoad, AppendStore, Save, SaveError, Write
  <1>1. g[w].pc \in Saving /\ UNCHANGED <<up, lockVars, mixed>>
        BY Zenon DEF Saving
  <1>2. /\ DOMAIN g' = Workers /\ \A v \in Workers \ {w} : g'[v] = g[v]
        /\ DOMAIN g'[w] = Fields /\ g'[w].key = g[w].key /\ g'[w].mu = g[w].mu
        BY DEF JsonInv, LockInv, Typed, Fields
  <1>3. \/ g'[w].pc \in {"append", "appendStore", "save"}
        \/ g'[w].pc = "write" /\ g'[w].slice = certificates'
        \/ g'[w].pc = "unlock" /\ failed' = TRUE
        \/ /\ g[w].pc = "write" /\ g'[w].pc = "unlock" /\ certificates' = certificates
           /\ (~mixed => file' = g[w].slice)
        BY DEF JsonInv, LockInv, Typed, Fields
  <1> USE DEF JsonInv
  <1>4. LockInv'
    <2>1. g[w].pc \in Inside /\ g'[w].pc \in Inside
          BY <1>1, <1>3, Places, Zenon DEF Saving
    <2>2. Proceeds(w)
          BY <1>1, <1>2, <2>1, Zenon DEF Proceeds
    <2> QED
          BY <2>2, ProceedsKeeps, Zenon
  <1> HIDE DEF RemoveCertificate, AppendLoad, AppendStore, Save, SaveError, Write
  <1>5. OneSaves'
    <2>1. ~mixed' => \A v \in Workers \ {w} : g[v].pc \notin Saving
          BY <1>1, Zenon DEF OneSaves
    <2>2. g'[w].pc = "write" => g'[w].slice = certificates'
          BY <1>3, Zenon
    <2> QED
          BY <1>1, <1>2, <2>1, <2>2, SavesApart, Zenon
  <1>6. FileMatchesMemory'
    <2>1. CASE g'[w].pc \in {"append", "appendStore", "save", "write"}
          BY <2>1, Zenon DEF FileMatchesMemory, Saving
    <2>2. CASE failed' = TRUE
          BY <2>2, Zenon DEF FileMatchesMemory
    <2>3. CASE /\ g[w].pc = "write" /\ certificates' = certificates
               /\ (~mixed => file' = g[w].slice)
          BY <1>1, <2>3, Zenon DEF FileMatchesMemory, OneSaves
    <2> QED
          BY <1>3, <2>1, <2>2, <2>3, Zenon
  <1> QED
        BY <1>4, <1>5, <1>6, Zenon

-----------------------------------------------------------------------------
(***************************************************************************)
(* JsonInv holds in every reachable state: the locks of the spellings are  *)
(* apart, those who are inside hold them, and one goroutine at a time      *)
(* saves what is in memory.                                                *)
(***************************************************************************)
THEOREM JsonInvariant == Spec => []JsonInv
  <1>1. JsonInv /\ [Next]_vars => JsonInv'
    <2> SUFFICES ASSUME JsonInv, [Next]_vars PROVE JsonInv'
        BY Zenon
    <2>1. ASSUME NEW w \in Workers, Step(w) PROVE JsonInv'
          BY <2>1, LockStepKeeps, UnlockStepKeeps, LookupKeeps, SaveKeeps, Zenon DEF Step
    <2>2. CASE Crash
          BY <2>2, RestartKeeps, Zenon DEF Crash
    <2>3. CASE Expire \/ UNCHANGED vars
      <3>1. UNCHANGED <<up, certificates, file, lockVars, g, mixed, failed>>
            BY <2>3, Zenon DEF Expire, vars
      <3> QED
            BY <3>1, Zenon DEF JsonInv, LockInv, Typed, Separate, Holding, OneSaves, FileMatchesMemory, lockVars
    <2> QED
          BY <2>1, <2>2, <2>3, Zenon DEF Next
  <1> QED
        BY <1>1, JsonInitially, PTL DEF Spec

(***************************************************************************)
(* Unless two goroutines made a mutex for a spelling at once, one at a     *)
(* time is between LockCertificate and UnlockCertificate of it, and the    *)
(* mutex it unlocks is the one it locked.                                  *)
(***************************************************************************)
THEOREM OneInsidePerSpelling == Spec => []ExcludesPerSpelling
  <1>1. JsonInv => ExcludesPerSpelling
        BY Places DEF JsonInv, LockInv, Holding, ExcludesPerSpelling
  <1> QED
        BY <1>1, JsonInvariant, PTL

(***************************************************************************)
(* Unless saves overlapped or the last one failed, the file holds what is  *)
(* in memory whenever nobody is saving.                                    *)
(***************************************************************************)
THEOREM FileHoldsMemory == Spec => []FileMatchesMemory
  <1>1. JsonInv => FileMatchesMemory
        BY Zenon DEF JsonInv
  <1> QED
        BY <1>1, JsonInvariant, PTL

-----------------------------------------------------------------------------
(***************************************************************************)
(* What is in memory, in the file and with a goroutine are certificates,   *)
(* also while goroutines append to each other's slices; and the spelling a *)
(* goroutine has taken a mutex for stays in the map.                       *)
(***************************************************************************)
Store ==
  /\ up \in BOOLEAN /\ mixed \in BOOLEAN /\ failed \in BOOLEAN
  /\ certificates \in Seq(Certs)
  /\ file = Torn \/ file \in Seq(Certs)
  /\ serial \in 0..MaxSerial /\ expired \subseteq 0..serial
  /\ twice \subseteq Spellings

\* What a goroutine has at hand between LockCertificate and UnlockCertificate.
Local(w) ==
  /\ g[w].pc \in Locking => locks[g[w].key] # 0
  /\ g[w].pc \in Saving => g[w].new \in Certs
  /\ g[w].new # None => g[w].new \in Certs /\ g[w].pc \in Saving \cup {"unlock"}
  /\ g[w].slice \in Seq(Certs)

\* The inductive invariant behind the types.
CertInv == JsonInv /\ Store /\ \A w \in Workers : Local(w)

(***************************************************************************)
(* CertInv holds when the store is opened.                                 *)
(***************************************************************************)
LEMMA CertInitially == Init => CertInv
  <1> SUFFICES ASSUME Init PROVE CertInv
      BY Zenon
  <1>1. \A n \in Names : <<[name |-> n, serial |-> 0]>> \in Seq(Certs)
        BY JsonAssumption DEF Certs
  <1>2. <<>> \in Seq(Certs) /\ 0 \in 0..MaxSerial
        BY JsonAssumption
  <1>3. Store
        BY <1>1, <1>2, Zenon DEF Init, Store
  <1>4. \A w \in Workers : Local(w)
        BY <1>2, Zenon DEF Init, Local, Idle, Locking, Inside, Saving
  <1> QED
        BY <1>3, <1>4, JsonInitially, Zenon DEF CertInv

(***************************************************************************)
(* A restart reads back certificates: the file holds nothing else.         *)
(***************************************************************************)
LEMMA RestartStore ==
  ASSUME CertInv, Restart
  PROVE  Store' /\ \A w \in Workers : Local(w)'
  <1>1. <<>> \in Seq(Certs)
        OBVIOUS
  <1>2. Store'
        BY <1>1, Zenon DEF CertInv, Restart, Store, caVars
  <1>3. \A w \in Workers : Local(w)'
        BY <1>1, Zenon DEF Restart, Local, Idle, Locking, Inside, Saving
  <1> QED
        BY <1>2, <1>3, Zenon

(* Worker w moves and no other; entries of the map do not go away. *)
Others(w) ==
  /\ DOMAIN g' = Workers /\ \A v \in Workers \ {w} : g'[v] = g[v]
  /\ \A s \in Spellings : locks[s] # 0 => locks'[s] # 0

(***************************************************************************)
(* A step of one goroutine leaves alone what the others have at hand.      *)
(***************************************************************************)
LEMMA OthersLocal ==
  ASSUME CertInv, NEW w \in Workers, Others(w), Local(w)'
  PROVE  \A v \in Workers : Local(v)'
  <1> SUFFICES ASSUME NEW v \in Workers, v # w PROVE Local(v)'
      BY Zenon
  <1>1. Local(v) /\ g'[v] = g[v] /\ (g[v].pc # "idle" => g[v].key \in Spellings)
        BY Zenon DEF CertInv, Others, JsonInv, LockInv, Typed
  <1>2. g[v].pc \in Locking => g[v].key \in Spellings
        BY <1>1, Places, Zenon
  <1> QED
        BY <1>1, <1>2, Zenon DEF Local, Others

(***************************************************************************)
(* Taking the mutex of a subject changes no certificate.                   *)
(***************************************************************************)
LEMMA LockStore ==
  ASSUME CertInv, NEW w \in Workers,
         (\E s \in Spellings : LockFor(w, s)) \/ MakeMutex(w) \/ Lock(w)
  PROVE  Store' /\ \A v \in Workers : Local(v)'
  <1>1. CASE \E s \in Spellings : LockFor(w, s)
    <2>1. PICK s \in Spellings : LockFor(w, s)
          BY <1>1, Zenon
    <2>2. /\ DOMAIN g' = Workers /\ \A v \in Workers \ {w} : g'[v] = g[v]
          /\ g'[w].key = s /\ g'[w].new = g[w].new /\ g'[w].slice = g[w].slice
          /\ g'[w].pc = IF locks[s] = 0 THEN "insert" ELSE "lock"
          BY <2>1, Zenon DEF LockFor, CertInv, JsonInv, LockInv, Typed, Fields
    <2>3. g[w].pc = "idle" /\ UNCHANGED <<up, certificates, file, locks, holder, made, twice, serial, expired, mixed, failed>>
          BY <2>1, Zenon DEF LockFor, lockVars, caVars
    <2>4. Local(w)'
          BY <2>2, <2>3, Zenon DEF CertInv, Local, Locking, Inside, Saving
    <2>5. Others(w) /\ Store'
          BY <2>2, <2>3, Zenon DEF Others, CertInv, Store
    <2> QED
        BY <2>4, <2>5, OthersLocal, Zenon
  <1>2. CASE MakeMutex(w)
    <2>1. /\ DOMAIN g' = Workers /\ \A v \in Workers \ {w} : g'[v] = g[v]
          /\ g'[w].key = g[w].key /\ g'[w].new = g[w].new /\ g'[w].slice = g[w].slice /\ g'[w].pc = "lock"
          BY <1>2, Zenon DEF MakeMutex, CertInv, JsonInv, LockInv, Typed, Fields
    <2>2. g[w].pc = "insert" /\ UNCHANGED <<up, certificates, file, serial, expired, mixed, failed>>
          BY <1>2, Zenon DEF MakeMutex, caVars
    <2>3. locks' = [locks EXCEPT ![g[w].key] = made + 1] /\ DOMAIN locks = Spellings /\ g[w].key \in Spellings
          BY <1>2, <2>2, Zenon DEF MakeMutex, CertInv, JsonInv, LockInv, Typed
    <2>4. made + 1 # 0
          BY JsonAssumption DEF CertInv, JsonInv, LockInv, Typed
    <2>5. Local(w)'
          BY <2>1, <2>2, <2>3, <2>4, Zenon DEF CertInv, Local, Locking, Inside, Saving
    <2>6. Others(w)
          BY <2>1, <2>3, <2>4, Zenon DEF Others
    <2>7. twice' \subseteq Spellings
          BY <1>2, <2>3, Zenon DEF MakeMutex, CertInv, Store
    <2>8. Store'
          BY <2>2, <2>7, Zenon DEF CertInv, Store
    <2> QED
        BY <2>5, <2>6, <2>8, OthersLocal, Zenon
  <1>3. CASE Lock(w)
    <2>1. /\ DOMAIN g' = Workers /\ \A v \in Workers \ {w} : g'[v] = g[v]
          /\ g'[w].key = g[w].key /\ g'[w].new = g[w].new /\ g'[w].slice = g[w].slice /\ g'[w].pc = "get"
          BY <1>3, Zenon DEF Lock, CertInv, JsonInv, LockInv, Typed, Fields
    <2>2. g[w].pc = "lock" /\ UNCHANGED <<up, certificates, file, locks, twice, serial, expired, mixed, failed>>
          BY <1>3, Zenon DEF Lock, caVars
    <2>3. Local(w)'
          BY <2>1, <2>2, Zenon DEF CertInv, Local, Locking, Inside, Saving
    <2>4. Others(w) /\ Store'
          BY <2>1, <2>2, Zenon DEF Others, CertInv, Store
    <2> QED
        BY <2>3, <2>4, OthersLocal, Zenon
  <1> QED
      BY <1>1, <1>2, <1>3, Zenon

(***************************************************************************)
(* Giving the mutex back changes no certificate.                           *)
(***************************************************************************)
LEMMA UnlockStore ==
  ASSUME CertInv, NEW w \in Workers, Unlock(w)
  PROVE  Store' /\ \A v \in Workers : Local(v)'
  <1>1. CASE Restart
        BY <1>1, RestartStore, Zenon
  <1>2. CASE g' = [g EXCEPT ![w] = Idle] /\ UNCHANGED <<up, certificates, file, locks, made, twice, caVars, mixed, failed>>
    <2>1. DOMAIN g' = Workers /\ g'[w] = Idle /\ \A v \in Workers \ {w} : g'[v] = g[v]
          BY <1>2, Zenon DEF CertInv, JsonInv, LockInv, Typed
    <2>2. <<>> \in Seq(Certs)
          OBVIOUS
    <2>3. Local(w)'
      <3>1. g'[w].pc = "idle" /\ g'[w].new = None /\ g'[w].slice = <<>>
            BY <2>1 DEF Idle
      <3> QED
          BY <2>2, <3>1, Zenon DEF Local, Locking, Inside, Saving
    <2>4. Others(w) /\ Store'
          BY <1>2, <2>1, Zenon DEF Others, CertInv, Store, caVars
    <2> QED
        BY <2>3, <2>4, OthersLocal, Zenon
  <1> QED
      BY <1>1, <1>2, Zenon DEF Unlock

(***************************************************************************)
(* Looking a certificate up, or failing to obtain one, changes no          *)
(* certificate.                                                            *)
(***************************************************************************)
LEMMA LookupStore ==
  ASSUME CertInv, NEW w \in Workers, GetCertificate(w) \/ ObtainError(w)
  PROVE  Store' /\ \A v \in Workers : Local(v)'
  <1> DEFINE cert == [name |-> NamesOf[g[w].key], serial |-> serial + 1]
  <1>1. g[w].pc = "get" /\ UNCHANGED <<up, certificates, file, locks, twice, expired, failed>>
        BY Zenon DEF GetCertificate, ObtainError, lockVars, caVars
  <1>2. DOMAIN g' = Workers /\ \A v \in Workers \ {w} : g'[v] = g[v]
        BY Zenon DEF CertInv, JsonInv, LockInv, Typed, GetCertificate, ObtainError
  <1>3. g'[w].key = g[w].key /\ g'[w].slice = g[w].slice
        BY DEF CertInv, JsonInv, LockInv, Typed, Fields, GetCertificate, ObtainError
  <1>4. \/ g'[w].pc = "unlock" /\ g'[w].new = g[w].new /\ UNCHANGED <<serial, mixed>>
        \/ /\ g'[w].pc = "remove" /\ g'[w].new = cert /\ serial < MaxSerial /\ serial' = serial + 1
           /\ mixed' = (mixed \/ \E v \in Workers \ {w} : g[v].pc \in Saving)
    <2>1. CASE GetCertificate(w)
      <3>1. w \in DOMAIN g /\ {"pc", "new"} \subseteq DOMAIN g[w]
            BY Zenon DEF CertInv, JsonInv, LockInv, Typed, Fields
      <3>2. CASE g' = [g EXCEPT ![w].pc = "unlock"] /\ UNCHANGED <<serial, mixed>>
            BY <3>1, <3>2, Zenon
      <3>3. CASE /\ g' = [g EXCEPT ![w].new = cert, ![w].pc = "remove"]
                 /\ serial < MaxSerial /\ serial' = serial + 1
                 /\ mixed' = (mixed \/ \E v \in Workers \ {w} : g[v].pc \in Saving)
        <4> HIDE DEF cert
        <4>1. g'[w].new = cert /\ g'[w].pc = "remove"
              BY <3>1, <3>3, Zenon
        <4> QED
            BY <3>3, <4>1, Zenon
      <3> QED
          BY <2>1, <3>2, <3>3, Zenon DEF GetCertificate
    <2>2. CASE ObtainError(w)
          BY <2>2, Zenon DEF CertInv, JsonInv, LockInv, Typed, Fields, ObtainError, caVars
    <2> QED
        BY <2>1, <2>2, Zenon
  <1>5. Local(w) /\ g[w].key \in Spellings
        BY <1>1, Zenon DEF CertInv, JsonInv, LockInv, Typed
  <1>6. serial < MaxSerial => cert \in Certs /\ serial + 1 \in 0..MaxSerial /\ 0..serial \subseteq 0..(serial + 1)
        BY <1>5, JsonAssumption DEF CertInv, Store, Certs, Names
  <1> HIDE DEF cert
  <1>7. Local(w)'
        BY <1>1, <1>3, <1>4, <1>5, <1>6, Zenon DEF Local, Locking, Inside, Saving
  <1>8. Others(w)
        BY <1>1, <1>2, Zenon DEF Others
  <1>9. Store'
        BY <1>1, <1>4, <1>6, Zenon DEF CertInv, Store
  <1> QED
        BY <1>7, <1>8, <1>9, OthersLocal, Zenon

(***************************************************************************)
(* Every step of SaveCertificate keeps memory and file lists of            *)
(* certificates.                                                           *)
(***************************************************************************)
LEMMA SaveStore ==
  ASSUME CertInv, NEW w \in Workers,
         \/ RemoveCertificate(w) \/ AppendLoad(w) \/ AppendStore(w)
         \/ Save(w) \/ SaveError(w) \/ Write(w)
  PROVE  Store' /\ \A v \in Workers : Local(v)'
  <1> USE DEF RemoveCertificate, AppendLoad, AppendStore, Save, SaveError, Write
  <1>1. /\ UNCHANGED <<up, locks, twice, serial, expired, mixed>>
        /\ g[w].pc \in Saving
        BY Zenon DEF lockVars, caVars, Saving
  <1>2. DOMAIN g' = Workers /\ \A v \in Workers \ {w} : g'[v] = g[v]
        BY Zenon DEF CertInv, JsonInv, LockInv, Typed
  <1>3. g'[w].key = g[w].key /\ g'[w].pc \in Saving \cup {"unlock"} /\ g'[w].new \in {g[w].new, None}
        /\ (g'[w].pc \in Saving => g'[w].new = g[w].new)
        BY DEF CertInv, JsonInv, LockInv, Typed, Fields, Saving
  <1>4. g'[w].slice \in {<<>>, g[w].slice, certificates, certificates'}
        BY DEF CertInv, JsonInv, LockInv, Typed, Fields
  <1>5. \/ certificates' = certificates
        \/ certificates' = Append(g[w].slice, g[w].new)
        \/ certificates' = Keep(certificates, {c \in ToSet(certificates) : c.serial \notin expired})
        \/ \E i \in 1..Len(certificates) : certificates' = RemoveAt(certificates, i)
    <2>1. CASE RemoveCertificate(w)
      <3> DEFINE I == {i \in 1..Len(certificates) : IsFor(certificates[i], w) /\ certificates[i].serial # 0}
      <3>1. certificates' = IF (IF I # {} THEN Min(I) ELSE 0) = 0 THEN certificates
                            ELSE RemoveAt(certificates, IF I # {} THEN Min(I) ELSE 0)
            BY <2>1, Zenon DEF SelectInSeq
      <3>2. I \in SUBSET Nat /\ I \subseteq 1..Len(certificates)
            OBVIOUS
      <3> HIDE DEF I
      <3>3. I # {} => Min(I) \in 1..Len(certificates)
            BY <3>2, MinIs, Zenon
      <3> QED
          BY <3>1, <3>3, Zenon
    <2>2. CASE AppendStore(w)
          BY <2>2, Zenon
    <2>3. CASE Save(w) \/ SaveError(w)
          BY <2>3, Zenon DEF PruneCertificates
    <2>4. CASE AppendLoad(w) \/ Write(w)
          BY <2>4, Zenon
    <2> QED
        BY <2>1, <2>2, <2>3, <2>4, Zenon
  <1>6. file' = file \/ file' = Torn \/ file' = g[w].slice
        BY Zenon
  <1>7. failed' \in BOOLEAN
        BY Zenon DEF CertInv, Store
  <1> HIDE DEF RemoveCertificate, AppendLoad, AppendStore, Save, SaveError, Write
  <1>8. Local(w) /\ certificates \in Seq(Certs)
        BY Zenon DEF CertInv, Store
  <1>9. g[w].slice \in Seq(Certs) /\ g[w].new \in Certs
        BY <1>1, <1>8, Zenon DEF Local
  <1>10. certificates' \in Seq(Certs)
    <2> DEFINE cs == certificates
    <2>1. ASSUME NEW S, NEW s \in Seq(S), NEW i \in 1..Len(s) PROVE RemoveAt(s, i) \in Seq(S)
          BY DEF RemoveAt
    <2>2. ASSUME NEW S, NEW s \in Seq(S), NEW x \in S PROVE Append(s, x) \in Seq(S)
          OBVIOUS
    <2>3. Append(g[w].slice, g[w].new) \in Seq(Certs)
          BY <1>9, <2>2, Zenon
    <2>4. \A i \in 1..Len(certificates) : RemoveAt(certificates, i) \in Seq(Certs)
          BY <1>8, <2>1, Zenon
    <2>5. Keep(certificates, {c \in ToSet(certificates) : c.serial \notin expired}) \in Seq(Certs)
          BY <1>8, KeepSet, Zenon
    <2> QED
        BY <1>5, <1>8, <2>3, <2>4, <2>5, Zenon
  <1>11. <<>> \in Seq(Certs)
        OBVIOUS
  <1>12. Local(w)'
        BY <1>1, <1>3, <1>4, <1>8, <1>9, <1>10, <1>11, Places, Zenon DEF Local
  <1>13. Others(w)
        BY <1>1, <1>2, Zenon DEF Others
  <1>14. Store'
        BY <1>1, <1>6, <1>7, <1>9, <1>10, Zenon DEF CertInv, Store
  <1> QED
        BY <1>12, <1>13, <1>14, OthersLocal, Zenon

(***************************************************************************)
(* CertInv is an invariant: memory and file only ever hold certificates,   *)
(* also while goroutines append to the same slice without a common lock    *)
(* (SaveCertificate, pruneCertificates, save).                             *)
(***************************************************************************)
THEOREM CertInvariant == Spec => []CertInv
  <1>1. CertInv /\ JsonInv' /\ [Next]_vars => CertInv'
    <2> SUFFICES ASSUME CertInv, JsonInv', [Next]_vars PROVE Store' /\ \A w \in Workers : Local(w)'
        BY Zenon DEF CertInv
    <2>1. ASSUME NEW w \in Workers, Step(w) PROVE Store' /\ \A v \in Workers : Local(v)'
          BY <2>1, LockStore, UnlockStore, LookupStore, SaveStore, Zenon DEF Step
    <2>2. CASE Crash
          BY <2>2, RestartStore, Zenon DEF Crash
    <2>3. CASE Expire
      <3>1. UNCHANGED <<up, certificates, file, locks, twice, serial, g, mixed, failed>> /\ expired' = 0..serial
            BY <2>3, Zenon DEF Expire, lockVars
      <3> QED
            BY <3>1, Zenon DEF CertInv, Store, Local
    <2>4. CASE UNCHANGED vars
          BY <2>4, Zenon DEF vars, lockVars, caVars, CertInv, Store, Local
    <2> QED
          BY <2>1, <2>2, <2>3, <2>4, Zenon DEF Next
  <1> QED
        BY <1>1, CertInitially, JsonInvariant, PTL DEF Spec

(***************************************************************************)
(* The store keeps its types, through every save, error and restart.       *)
(***************************************************************************)
THEOREM StoreTyped == Spec => []TypeOK
  <1>1. CertInv => TypeOK
    <2> SUFFICES ASSUME CertInv PROVE TypeOK
        BY Zenon
    <2>1. \A w \in Workers :
            /\ g[w].pc \in {"idle", "insert", "lock"} \cup Inside
            /\ g[w].pc \in Inside => g[w].mu \in 1..made /\ g[w].key \in Spellings /\ locks[g[w].key] # 0
          BY Places, Zenon DEF CertInv, JsonInv, LockInv, Typed, Local, Locking
    <2>2. made \in 0..MaxMutex /\ locks \in [Spellings -> 0..made]
          BY Zenon DEF CertInv, JsonInv, LockInv, Typed
    <2>3. /\ \A m \in 1..made : m \in Mutexes
          /\ \A m \in 0..made : m # 0 => m \in Mutexes
          BY <2>2, JsonAssumption DEF Mutexes
    <2>4. \A w \in Workers : g[w].pc \in Inside => g[w].mu \in Mutexes /\ locks[g[w].key] \in Mutexes
          BY <2>1, <2>2, <2>3, Zenon
    <2> QED
        BY <2>1, <2>2, <2>4, Zenon DEF TypeOK, CertInv, Store, Local, JsonInv, LockInv, Typed
  <1> QED
        BY <1>1, CertInvariant, PTL
=============================================================================
