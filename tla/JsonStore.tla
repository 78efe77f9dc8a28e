------------------------------ MODULE JsonStore ------------------------------
(***************************************************************************)
(* certificate.JsonStore (certificate/store.go) as the checking goroutines *)
(* of one process use it: each locks the names of a certificate, looks it  *)
(* up, saves a new one if there is none, and unlocks.  Only the mutexes of *)
(* the store synchronise them: the map of locks and the slice of           *)
(* certificates are read and written by all goroutines at any time.        *)
(*                                                                         *)
(* A spelling is a list of names as a route gives it; lists in different   *)
(* order are different spellings of the same names.  The process may die   *)
(* at any time and is started again from the file.                         *)
(***************************************************************************)
EXTENDS Lists

CONSTANTS
  Workers,    \* the goroutines
  Spellings,  \* lists of names, the keys of the map of locks
  NamesOf,    \* the names each spelling stands for
  None,       \* nobody, nothing
  Torn,       \* the contents of a file that does not decode
  MaxSerial,  \* bound: certificates obtained
  MaxMutex    \* bound: mutexes made

Names   == {NamesOf[s] : s \in Spellings}
Mutexes == 1..MaxMutex

\* Serial 0 is a certificate saved before providers were tracked.
Certs == [name : Names, serial : 0..MaxSerial]

ASSUME JsonAssumption ==
  /\ DOMAIN NamesOf = Spellings
  /\ MaxSerial \in Nat /\ MaxMutex \in Nat
  /\ None \notin Workers /\ None \notin Spellings

VARIABLES
  up,            \* the process runs
  certificates,  \* JsonStore.certificates
  locks,         \* JsonStore.locks: spelling -> mutex, 0 if absent
  holder,        \* per mutex: who has it locked
  made,          \* mutexes made so far
  file,          \* the contents of the file
  serial,        \* certificates obtained so far
  expired,       \* the serials that have expired
  g,             \* per worker: control state and locals
  twice,         \* spellings for which two mutexes were made (history)
  mixed,         \* two goroutines were saving at once (history)
  failed         \* the last save could not write the file (history)

lockVars == <<locks, holder, made, twice>>
caVars   == <<serial, expired>>
vars     == <<up, certificates, file, lockVars, caVars, g, mixed, failed>>

Saving == {"remove", "append", "appendStore", "save", "write"}
Inside == Saving \cup {"get", "unlock"}

(***************************************************************************)
(* Types.  A goroutine between LockCertificate and UnlockCertificate finds *)
(* its spelling in the map, and outside of it has no certificate to save.  *)
(***************************************************************************)
TypeOK ==
  /\ up \in BOOLEAN /\ mixed \in BOOLEAN /\ failed \in BOOLEAN
  /\ certificates \in Seq(Certs)
  /\ file = Torn \/ file \in Seq(Certs)
  /\ locks \in [Spellings -> 0..made]
  /\ holder \in [Mutexes -> Workers \cup {None}]
  /\ made \in 0..MaxMutex
  /\ serial \in 0..MaxSerial /\ expired \subseteq 0..serial
  /\ twice \subseteq Spellings
  /\ \A w \in Workers :
       /\ g[w].pc \in {"idle", "insert", "lock"} \cup Inside
       /\ g[w].pc \in Inside => g[w].mu \in Mutexes /\ locks[g[w].key] \in Mutexes
       /\ g[w].new # None => g[w].new \in Certs /\ g[w].pc \in Saving \cup {"unlock"}
       /\ g[w].slice \in Seq(Certs)

Idle == [pc |-> "idle", key |-> None, mu |-> 0, new |-> None, slice |-> <<>>]

\* There is no file, or one from before providers were tracked.
Init ==
  /\ up = TRUE
  /\ file \in {<<>>} \cup {<<[name |-> n, serial |-> 0]>> : n \in Names}
  /\ certificates = file
  /\ locks = [s \in Spellings |-> 0]
  /\ holder = [m \in Mutexes |-> None]
  /\ made = 0 /\ serial = 0 /\ expired = {} /\ twice = {}
  /\ g = [w \in Workers |-> Idle]
  /\ mixed = FALSE /\ failed = FALSE

(***************************************************************************)
(* The process dies and is started again: NewStore reads the file, and the *)
(* process does not come up if it does not decode.                         *)
(***************************************************************************)
Restart ==
  /\ up' = (file # Torn)
  /\ certificates' = IF file = Torn THEN <<>> ELSE file
  /\ locks' = [s \in Spellings |-> 0]
  /\ holder' = [m \in Mutexes |-> None]
  /\ made' = 0 /\ twice' = {}
  /\ g' = [w \in Workers |-> Idle]
  /\ mixed' = FALSE /\ failed' = FALSE
  /\ UNCHANGED <<file, caVars>>

-----------------------------------------------------------------------------
(***************************************************************************)
(* LockCertificate.  lockFor looks the mutex up and makes one if it is not *)
(* there; another goroutine may have done the same in between.             *)
(***************************************************************************)
LockFor(w, s) ==
  /\ up
  /\ g[w].pc = "idle"
  /\ g' = [g EXCEPT ![w].key = s, ![w].mu = locks[s],
                    ![w].pc = IF locks[s] = 0 THEN "insert" ELSE "lock"]
  /\ UNCHANGED <<up, certificates, file, lockVars, caVars, mixed, failed>>

\* Mutant: the mutex is used but not kept in the map.
MakeUnkept(w) ==
  /\ g[w].pc = "insert"
  /\ made < MaxMutex
  /\ made' = made + 1
  /\ g' = [g EXCEPT ![w].pc = "lock", ![w].mu = made + 1]
  /\ UNCHANGED <<up, certificates, file, locks, holder, twice, caVars, mixed, failed>>

MakeMutex(w) ==
  /\ g[w].pc = "insert"
  /\ made < MaxMutex
  /\ made' = made + 1
  /\ locks' = [locks EXCEPT ![g[w].key] = made + 1]
  /\ twice' = IF locks[g[w].key] = 0 THEN twice ELSE twice \cup {g[w].key}
  /\ g' = [g EXCEPT ![w].pc = "lock", ![w].mu = made + 1]
  /\ UNCHANGED <<up, certificates, file, holder, caVars, mixed, failed>>

\* Mutant: the mutex is not waited for.
LockAnyway(w) ==
  /\ g[w].pc = "lock"
  /\ holder' = [holder EXCEPT ![g[w].mu] = w]
  /\ g' = [g EXCEPT ![w].pc = "get"]
  /\ UNCHANGED <<up, certificates, file, locks, made, twice, caVars, mixed, failed>>

Lock(w) ==
  /\ g[w].pc = "lock"
  /\ holder[g[w].mu] = None
  /\ holder' = [holder EXCEPT ![g[w].mu] = w]
  /\ g' = [g EXCEPT ![w].pc = "get"]
  /\ UNCHANGED <<up, certificates, file, locks, made, twice, caVars, mixed, failed>>

(***************************************************************************)
(* UnlockCertificate asks lockFor again, so it unlocks the mutex that is   *)
(* in the map now, whoever has it locked.  Unlocking one that is not       *)
(* locked ends the process.                                                *)
(***************************************************************************)
Unlock(w) ==
  /\ g[w].pc = "unlock"
  /\ LET m == locks[g[w].key] IN
       \/ /\ holder[m] # None
          /\ holder' = [holder EXCEPT ![m] = None]
          /\ g' = [g EXCEPT ![w] = Idle]
          /\ UNCHANGED <<up, certificates, file, locks, made, twice, caVars, mixed, failed>>
       \/ /\ holder[m] = None
          /\ Restart

-----------------------------------------------------------------------------
(***************************************************************************)
(* GetCertificate: the first certificate for the names that has the        *)
(* provider, else the last one that has none.                              *)
(***************************************************************************)
IsFor(c, w) == c.name = NamesOf[g[w].key]

Found(w) ==
  LET mine   == SelectSeq(certificates, LAMBDA c : IsFor(c, w) /\ c.serial # 0)
      legacy == SelectSeq(certificates, LAMBDA c : IsFor(c, w) /\ c.serial = 0) IN
  IF mine # <<>> THEN {Head(mine)} ELSE IF legacy # <<>> THEN {legacy[Len(legacy)]} ELSE {}

\* The manager keeps a certificate that has not expired, and asks the
\* supplier for another one otherwise.
GetCertificate(w) ==
  /\ g[w].pc = "get"
  /\ \/ /\ \E c \in Found(w) : c.serial \notin expired
        /\ g' = [g EXCEPT ![w].pc = "unlock"]
        /\ UNCHANGED <<serial, mixed>>
     \/ /\ \A c \in Found(w) : c.serial \in expired
        /\ serial < MaxSerial
        /\ serial' = serial + 1
        /\ g' = [g EXCEPT ![w].new = [name |-> NamesOf[g[w].key], serial |-> serial + 1],
                          ![w].pc = "remove"]
        /\ mixed' = (mixed \/ \E v \in Workers \ {w} : g[v].pc \in Saving)
  /\ UNCHANGED <<up, certificates, file, lockVars, expired, failed>>

\* The supplier fails.
ObtainError(w) ==
  /\ g[w].pc = "get"
  /\ \A c \in Found(w) : c.serial \in expired
  /\ g' = [g EXCEPT ![w].pc = "unlock"]
  /\ UNCHANGED <<up, certificates, file, lockVars, caVars, mixed, failed>>

(***************************************************************************)
(* SaveCertificate: removeCertificate, append, and save.  The append reads *)
(* the slice and stores it again.                                          *)
(***************************************************************************)
RemoveCertificate(w) ==
  /\ g[w].pc = "remove"
  /\ LET mine == SelectInSeq(certificates, LAMBDA c : IsFor(c, w) /\ c.serial # 0) IN
       certificates' = IF mine = 0 THEN certificates ELSE RemoveAt(certificates, mine)
  /\ g' = [g EXCEPT ![w].pc = "append"]
  /\ UNCHANGED <<up, file, lockVars, caVars, mixed, failed>>

AppendLoad(w) ==
  /\ g[w].pc = "append"
  /\ g' = [g EXCEPT ![w].pc = "appendStore", ![w].slice = certificates]
  /\ UNCHANGED <<up, certificates, file, lockVars, caVars, mixed, failed>>

AppendStore(w) ==
  /\ g[w].pc = "appendStore"
  /\ certificates' = Append(g[w].slice, g[w].new)
  /\ g' = [g EXCEPT ![w].pc = "save", ![w].slice = <<>>]
  /\ UNCHANGED <<up, file, lockVars, caVars, mixed, failed>>

PruneCertificates ==
  certificates' = Keep(certificates, {c \in ToSet(certificates) : c.serial \notin expired})

\* Mutant: the file gets what was in memory before the pruning.
SaveUnpruned(w) ==
  /\ g[w].pc = "save"
  /\ PruneCertificates
  /\ file' = Torn
  /\ g' = [g EXCEPT ![w].pc = "write", ![w].slice = certificates]
  /\ UNCHANGED <<up, lockVars, caVars, mixed, failed>>

\* save: prune, encode, and os.WriteFile truncates the file ...
Save(w) ==
  /\ g[w].pc = "save"
  /\ PruneCertificates
  /\ file' = Torn
  /\ g' = [g EXCEPT ![w].pc = "write", ![w].slice = certificates']
  /\ UNCHANGED <<up, lockVars, caVars, mixed, failed>>

\* ... or cannot open it ...
SaveError(w) ==
  /\ g[w].pc = "save"
  /\ PruneCertificates
  /\ failed' = TRUE
  /\ g' = [g EXCEPT ![w].pc = "unlock", ![w].new = None]
  /\ UNCHANGED <<up, file, lockVars, caVars, mixed>>

\* ... and writes it.  Two writes at once may leave parts of both.
Write(w) ==
  /\ g[w].pc = "write"
  /\ \/ file' = g[w].slice
     \/ mixed /\ file' = Torn
  /\ failed' = FALSE
  /\ g' = [g EXCEPT ![w].pc = "unlock", ![w].slice = <<>>]
  /\ UNCHANGED <<up, certificates, lockVars, caVars, mixed>>

-----------------------------------------------------------------------------
Crash ==
  /\ up
  /\ Restart

Expire ==
  /\ up
  /\ expired' = 0..serial
  /\ UNCHANGED <<up, certificates, file, lockVars, serial, g, mixed, failed>>

Step(w) ==
  \/ \E s \in Spellings : LockFor(w, s)
  \/ MakeMutex(w) \/ Lock(w) \/ Unlock(w)
  \/ GetCertificate(w) \/ ObtainError(w)
  \/ RemoveCertificate(w) \/ AppendLoad(w) \/ AppendStore(w)
  \/ Save(w) \/ SaveError(w) \/ Write(w)

Next ==
  \/ \E w \in Workers : Step(w)
  \/ Crash
  \/ Expire

Spec == Init /\ [][Next]_vars

-----------------------------------------------------------------------------
(***************************************************************************)
(* Unless two goroutines made a mutex for the same spelling at once, at    *)
(* most one of them is between LockCertificate and UnlockCertificate of    *)
(* that spelling, and the mutex lockFor finds for it again when it unlocks *)
(* is the one it locked.                                                   *)
(***************************************************************************)
ExcludesPerSpelling ==
  \A w \in Workers :
    g[w].pc \in Inside /\ g[w].key \notin twice =>
      /\ holder[locks[g[w].key]] = w
      /\ \A v \in Workers \ {w} : g[v].pc \in Inside => g[v].key # g[w].key

(***************************************************************************)
(* Unless saves overlapped or the last one failed, the file decodes to     *)
(* what is in memory whenever nobody is saving, so that a restart finds    *)
(* every certificate that was handed out.                                  *)
(***************************************************************************)
FileMatchesMemory ==
  up /\ ~mixed /\ ~failed /\ (\A w \in Workers : g[w].pc \notin Saving) => file = certificates

(***************************************************************************)
(* The comment on LockCertificate: it "acquires a lock over the writing of *)
(* the given certificate".  Two goroutines never write the same one.       *)
(***************************************************************************)
ExcludesPerCertificate ==
  \A v, w \in Workers :
    g[v].pc \in Saving /\ g[w].pc \in Saving /\ g[v].new.name = g[w].new.name => v = w
=============================================================================
