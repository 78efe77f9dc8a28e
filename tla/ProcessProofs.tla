--------------------------- MODULE ProcessProofs ---------------------------
(***************************************************************************)
(* Proofs about the process: its life (Lifecycle), for any frontends,      *)
(* bounds and bad contents that satisfy LifecycleAssumption; its start     *)
(* (Startup), for any directories and preferences; and the functions it    *)
(* uses on names and headers (DomainNames, Route), for all inputs. The     *)
(* last are folds over lists: what they return is proved by induction on   *)
(* the length of the list.                                                 *)
(***************************************************************************)
EXTENDS Lifecycle, MCStartup, SequenceProofs

(***************************************************************************)
(* The inductive invariant.  Shutting down, nothing is waited for; before  *)
(* that the source runs.  What was read is no older than what is           *)
(* installed, so installing it cannot go back.  Past Serve every server of *)
(* the frontend has been started.                                          *)
(***************************************************************************)
Ending == {"termSource", "termFrontend", "errFrontend", "errSource", "exited"}

Buffered == signalChan \in {{}, {"HUP"}, {"TERM"}}

SourceRuns == stopChan = 1 \/ fpc = "stopped" => mpc \in Ending

Ordered == applied <= read /\ read <= file /\ wanted <= file

Started == mpc \notin {"start", "serve", "exited"} => \A i \in DOMAIN Order : server[Order[i]] # "off"

Typed ==
  /\ frontend \in Frontends
  /\ file \in 0..MaxEdits /\ read \in 0..MaxEdits
  /\ applied \in 0..MaxEdits /\ wanted \in 0..MaxEdits
  /\ sent \in 0..MaxSignals
  /\ mpc \in {"start", "serve", "metrics", "select"} \cup Ending
  /\ server \in [Servers \cup {Metrics} -> {"off", "running", "closed", "failed"}]
  /\ metricsChan \in 0..1 /\ updateChan \in 0..1 /\ stopChan \in 0..1
  /\ fpc \in {"off", "select", "open", "apply", "sending", "stopped"}
  /\ sending \subseteq Senders
  /\ termed \in BOOLEAN

LifecycleInv == Typed /\ Buffered /\ SourceRuns /\ Ordered /\ Started /\ ReloadPending

(***************************************************************************)
(* The buffer of signalChan holds at most one signal, so the invariant     *)
(* implies the types.                                                      *)
(***************************************************************************)
LEMMA TypesFollow == LifecycleInv => TypeOK
  <1>1. Buffered => signalChan \subseteq Signals /\ \A s, t \in signalChan : s = t
        BY Zenon DEF Buffered, Signals
  <1> QED
        BY <1>1, Zenon DEF LifecycleInv, Typed, TypeOK, Ending

(***************************************************************************)
(* The servers of a frontend are servers.                                  *)
(***************************************************************************)
LEMMA OrderIs ==
  ASSUME frontend \in Frontends
  PROVE  /\ Len(Order) \in Nat /\ DOMAIN Order = 1..Len(Order)
         /\ \A i \in DOMAIN Order : Order[i] \in Servers
  <1>1. frontend \in {"tcp", "http", "https"}
        BY LifecycleAssumption, Zenon
  <1>2. Order \in {<<"tls", "plain">>, <<"plain">>, <<"plain", "tls">>}
        BY <1>1, Zenon DEF Order
  <1> QED
        BY <1>2 DEF Servers

(***************************************************************************)
(* The invariant holds initially.                                          *)
(***************************************************************************)
LEMMA LifecycleInitially == Init => LifecycleInv
  <1> SUFFICES ASSUME Init PROVE LifecycleInv
      BY Zenon
  <1>1. Typed
    <2>1. /\ {file, read, applied, wanted} \subseteq 0..MaxEdits /\ sent \in 0..MaxSignals
          /\ {metricsChan, updateChan, stopChan} \subseteq 0..1
          BY LifecycleAssumption DEF Init
    <2>2. server \in [Servers \cup {Metrics} -> {"off", "running", "closed", "failed"}]
          BY Zenon DEF Init
    <2> QED
          BY <2>1, <2>2, Zenon DEF Init, Typed
  <1>2. Buffered /\ SourceRuns /\ Ordered /\ Started /\ ReloadPending
        BY DEF Init, Buffered, SourceRuns, Ordered, Started, ReloadPending
  <1> QED
        BY <1>1, <1>2, Zenon DEF LifecycleInv

(***************************************************************************)
(* Every step preserves the invariant.                                     *)
(***************************************************************************)
LEMMA LifecycleInductive == LifecycleInv /\ [Next]_vars => LifecycleInv'
  <1> SUFFICES ASSUME LifecycleInv, [Next]_vars PROVE LifecycleInv'
      BY Zenon
  <1> USE DEF LifecycleInv, Typed, Buffered, SourceRuns, Ordered, Started, ReloadPending, Ending,
              envVars, serverVars, sourceVars
  <1>0. frontend' = frontend => Order' = Order
        BY Zenon DEF Order
  <1>1. /\ Len(Order) \in Nat /\ DOMAIN Order = 1..Len(Order)
        /\ \A i \in DOMAIN Order : Order[i] \in Servers
        BY OrderIs, Zenon
  <1>2. CASE StartSource
        BY <1>0, <1>1, <1>2, LifecycleAssumption DEF StartSource, Reload
  <1>3. CASE Serve
        BY <1>0, <1>1, <1>3, LifecycleAssumption DEF Serve
  <1>4. CASE ServeError
        BY <1>0, <1>1, <1>4, LifecycleAssumption, Zenon DEF ServeError
  <1>5. CASE StartMetrics
        BY <1>0, <1>1, <1>5, LifecycleAssumption, Zenon DEF StartMetrics
  <1>6. CASE MainHup
        BY <1>0, <1>1, <1>6, LifecycleAssumption DEF MainHup, Reload
  <1>7. CASE MainTerm
        BY <1>0, <1>1, <1>7, LifecycleAssumption DEF MainTerm
  <1>8. ASSUME NEW g \in Senders, MainError(g) PROVE LifecycleInv'
        BY <1>0, <1>1, <1>8, LifecycleAssumption, Zenon DEF MainError
  <1>9. CASE StopSource
        BY <1>0, <1>1, <1>9, LifecycleAssumption DEF StopSource
  <1>10. CASE StopFrontend
        BY <1>0, <1>1, <1>10, LifecycleAssumption, Zenon DEF StopFrontend
  <1>11. CASE RunStop
        BY <1>0, <1>1, <1>11, LifecycleAssumption DEF RunStop
  <1>12. CASE RunUpdate
        BY <1>0, <1>1, <1>12, LifecycleAssumption DEF RunUpdate
  <1>13. CASE ReadFile
        BY <1>0, <1>1, <1>13, LifecycleAssumption DEF ReadFile
  <1>14. CASE Apply
        BY <1>0, <1>1, <1>14, LifecycleAssumption DEF Apply
  <1>15. CASE ApplyError
        BY <1>0, <1>1, <1>15, LifecycleAssumption, Zenon DEF ApplyError, Senders
  <1>16. ASSUME NEW s \in Servers \cup {Metrics}, ServerError(s) PROVE LifecycleInv'
        BY <1>0, <1>1, <1>16, LifecycleAssumption DEF ServerError, Senders
  <1>17. CASE StopMetrics
        BY <1>0, <1>1, <1>17, LifecycleAssumption DEF StopMetrics
  <1>18. CASE Edit
        BY <1>0, <1>1, <1>18, LifecycleAssumption DEF Edit
  <1>19. ASSUME NEW s \in Signals, Signal(s) PROVE LifecycleInv'
        BY <1>0, <1>1, <1>19, LifecycleAssumption DEF Signal, Signals
  <1>20. CASE UNCHANGED vars
        BY <1>0, <1>20 DEF vars
  <1> QED
        BY <1>2, <1>3, <1>4, <1>5, <1>6, <1>7, <1>8, <1>9, <1>10, <1>11,
           <1>12, <1>13, <1>14, <1>15, <1>16, <1>17, <1>18, <1>19, <1>20, Zenon
           DEF Next, MainStep, SourceStep

-----------------------------------------------------------------------------
(***************************************************************************)
(* LifecycleInv is an invariant.                                           *)
(***************************************************************************)
THEOREM LifecycleInvariant == Spec => []LifecycleInv
  BY LifecycleInitially, LifecycleInductive, PTL DEF Spec

(***************************************************************************)
(* The variables keep their types; signalChan and the tokens never exceed  *)
(* their buffers.                                                          *)
(***************************************************************************)
THEOREM LifecycleTypes == Spec => []TypeOK
  BY LifecycleInvariant, TypesFollow, PTL

(***************************************************************************)
(* However many edits and signals there are, a reload that was asked for   *)
(* by a SIGHUP stays pending until it is done (FileSource.Reload drops its *)
(* token, signal.Notify its signal).                                       *)
(***************************************************************************)
THEOREM ReloadNotLost == Spec => []ReloadPending
  <1>1. LifecycleInv => ReloadPending
        BY Zenon DEF LifecycleInv
  <1> QED
        BY <1>1, LifecycleInvariant, PTL

(***************************************************************************)
(* Stop of a frontend finds all its servers started (tcpFrontend.Stop).    *)
(***************************************************************************)
THEOREM StopIsSafe == Spec => []StopFindsServers
  <1>1. LifecycleInv => StopFindsServers
        BY Zenon DEF LifecycleInv, Started, StopFindsServers
  <1> QED
        BY <1>1, LifecycleInvariant, PTL

-----------------------------------------------------------------------------
(***************************************************************************)
(* Proofs about Startup, for any directories, preferences and number of    *)
(* starts.                                                                 *)
(***************************************************************************)

(***************************************************************************)
(* What a start knows at each step: a key of its own until it registers,   *)
(* and before it opens the file, that there is none.                       *)
(***************************************************************************)
Knows ==
  /\ disk \in Accounts => disk \in accounts
  /\ "lego" \in suppliers => disk = user.account /\ disk \in Accounts
  /\ step \in {"store", "check", "load", "client", "register", "open", "write"} =>
       suppliers = {} /\ starts > 0
  /\ step = "client" => IF user.account = None THEN disk = Absent /\ user.key = starts
                        ELSE disk = user.account /\ disk \in Accounts
  /\ step = "register" => disk = Absent /\ user = [key |-> starts, account |-> None]
  /\ step \in {"open", "write"} => user.account \in accounts
  /\ step = "open" => disk = Absent
  /\ step = "write" => disk = Torn

StartupInv == StartupTypeOK /\ Knows

(***************************************************************************)
(* The three markers are no accounts, and accounts are pairs.              *)
(***************************************************************************)
LEMMA AccountFacts ==
  /\ None \notin Accounts /\ Absent \notin Accounts /\ Torn \notin Accounts
  /\ Absent # Torn /\ None # Absent /\ None # Torn
  /\ \A a \in Accounts : a[1] \in 0..MaxStarts
  /\ \A k \in 0..MaxStarts, d \in Directories : k > 0 => <<k, d>> \in Accounts
  /\ NoUser \in [key : 0..MaxStarts, account : Accounts \cup {None}]
  /\ NoUser.key = 0 /\ NoUser.account = None
  BY StartupAssumption DEF Accounts, None, Absent, Torn, NoUser

(***************************************************************************)
(* The invariant holds initially.                                          *)
(***************************************************************************)
LEMMA StartupInitially == StartupInit => StartupInv
  BY StartupAssumption, AccountFacts, Zenon DEF StartupInit, StartupInv, StartupTypeOK, Knows

(***************************************************************************)
(* Every step of a start, a new start and a crash preserve it.             *)
(***************************************************************************)
LEMMA StartupInductive == StartupInv /\ [StartupNext]_startupVars => StartupInv'
  <1> SUFFICES ASSUME StartupInv, [StartupNext]_startupVars PROVE StartupInv'
      BY Zenon
  <1> USE StartupAssumption, AccountFacts DEF StartupInv, optionVars
  <1>1. CASE Boot
    <2>1. StartupTypeOK'
          BY <1>1 DEF StartupTypeOK, Knows, Boot
    <2>2. Knows'
          BY <1>1 DEF StartupTypeOK, Knows, Boot
    <2> QED
          BY <2>1, <2>2, Zenon
  <1>2. CASE Crash
    <2>1. StartupTypeOK'
          BY <1>2, Zenon DEF StartupTypeOK, Knows, Crash
    <2>2. Knows'
          BY <1>2, Zenon DEF StartupTypeOK, Knows, Crash
    <2> QED
          BY <2>1, <2>2, Zenon
  <1>3. CASE OpenStore
    <2>1. StartupTypeOK'
          BY <1>3, Zenon DEF StartupTypeOK, Knows, OpenStore, WithoutLego, GoOn
    <2>2. Knows'
          BY <1>3, Zenon DEF StartupTypeOK, Knows, OpenStore, WithoutLego, GoOn
    <2> QED
          BY <2>1, <2>2, Zenon
  <1>4. CASE CanWriteTo
    <2>1. StartupTypeOK'
          BY <1>4, Zenon DEF StartupTypeOK, Knows, CanWriteTo, WithoutLego, GoOn
    <2>2. Knows'
          BY <1>4, Zenon DEF StartupTypeOK, Knows, CanWriteTo, WithoutLego, GoOn
    <2> QED
          BY <2>1, <2>2, Zenon
  <1>5. CASE Load
    <2>1. StartupTypeOK'
          BY <1>5 DEF StartupTypeOK, Knows, Load, WithoutLego, GoOn
    <2>2. Knows'
          BY <1>5 DEF StartupTypeOK, Knows, Load, WithoutLego, GoOn
    <2> QED
          BY <2>1, <2>2, Zenon
  <1>6. CASE NewClient
    <2>1. StartupTypeOK'
          BY <1>6, Zenon DEF StartupTypeOK, Knows, NewClient, WithoutLego, WithLego, GoOn
    <2>2. Knows'
          BY <1>6, Zenon DEF StartupTypeOK, Knows, NewClient, WithoutLego, WithLego, GoOn
    <2> QED
          BY <2>1, <2>2, Zenon
  <1>7. CASE Register
    <2>1. StartupTypeOK'
          BY <1>7 DEF StartupTypeOK, Knows, Register, WithoutLego, GoOn
    <2>2. Knows'
          BY <1>7, Zenon DEF StartupTypeOK, Knows, Register, WithoutLego, GoOn
    <2> QED
          BY <2>1, <2>2, Zenon
  <1>8. CASE OpenFile
    <2>1. StartupTypeOK'
          BY <1>8, Zenon DEF StartupTypeOK, Knows, OpenFile, WithoutLego, GoOn
    <2>2. Knows'
          BY <1>8, Zenon DEF StartupTypeOK, Knows, OpenFile, WithoutLego, GoOn
    <2> QED
          BY <2>1, <2>2, Zenon
  <1>9. CASE WriteFile
    <2>1. StartupTypeOK'
          BY <1>9, Zenon DEF StartupTypeOK, Knows, WriteFile, WithoutLego, WithLego
    <2>2. Knows'
          BY <1>9, Zenon DEF StartupTypeOK, Knows, WriteFile, WithoutLego, WithLego
    <2> QED
          BY <2>1, <2>2, Zenon
  <1>10. CASE UNCHANGED startupVars
    <2>1. StartupTypeOK'
          BY <1>10, Zenon DEF StartupTypeOK, Knows, startupVars
    <2>2. Knows'
          BY <1>10, Zenon DEF StartupTypeOK, Knows, startupVars
    <2> QED
          BY <2>1, <2>2, Zenon
  <1> QED
      BY <1>1, <1>2, <1>3, <1>4, <1>5, <1>6, <1>7, <1>8, <1>9, <1>10, Zenon DEF StartupNext, StartupStep

(***************************************************************************)
(* StartupInv is an invariant.                                             *)
(***************************************************************************)
THEOREM StartupInvariant == StartupSpec => []StartupInv
  BY StartupInitially, StartupInductive, PTL DEF StartupSpec

(***************************************************************************)
(* A process that can order certificates has a registered account that is  *)
(* on disk (NewLegoSupplier, registerAndSave).                             *)
(***************************************************************************)
THEOREM OrdersWithSaved == StartupSpec => []OrdersWithSavedAccount
  <1>1. StartupInv => OrdersWithSavedAccount
        BY AccountFacts, Zenon DEF StartupInv, StartupTypeOK, Knows, OrdersWithSavedAccount
  <1> QED
        BY StartupInvariant, <1>1, PTL

(***************************************************************************)
(* Once there is a user data file nothing is registered, and only the      *)
(* process that is creating it writes it (acmeUser.load, registerAndSave). *)
(***************************************************************************)
THEOREM KeepsAccount == StartupSpec => AccountKept
  <1> DEFINE Kept == disk # Absent =>
                       /\ accounts' = accounts
                       /\ disk' # disk => step = "write" /\ disk' \in accounts
  <1>1. StartupInv /\ [StartupNext]_startupVars => Kept \/ UNCHANGED startupVars
    <2> SUFFICES ASSUME StartupInv, StartupNext, disk # Absent PROVE Kept
        BY Zenon DEF startupVars
    <2> USE AccountFacts DEF StartupInv, Knows, optionVars
    <2>1. CASE Boot \/ Crash \/ OpenStore \/ CanWriteTo \/ Load \/ NewClient
          BY <2>1, Zenon DEF Boot, Crash, OpenStore, CanWriteTo, Load, NewClient
    <2>2. CASE Register
          BY <2>2, Zenon DEF Register
    <2>3. CASE OpenFile
          BY <2>3, Zenon DEF OpenFile
    <2>4. CASE WriteFile
          BY <2>4, Zenon DEF WriteFile
    <2> QED
          BY <2>1, <2>2, <2>3, <2>4, Zenon DEF StartupNext, StartupStep
  <1> QED
        BY StartupInvariant, <1>1, PTL DEF StartupSpec, AccountKept

-----------------------------------------------------------------------------

(***************************************************************************)
(* The states of the loop of isDomainName.                                 *)
(***************************************************************************)
States == [ok : BOOLEAN, last : Classes, nonNumeric : BOOLEAN, partlen : Nat]

(***************************************************************************)
(* The loop of isDomainName keeps the types of its variables.              *)
(***************************************************************************)
LEMMA ReadCharType ==
  ASSUME NEW st \in States, NEW c \in Classes
  PROVE  ReadChar(st, c) \in States
  <1>1. [st EXCEPT !.ok = FALSE] \in States
        BY Zenon DEF States
  <1>2. /\ (st.nonNumeric \/ c \in {"letter", "dash"}) \in BOOLEAN
        /\ (IF c = "dot" THEN 0 ELSE st.partlen + 1) \in Nat
        BY DEF States
  <1> QED
        BY <1>1, <1>2, Zenon DEF ReadChar, States

\* run has the states after each character of s.
Reads(s, run) ==
  /\ run \in [0..Len(s) -> States]
  /\ run[0] = Unread
  /\ \A i \in 1..Len(s) : run[i] = ReadChar(run[i - 1], s[i])

(***************************************************************************)
(* isDomainName ends with what its loop has after the last character.      *)
(***************************************************************************)
LEMMA NameRun ==
  ASSUME NEW s \in Seq(Classes)
  PROVE  \E run : Reads(s, run) /\ FoldLeft(ReadChar, Unread, s) = run[Len(s)]
  <1> DEFINE n == Len(s)
             next == [i \in 1..n |-> [st \in States |-> ReadChar(st, s[i])]]
             Iter(F) == F = [t \in SUBSET DOMAIN s |->
                               IF t = {} THEN Unread ELSE ReadChar(F[t \ {Max(t)}], s[Max(t)])]
             iter == CHOOSE F : Iter(F)
             run == [i \in 0..n |-> iter[1..i]]
  <1>1. n \in Nat /\ DOMAIN s = 1..n /\ \A i \in 1..n : s[i] \in Classes
        OBVIOUS
  <1>2. Unread \in States
        BY DEF Unread, States, Classes
  <1>3. next \in [1..n -> [States -> States]]
        BY <1>1, ReadCharType, Zenon
  <1> HIDE DEF n
  <1>4. PICK F \in [SUBSET (1..n) -> States] : Folds(F, n, Unread, next)
    <2> HIDE DEF next
    <2> QED
        BY <1>1, <1>2, <1>3, FoldExists, Zenon
  <1>5. Iter(F)
    <2>1. ASSUME NEW t \in SUBSET (1..n)
          PROVE  F[t] = IF t = {} THEN Unread ELSE ReadChar(F[t \ {Max(t)}], s[Max(t)])
      <3>1. CASE t = {}
            BY <1>4, <3>1, Zenon DEF Folds
      <3>2. CASE t # {}
        <4>1. Max(t) \in 1..n
          <5>1. t \in SUBSET (0..n)
                BY <1>1
          <5> QED
                BY <1>1, <3>2, <5>1, MaxIs, Zenon
        <4>2. t \ {Max(t)} \in SUBSET (1..n)
              BY Zenon
        <4>3. F[t] = next[Max(t)][F[t \ {Max(t)}]]
              BY <1>4, <3>2, Zenon DEF Folds
        <4>4. F[t \ {Max(t)}] \in States
              BY <4>2, Zenon
        <4> QED
              BY <3>2, <4>1, <4>3, <4>4, Zenon
      <3> QED
          BY <3>1, <3>2, Zenon
    <2> QED
        BY <1>1, <2>1, Zenon
  <1>6. Iter(iter)
    <2> HIDE DEF Iter
    <2> QED
        BY <1>5, Zenon
  <1>7. FoldLeft(ReadChar, Unread, s) = iter[1..n]
        BY <1>1, Zenon DEF FoldLeft, MapThenFoldSet
  <1>8. iter[{}] = Unread
        BY <1>6, Zenon
  <1>9. ASSUME NEW i \in 1..n PROVE iter[1..i] = ReadChar(iter[1..(i - 1)], s[i])
    <2>1. 1..i \in SUBSET (1..n) /\ i \in Nat \ {0}
          BY <1>1
    <2>2. 1..i # {} /\ Max(1..i) = i /\ (1..i) \ {Max(1..i)} = 1..(i - 1)
          BY <2>1, MaxOfPrefix, Zenon
    <2>3. iter[1..i] = ReadChar(iter[(1..i) \ {Max(1..i)}], s[Max(1..i)])
          BY <1>1, <1>6, <2>1, <2>2, Zenon
    <2> QED
          BY <2>2, <2>3, Zenon
  <1> HIDE DEF iter
  <1>10. \A i \in 0..n : i \in {k \in 0..n : iter[1..k] \in States}
    <2> DEFINE P == {k \in 0..n : iter[1..k] \in States}
    <2>1. 0 \in P
          BY <1>1, <1>2, <1>8
    <2>2. ASSUME NEW i \in 1..n, i - 1 \in P PROVE i \in P
      <3>1. i \in 0..n
            BY <1>1
      <3>2. iter[1..(i - 1)] \in States /\ s[i] \in Classes
            BY <1>1, <2>2, Zenon
      <3>3. iter[1..i] \in States
            BY <1>9, <3>2, ReadCharType, Zenon
      <3> QED
            BY <3>1, <3>3, Zenon
    <2> HIDE DEF P
    <2>3. \A i \in 0..n : i \in P
          BY <1>1, <2>1, <2>2, Induction, Zenon
    <2> QED
          BY <2>3, Zenon DEF P
  <1>11. Reads(s, run)
    <2>1. run \in [0..n -> States]
          BY <1>10, Zenon
    <2>2. run[0] = Unread
      <3>1. 1..0 = {} /\ 0 \in 0..n
            BY <1>1
      <3> QED
            BY <1>8, <3>1, Zenon
    <2>3. ASSUME NEW i \in 1..n PROVE run[i] = ReadChar(run[i - 1], s[i])
      <3>1. i \in 0..n /\ i - 1 \in 0..n
            BY <1>1
      <3> QED
            BY <1>9, <3>1, Zenon
    <2> QED
          BY <2>1, <2>2, <2>3, Zenon DEF Reads, n
  <1>12. run[n] = iter[1..n]
        BY <1>1
  <1> HIDE DEF run
  <1> QED
        BY <1>7, <1>11, <1>12, Zenon DEF n

-----------------------------------------------------------------------------
\* A label may begin behind position i.
Begins(s, i) == i = 0 \/ s[i] = "dot"

\* No dot lies between the positions i and j.
Dotless(s, i, j) == \A m \in (i + 1)..(j - 1) : s[m] # "dot"

\* What the loop demands of the character at j.
GoodChar(s, j) ==
  /\ s[j] # "other"
  /\ s[j] = "dash" => ~Begins(s, j - 1)
  /\ s[j] = "dot" =>
       /\ ~Begins(s, j - 1) /\ s[j - 1] # "dash"
       /\ \E i \in 0..(j - 1) : Begins(s, i) /\ Dotless(s, i, j) /\ j - i - 1 <= MaxLabel

\* What it knows after i characters.
Tracks(s, i, st) ==
  /\ st.last = IF i = 0 THEN "dot" ELSE s[i]
  /\ st.nonNumeric <=> \E j \in 1..i : s[j] \in {"letter", "dash"}
  /\ st.partlen \in 0..i
  /\ Begins(s, i - st.partlen)
  /\ Dotless(s, i - st.partlen, i + 1)

\* What reading c does.
Moves(st, c, next) ==
  /\ next.ok <=> st.ok /\ ~Rejects(st, c)
  /\ next.ok =>
       /\ next.last = c
       /\ next.nonNumeric = (st.nonNumeric \/ c \in {"letter", "dash"})
       /\ next.partlen = IF c = "dot" THEN 0 ELSE st.partlen + 1

(***************************************************************************)
(* One round of the loop, as its variables change.                         *)
(***************************************************************************)
LEMMA ReadCharIs ==
  ASSUME NEW st \in States, NEW c \in Classes
  PROVE  Moves(st, c, ReadChar(st, c))
  <1>1. [st EXCEPT !.ok = FALSE].ok = FALSE
        BY Zenon DEF States
  <1>2. CASE ~st.ok \/ Rejects(st, c)
        BY <1>1, <1>2, Zenon DEF ReadChar, Moves
  <1>3. CASE ~(~st.ok \/ Rejects(st, c))
        BY <1>3, Zenon DEF ReadChar, Moves
  <1> QED
        BY <1>2, <1>3, Zenon

\* A place where labels begin is determined by the dotless stretch up to j.
LEMMA SameBegin ==
  ASSUME NEW s, NEW i \in Nat, NEW k \in Nat, NEW j \in Nat, i < j, k < j,
         Begins(s, i), Begins(s, k), Dotless(s, i, j), Dotless(s, k, j)
  PROVE  i = k
  <1>1. CASE i < k
    <2>1. k \in (i + 1)..(j - 1) /\ k # 0
          BY <1>1
    <2> QED
          BY <2>1, Zenon DEF Begins, Dotless
  <1>2. CASE k < i
    <2>1. i \in (k + 1)..(j - 1) /\ i # 0
          BY <1>2
    <2> QED
          BY <2>1, Zenon DEF Begins, Dotless
  <1> QED
        BY <1>1, <1>2

(***************************************************************************)
(* A round rejects the characters that are wrong where they stand.         *)
(***************************************************************************)
LEMMA RejectsBad ==
  ASSUME NEW s \in Seq(Classes), NEW i \in 1..Len(s), NEW st \in States, Tracks(s, i - 1, st)
  PROVE  Rejects(st, s[i]) <=> ~GoodChar(s, i)
  <1> DEFINE h == i - 1
             p == st.partlen
  <1>1. /\ h \in 0..Len(s) /\ i - 1 = h /\ i \in Nat \ {0}
        /\ p \in 0..h /\ h - p \in Nat /\ h - p < i /\ i - (h - p) - 1 = p /\ h + 1 = i
        /\ MaxLabel \in Nat
        BY NameAssumption DEF Tracks
  <1>2. st.last = "dot" <=> Begins(s, h)
        BY <1>1, Zenon DEF Tracks, Begins
  <1>3. ~Begins(s, h) => st.last = s[h]
        BY <1>1, Zenon DEF Tracks, Begins
  <1>4. Begins(s, h - p) /\ Dotless(s, h - p, i)
        BY <1>1, Zenon DEF Tracks
  <1>5. p = 0 => Begins(s, h)
        BY <1>1, <1>4
  <1>6. (\E k \in 0..h : Begins(s, k) /\ Dotless(s, k, i) /\ i - k - 1 <= MaxLabel) <=> p <= MaxLabel
    <2>1. ASSUME NEW k \in 0..h, Begins(s, k), Dotless(s, k, i) PROVE k = h - p
      <3>1. k \in Nat /\ k < i
            BY <1>1
      <3> QED
            BY <1>1, <1>4, <2>1, <3>1, SameBegin, Zenon
    <2>2. h - p \in 0..h
          BY <1>1
    <2> QED
          BY <1>1, <1>4, <2>1, <2>2, Zenon
  <1>7. p > MaxLabel <=> ~(p <= MaxLabel)
        BY <1>1
  <1> HIDE DEF h, p
  <1> QED
        BY <1>1, <1>2, <1>3, <1>5, <1>6, <1>7, Zenon DEF Rejects, GoodChar, p

(***************************************************************************)
(* A round that accepts its character keeps track of the label.            *)
(***************************************************************************)
LEMMA TracksNext ==
  ASSUME NEW s \in Seq(Classes), NEW i \in 1..Len(s), NEW st \in States, Tracks(s, i - 1, st),
         NEW next \in States, next.ok, Moves(st, s[i], next)
  PROVE  Tracks(s, i, next)
  <1> DEFINE h == i - 1
             p == st.partlen
  <1>1. /\ h \in 0..Len(s) /\ i - 1 = h /\ i \in Nat \ {0} /\ h + 1 = i
        /\ p \in 0..h /\ h - p \in Nat /\ p + 1 \in 0..i /\ i - (p + 1) = h - p
        /\ 0 \in 0..i /\ i - 0 = i
        BY DEF Tracks
  <1>2. next.nonNumeric <=> \E j \in 1..i : s[j] \in {"letter", "dash"}
    <2>1. next.nonNumeric \in BOOLEAN /\ st.nonNumeric \in BOOLEAN
          BY Zenon DEF States
    <2>2. \A j : j \in 1..i <=> j \in 1..h \/ j = i
          BY <1>1
    <2> QED
          BY <1>1, <2>1, <2>2, Zenon DEF Tracks, Moves
  <1>3. CASE s[i] = "dot"
    <2>1. (i + 1)..((i + 1) - 1) = {}
          BY <1>1
    <2>2. Dotless(s, i, i + 1)
          BY <2>1, Zenon DEF Dotless
    <2> QED
          BY <1>1, <1>2, <1>3, <2>2, Zenon DEF Tracks, Begins, Moves
  <1>4. CASE s[i] # "dot"
    <2>1. Begins(s, h - p) /\ Dotless(s, h - p, i)
          BY <1>1, Zenon DEF Tracks
    <2>2. \A j : j \in ((h - p) + 1)..((i + 1) - 1) => j \in ((h - p) + 1)..(i - 1) \/ j = i
          BY <1>1
    <2>3. Dotless(s, h - p, i + 1)
          BY <1>4, <2>1, <2>2, Zenon DEF Dotless
    <2> QED
          BY <1>1, <1>2, <1>4, <2>1, <2>3, Zenon DEF Tracks, Moves
  <1> QED
        BY <1>3, <1>4, Zenon

(***************************************************************************)
(* After i rounds the loop has accepted just the good characters, and      *)
(* knows the label it is in.                                               *)
(***************************************************************************)
LEMMA NameLoop ==
  ASSUME NEW s \in Seq(Classes), NEW run, Reads(s, run)
  PROVE  \A i \in 0..Len(s) :
           /\ run[i].ok <=> \A j \in 1..i : GoodChar(s, j)
           /\ run[i].ok => Tracks(s, i, run[i])
  <1> DEFINE n == Len(s)
             Good(i) == \A j \in 1..i : GoodChar(s, j)
             P == {i \in 0..n : (run[i].ok <=> Good(i)) /\ (run[i].ok => Tracks(s, i, run[i]))}
  <1>1. n \in Nat /\ \A i \in 1..n : s[i] \in Classes
        OBVIOUS
  <1>2. 0 \in P
    <2>1. 0 \in 0..n /\ 1..0 = {} /\ (0 + 1)..((0 + 1) - 1) = {} /\ 0 - 0 = 0 /\ 0 \in 0..0
          BY <1>1
    <2>2. run[0] = Unread
          BY Zenon DEF Reads
    <2>3. Tracks(s, 0, Unread)
          BY <2>1, Zenon DEF Tracks, Unread, Begins, Dotless
    <2>4. Unread.ok
          BY Zenon DEF Unread
    <2> QED
          BY <2>1, <2>2, <2>3, <2>4, Zenon
  <1>3. ASSUME NEW i \in 1..n, i - 1 \in P PROVE i \in P
    <2> DEFINE st == run[i - 1]
    <2>1. /\ i \in 0..n /\ i - 1 \in 0..n
          /\ \A j : j \in 1..i <=> j \in 1..(i - 1) \/ j = i
          BY <1>1
    <2>2. st \in States /\ run[i] \in States /\ run[i] = ReadChar(st, s[i]) /\ s[i] \in Classes
          BY <1>1, <2>1, Zenon DEF Reads
    <2>3. Good(i) <=> Good(i - 1) /\ GoodChar(s, i)
          BY <2>1, Zenon
    <2>4. (st.ok <=> Good(i - 1)) /\ (st.ok => Tracks(s, i - 1, st))
          BY <1>3, Zenon
    <2>5. Moves(st, s[i], run[i])
          BY <2>2, ReadCharIs, Zenon
    <2> HIDE DEF st, Good
    <2>6. st.ok => (Rejects(st, s[i]) <=> ~GoodChar(s, i))
          BY <2>2, <2>4, RejectsBad, Zenon DEF n
    <2>7. run[i].ok => Tracks(s, i, run[i])
      <3>1. run[i].ok => st.ok
            BY <2>5, Zenon DEF Moves
      <3> QED
            BY <2>2, <2>4, <2>5, <3>1, TracksNext, Zenon DEF n
    <2> QED
          BY <2>1, <2>3, <2>4, <2>5, <2>6, <2>7, Zenon DEF Moves
  <1>4. \A i \in 0..n : i \in P
    <2> HIDE DEF P
    <2> QED
        BY <1>1, <1>2, <1>3, Induction, Zenon
  <1> QED
        BY <1>4, Zenon

-----------------------------------------------------------------------------
\* Where labels begin or end; n characters without a final dot.
Bare(s)  == IF s # <<>> /\ s[Len(s)] = "dot" THEN Len(s) - 1 ELSE Len(s)
\* The dots, and the places before the first and behind the last character.
Edges(s) == {0, Bare(s) + 1} \cup {i \in 1..Bare(s) : s[i] = "dot"}

\* Positions i and j enclose a label.
Encloses(s, i, j) == i \in Edges(s) /\ j \in Edges(s) /\ i < j /\ \A k \in Edges(s) : k <= i \/ k >= j

\* Both definitions of a name, in the same words.
NameBy(s) ==
  /\ Bare(s) \in 1..MaxName
  /\ \A j \in 1..Len(s) : GoodChar(s, j)
  /\ \E j \in 1..Len(s) : s[j] \in {"letter", "dash"}
  /\ s[Len(s)] # "dash"
  /\ \E i \in 0..Len(s) : Begins(s, i) /\ Dotless(s, i, Len(s) + 1) /\ Len(s) - i <= MaxLabel

(***************************************************************************)
(* isDomainName accepts the names whose characters are good where they     *)
(* stand.                                                                  *)
(***************************************************************************)
LEMMA LoopName ==
  ASSUME NEW s \in Seq(Classes)
  PROVE  IsDomainName(s) <=> NameBy(s)
  <1> DEFINE n == Len(s)
  <1>1. PICK run : Reads(s, run) /\ FoldLeft(ReadChar, Unread, s) = run[n]
        BY NameRun, Zenon
  <1> DEFINE end == run[n]
  <1>2. /\ end.ok <=> \A j \in 1..n : GoodChar(s, j)
        /\ end.ok => Tracks(s, n, end)
    <2>1. n \in 0..n
          OBVIOUS
    <2> QED
        BY <1>1, <2>1, NameLoop, Zenon
  <1>3. IsDomainName(s) <=>
          /\ s # <<>> /\ n <= MaxName + 1
          /\ n = MaxName + 1 => s[n] = "dot"
          /\ end.ok /\ end.nonNumeric
          /\ end.last # "dash" /\ end.partlen <= MaxLabel
        BY <1>1, Zenon DEF IsDomainName
  <1>4. n \in Nat /\ MaxName \in Nat /\ MaxLabel \in Nat /\ (s = <<>> <=> n = 0)
        BY NameAssumption
  <1>5. CASE s = <<>>
    <2>1. Bare(s) = 0
          BY <1>4, <1>5, Zenon DEF Bare
    <2> QED
          BY <1>3, <1>5, <2>1 DEF NameBy
  <1>6. CASE s # <<>> /\ ~end.ok
        BY <1>2, <1>3, <1>6, Zenon DEF NameBy
  <1>7. CASE s # <<>> /\ end.ok
    <2>1. Tracks(s, n, end) /\ \A j \in 1..n : GoodChar(s, j)
          BY <1>2, <1>7, Zenon
    <2> HIDE DEF end
    <2>2. end.last = s[n]
          BY <1>4, <1>7, <2>1, Zenon DEF Tracks
    <2>3. end.nonNumeric <=> \E j \in 1..n : s[j] \in {"letter", "dash"}
          BY <2>1, Zenon DEF Tracks
    <2>4. end.partlen <= MaxLabel <=>
            \E i \in 0..n : Begins(s, i) /\ Dotless(s, i, n + 1) /\ n - i <= MaxLabel
      <3> DEFINE p == end.partlen
      <3>1. p \in 0..n /\ Begins(s, n - p) /\ Dotless(s, n - p, n + 1)
            BY <2>1, Zenon DEF Tracks
      <3>2. n - p \in 0..n /\ n - p \in Nat /\ n - p < n + 1 /\ n - (n - p) = p /\ n + 1 \in Nat
            BY <1>4, <3>1
      <3>3. ASSUME NEW i \in 0..n, Begins(s, i), Dotless(s, i, n + 1) PROVE i = n - p
        <4>1. i \in Nat /\ i < n + 1
              BY <1>4
        <4> QED
              BY <3>1, <3>2, <3>3, <4>1, SameBegin, Zenon
      <3> QED
            BY <3>1, <3>2, <3>3, Zenon
    <2>5. (n <= MaxName + 1 /\ (n = MaxName + 1 => s[n] = "dot")) <=> Bare(s) \in 1..MaxName
      <3>1. n \in Nat \ {0} /\ n \in 1..n
            BY <1>4, <1>7
      <3>2. CASE s[n] = "dot"
        <4>1. ~Begins(s, n - 1)
              BY <2>1, <3>1, <3>2, Zenon DEF GoodChar
        <4>2. n # 1
              BY <4>1 DEF Begins
        <4>3. Bare(s) = n - 1
              BY <1>7, <3>2, Zenon DEF Bare
        <4>4. n <= MaxName + 1 <=> n - 1 \in 1..MaxName
          <5> HIDE DEF n
          <5> QED
              BY <1>4, <3>1, <4>2
        <4> QED
              BY <3>2, <4>3, <4>4, Zenon
      <3>3. CASE s[n] # "dot"
        <4>1. Bare(s) = n
              BY <1>7, <3>3, Zenon DEF Bare
        <4>2. (n <= MaxName + 1 /\ (n = MaxName + 1 => FALSE)) <=> n \in 1..MaxName
              BY <1>4, <3>1
        <4> QED
              BY <3>3, <4>1, <4>2, Zenon
      <3> QED
          BY <3>2, <3>3, Zenon
    <2> QED
          BY <1>3, <1>7, <2>1, <2>2, <2>3, <2>4, <2>5, Zenon DEF NameBy
  <1> QED
        BY <1>5, <1>6, <1>7, Zenon

\* Two edges next to each other enclose a label without dots.
LEMMA EdgesAre ==
  ASSUME NEW s \in Seq(Classes), s # <<>>
  PROVE  /\ Bare(s) \in Nat /\ Bare(s) <= Len(s)
         /\ Edges(s) \in SUBSET (0..(Bare(s) + 1))
         /\ 0 \in Edges(s) /\ Bare(s) + 1 \in Edges(s)
         /\ \A i \in Edges(s) : i <= Bare(s) => Begins(s, i)
         /\ \A i \in 0..Bare(s) : Begins(s, i) => i \in Edges(s)
         /\ s[Len(s)] = "dot" => Bare(s) + 1 = Len(s)
         /\ s[Len(s)] # "dot" => Bare(s) = Len(s)
  <1>1. Len(s) \in Nat \ {0}
        OBVIOUS
  <1>2. Bare(s) \in Nat /\ Bare(s) <= Len(s)
        BY <1>1 DEF Bare
  <1>3. (s[Len(s)] = "dot" => Bare(s) + 1 = Len(s)) /\ (s[Len(s)] # "dot" => Bare(s) = Len(s))
        BY <1>1 DEF Bare
  <1> DEFINE b == Bare(s)
  <1> HIDE DEF b
  <1>4. b \in Nat /\ Edges(s) = {0, b + 1} \cup {i \in 1..b : s[i] = "dot"}
        BY <1>2, Zenon DEF Edges, b
  <1>5. Edges(s) \in SUBSET (0..(b + 1)) /\ 0 \in Edges(s) /\ b + 1 \in Edges(s)
        BY <1>4
  <1>6. ASSUME NEW i \in Edges(s), i <= b PROVE Begins(s, i)
    <2>1. i # b + 1
          BY <1>4, <1>6
    <2> QED
          BY <1>4, <2>1, Zenon DEF Begins
  <1>7. ASSUME NEW i \in 0..b, Begins(s, i) PROVE i \in Edges(s)
    <2>1. i = 0 \/ i \in 1..b
          BY <1>4
    <2> QED
          BY <1>4, <1>7, <2>1, Zenon DEF Begins
  <1> QED
        BY <1>2, <1>3, <1>5, <1>6, <1>7, Zenon DEF b

(***************************************************************************)
(* Two edges enclose a label when no dot lies between them.                *)
(***************************************************************************)
LEMMA EnclosesIs ==
  ASSUME NEW s \in Seq(Classes), s # <<>>, NEW i \in Edges(s), NEW j \in Edges(s), i < j
  PROVE  Encloses(s, i, j) <=> Dotless(s, i, j)
  <1> DEFINE b == Bare(s)
  <1>0. /\ b \in Nat /\ Edges(s) \in SUBSET (0..(b + 1))
        /\ \A k \in Edges(s) : k <= b => Begins(s, k)
        /\ \A k \in 0..b : Begins(s, k) => k \in Edges(s)
        BY EdgesAre, Zenon
  <1> HIDE DEF b
  <1>1. i \in 0..(b + 1) /\ j \in 0..(b + 1)
        BY <1>0, Zenon
  <1>2. ASSUME Encloses(s, i, j), NEW m \in (i + 1)..(j - 1), s[m] = "dot" PROVE FALSE
    <2>1. m \in 0..b /\ ~(m <= i) /\ ~(m >= j)
          BY <1>0, <1>1
    <2> QED
          BY <1>0, <1>2, <2>1, Zenon DEF Encloses, Begins
  <1>3. ASSUME Dotless(s, i, j), NEW k \in Edges(s), ~(k <= i \/ k >= j) PROVE FALSE
    <2>1. k \in 0..(b + 1)
          BY <1>0, Zenon
    <2>2. k \in (i + 1)..(j - 1) /\ k <= b /\ k # 0
          BY <1>0, <1>1, <1>3, <2>1
    <2> QED
          BY <1>0, <1>3, <2>2, Zenon DEF Dotless, Begins
  <1> QED
        BY <1>2, <1>3, Zenon DEF Encloses, Dotless

\* What ByLabels says of the label between i and j.
GoodLabel(s, i, j) ==
  /\ j - i - 1 \in 1..MaxLabel
  /\ s[i + 1] # "dash" /\ s[j - 1] # "dash"

(***************************************************************************)
(* The definition by labels, with edges.                                   *)
(***************************************************************************)
LEMMA ByLabelsIs ==
  ASSUME NEW s \in Seq(Classes)
  PROVE  ByLabels(s) <=>
           /\ Bare(s) \in 1..MaxName
           /\ \A i \in 1..Bare(s) : s[i] # "other"
           /\ \E i \in 1..Bare(s) : s[i] \in {"letter", "dash"}
           /\ \A i, j \in Edges(s) : Encloses(s, i, j) => GoodLabel(s, i, j)
  BY Zenon DEF ByLabels, Bare, Edges, Encloses, GoodLabel

\* Between an edge and the next one above it, and the one below it.
LEMMA NextEdge ==
  ASSUME NEW s \in Seq(Classes), s # <<>>, NEW i \in Edges(s), i <= Bare(s)
  PROVE  \E j \in Edges(s) : Encloses(s, i, j)
  <1> DEFINE b == Bare(s)
             S == {k \in Edges(s) : i < k}
  <1>1. b \in Nat /\ Edges(s) \in SUBSET (0..(b + 1)) /\ b + 1 \in Edges(s)
        BY EdgesAre, Zenon
  <1> HIDE DEF b
  <1>2. S \in SUBSET Nat /\ b + 1 \in S
        BY <1>1 DEF b
  <1>3. PICK j \in S : \A k \in S : j <= k
    <2> HIDE DEF S
    <2> QED
        BY <1>2, Least, Zenon
  <1>4. ASSUME NEW k \in Edges(s) PROVE k <= i \/ k >= j
    <2>1. i \in 0..(b + 1) /\ j \in 0..(b + 1) /\ k \in 0..(b + 1)
          BY <1>1, Zenon
    <2> QED
          BY <1>1, <1>3, <2>1
  <1> QED
        BY <1>3, <1>4, Zenon DEF Encloses

(***************************************************************************)
(* Every edge but the first is the end of a label.                         *)
(***************************************************************************)
LEMMA LastEdge ==
  ASSUME NEW s \in Seq(Classes), s # <<>>, NEW j \in Edges(s), 0 < j
  PROVE  \E i \in Edges(s) : Encloses(s, i, j)
  <1> DEFINE b == Bare(s)
             S == {k \in Edges(s) : k < j}
  <1>1. b \in Nat /\ Edges(s) \in SUBSET (0..(b + 1)) /\ 0 \in Edges(s)
        BY EdgesAre, Zenon
  <1> HIDE DEF b
  <1>2. S \in SUBSET (0..(b + 1)) /\ 0 \in S /\ b + 1 \in Nat
        BY <1>1
  <1>3. PICK i \in S : \A k \in S : k <= i
    <2> HIDE DEF S
    <2> QED
        BY <1>2, Greatest, Zenon
  <1>4. ASSUME NEW k \in Edges(s) PROVE k <= i \/ k >= j
    <2>1. i \in 0..(b + 1) /\ j \in 0..(b + 1) /\ k \in 0..(b + 1)
          BY <1>1, Zenon
    <2> QED
          BY <1>1, <1>3, <2>1
  <1> QED
        BY <1>3, <1>4, Zenon DEF Encloses

\* What encloses a label that the loop accepts encloses a good label.
LEMMA LoopToLabel ==
  ASSUME NEW s \in Seq(Classes), s # <<>>, NameBy(s),
         NEW i \in Edges(s), NEW j \in Edges(s), Encloses(s, i, j)
  PROVE  GoodLabel(s, i, j)
  <1> DEFINE b == Bare(s)
             n == Len(s)
  <1>1. /\ b \in Nat \ {0} /\ b <= n /\ n \in Nat
        /\ s[n] = "dot" => b + 1 = n
        /\ s[n] # "dot" => b = n
    <2>1. b \in 1..MaxName
          BY Zenon DEF NameBy
    <2>2. n \in Nat
          OBVIOUS
    <2>3. /\ b <= n
          /\ s[n] = "dot" => b + 1 = n
          /\ s[n] # "dot" => b = n
          BY EdgesAre, Zenon
    <2> HIDE DEF b, n
    <2> QED
          BY <2>1, <2>2, <2>3
  <1>2. /\ i \in 0..(b + 1) /\ j \in 0..(b + 1) /\ i < j
        /\ Dotless(s, i, j)
        /\ Edges(s) \in SUBSET (0..(b + 1))
        /\ \A k \in Edges(s) : k <= b => Begins(s, k)
        BY EdgesAre, EnclosesIs, Zenon DEF Encloses
  <1>3. MaxLabel \in Nat
        BY NameAssumption
  <1>4. Begins(s, i)
    <2>1. i <= b
          BY <1>1, <1>2
    <2> QED
          BY <1>2, <2>1, Zenon
  <1> HIDE DEF b, n
  <1>5. CASE j <= n
    <2>1. j \in 1..n /\ j - 1 \in 0..n /\ i \in Nat /\ j \in Nat
          BY <1>1, <1>2, <1>5
    <2>2. s[j] = "dot"
      <3>1. CASE j <= b
            BY <1>2, <2>1, <3>1 DEF Begins
      <3>2. CASE j > b
        <4>1. j = b + 1 /\ b # n
              BY <1>1, <1>2, <1>5, <3>2
        <4>2. j = n /\ s[n] = "dot"
              BY <1>1, <4>1
        <4> QED
              BY <4>2, Zenon
      <3> QED
            BY <1>1, <2>1, <3>1, <3>2
    <2>3. /\ ~Begins(s, j - 1) /\ s[j - 1] # "dash"
          /\ \E k \in 0..(j - 1) : Begins(s, k) /\ Dotless(s, k, j) /\ j - k - 1 <= MaxLabel
          BY <2>1, <2>2, Zenon DEF NameBy, GoodChar, n
    <2>4. PICK k \in 0..(j - 1) : Begins(s, k) /\ Dotless(s, k, j) /\ j - k - 1 <= MaxLabel
          BY <2>3, Zenon
    <2>5. k = i
      <3>1. k \in Nat /\ k < j
            BY <2>1
      <3> QED
            BY <1>2, <1>4, <2>1, <2>4, <3>1, SameBegin, Zenon
    <2>6. i # j - 1
          BY <1>4, <2>3, Zenon
    <2>7. j - i - 1 \in 1..MaxLabel /\ i + 1 \in 1..n /\ (i + 1) - 1 = i
          BY <1>1, <1>2, <1>3, <1>5, <2>1, <2>4, <2>5, <2>6
    <2>8. s[i + 1] # "dash"
          BY <1>4, <2>7, Zenon DEF NameBy, GoodChar, n
    <2> QED
          BY <2>3, <2>7, <2>8, Zenon DEF GoodLabel
  <1>6. CASE j > n
    <2>1. j = n + 1 /\ b = n /\ s[n] # "dot" /\ j - 1 = n
          BY <1>1, <1>2, <1>6
    <2>2. s[n] # "dash" /\ \E k \in 0..n : Begins(s, k) /\ Dotless(s, k, n + 1) /\ n - k <= MaxLabel
          BY Zenon DEF NameBy, n
    <2>3. PICK k \in 0..n : Begins(s, k) /\ Dotless(s, k, n + 1) /\ n - k <= MaxLabel
          BY <2>2, Zenon
    <2>4. k = i
      <3>1. k \in Nat /\ k < j /\ i \in Nat /\ j \in Nat
            BY <1>1, <1>2, <2>1
      <3> QED
            BY <1>2, <1>4, <2>1, <2>3, <3>1, SameBegin, Zenon
    <2>5. i # n
          BY <1>1, <1>4, <2>1 DEF Begins
    <2>6. j - i - 1 \in 1..MaxLabel /\ i + 1 \in 1..n /\ (i + 1) - 1 = i
          BY <1>1, <1>2, <1>3, <2>1, <2>3, <2>4, <2>5
    <2>7. s[i + 1] # "dash"
          BY <1>4, <2>6, Zenon DEF NameBy, GoodChar, n
    <2> QED
          BY <2>1, <2>2, <2>6, <2>7, Zenon DEF GoodLabel
  <1> QED
        BY <1>1, <1>2, <1>5, <1>6

\* A name of good labels has good characters only.
LEMMA LabelToChar ==
  ASSUME NEW s \in Seq(Classes), s # <<>>, \A i \in 1..Bare(s) : s[i] # "other",
         \A i, j \in Edges(s) : Encloses(s, i, j) => GoodLabel(s, i, j),
         NEW j \in 1..Len(s)
  PROVE  GoodChar(s, j)
  <1> DEFINE b == Bare(s)
             n == Len(s)
  <1>1. /\ b \in Nat /\ b <= n
        /\ s[n] = "dot" => b + 1 = n
        /\ s[n] # "dot" => b = n
        /\ Edges(s) \in SUBSET (0..(b + 1)) /\ b + 1 \in Edges(s)
        /\ \A k \in 0..b : Begins(s, k) => k \in Edges(s)
        /\ \A k \in Edges(s) : k <= b => Begins(s, k)
        BY EdgesAre, Zenon
  <1>2. n \in Nat /\ MaxLabel \in Nat
        BY NameAssumption
  <1> HIDE DEF b, n
  <1>3. j \in 1..b \/ (j = b + 1 /\ s[j] = "dot")
    <2>1. j \in 1..n
          BY Zenon DEF n
    <2>2. j \in 1..b \/ (j = b + 1 /\ j = n /\ b # n)
          BY <1>1, <1>2, <2>1
    <2> QED
          BY <1>1, <2>2, Zenon
  <1>4. s[j] # "other"
    <2>1. "dot" # "other"
          OBVIOUS
    <2> QED
        BY <1>3, <2>1, Zenon DEF b
  <1>5. ASSUME s[j] = "dash" PROVE ~Begins(s, j - 1)
    <2> SUFFICES ASSUME Begins(s, j - 1) PROVE FALSE
        BY Zenon
    <2>1. "dash" # "dot"
          OBVIOUS
    <2>2. j - 1 \in 0..b /\ j - 1 <= b /\ (j - 1) + 1 = j
          BY <1>1, <1>3, <1>5, <2>1
    <2>3. PICK k \in Edges(s) : Encloses(s, j - 1, k)
          BY <1>1, <2>2, NextEdge, Zenon DEF b
    <2> QED
          BY <1>1, <1>5, <2>2, <2>3, Zenon DEF GoodLabel
  <1>6. ASSUME s[j] = "dot"
        PROVE  /\ ~Begins(s, j - 1) /\ s[j - 1] # "dash"
               /\ \E i \in 0..(j - 1) : Begins(s, i) /\ Dotless(s, i, j) /\ j - i - 1 <= MaxLabel
    <2>1. j \in Edges(s) /\ 0 < j /\ j \in Nat /\ j - 1 \in 0..b /\ j \in 1..(b + 1)
      <3>1. j \in 0..b => j \in Edges(s)
            BY <1>1, <1>6, Zenon DEF Begins
      <3> QED
          BY <1>1, <1>3, <3>1
    <2>2. PICK i \in Edges(s) : Encloses(s, i, j)
          BY <2>1, LastEdge, Zenon
    <2>3. GoodLabel(s, i, j) /\ i < j /\ Dotless(s, i, j)
          BY <2>1, <2>2, EnclosesIs, Zenon DEF Encloses
    <2>4. i \in 0..(b + 1)
          BY <1>1, Zenon
    <2>5. i \in 0..(j - 1) /\ i <= b /\ j - i - 1 <= MaxLabel /\ ~(j - 1 <= i) /\ ~(j - 1 >= j)
          BY <1>1, <1>2, <2>1, <2>3, <2>4 DEF GoodLabel
    <2>6. Begins(s, i)
          BY <1>1, <2>5, Zenon
    <2>7. ~Begins(s, j - 1)
          BY <1>1, <2>1, <2>2, <2>5, Zenon DEF Encloses
    <2>8. s[j - 1] # "dash"
          BY <2>3, Zenon DEF GoodLabel
    <2> QED
          BY <2>3, <2>5, <2>6, <2>7, <2>8, Zenon
  <1> QED
        BY <1>4, <1>5, <1>6, Zenon DEF GoodChar

\* The last label of a name is short and does not end with a dash.
LEMMA LabelToEnd ==
  ASSUME NEW s \in Seq(Classes), s # <<>>, Bare(s) # 0,
         \A i, j \in Edges(s) : Encloses(s, i, j) => GoodLabel(s, i, j)
  PROVE  /\ s[Len(s)] # "dash"
         /\ \E i \in 0..Len(s) : Begins(s, i) /\ Dotless(s, i, Len(s) + 1) /\ Len(s) - i <= MaxLabel
  <1> DEFINE b == Bare(s)
             n == Len(s)
  <1>1. /\ b \in Nat /\ b <= n
        /\ s[n] = "dot" => b + 1 = n
        /\ s[n] # "dot" => b = n
        /\ Edges(s) \in SUBSET (0..(b + 1)) /\ b + 1 \in Edges(s)
        /\ \A k \in Edges(s) : k <= b => Begins(s, k)
        BY EdgesAre, Zenon
  <1>2. n \in Nat /\ MaxLabel \in Nat
        BY NameAssumption
  <1> HIDE DEF b, n
  <1>3. CASE s[n] = "dot"
    <2>1. n \in 0..n /\ (n + 1)..((n + 1) - 1) = {} /\ n - n <= MaxLabel
          BY <1>2
    <2>2. "dot" # "dash"
          OBVIOUS
    <2> QED
          BY <1>3, <2>1, <2>2, Zenon DEF Begins, Dotless, n
  <1>4. CASE s[n] # "dot"
    <2>1. b = n /\ 0 < b + 1 /\ b + 1 = n + 1 /\ (n + 1) - 1 = n
          BY <1>1, <1>2, <1>4
    <2>2. PICK i \in Edges(s) : Encloses(s, i, b + 1)
          BY <1>1, <2>1, LastEdge, Zenon
    <2>3. GoodLabel(s, i, n + 1) /\ i < n + 1 /\ Dotless(s, i, n + 1)
          BY <1>1, <2>1, <2>2, EnclosesIs, Zenon DEF Encloses
    <2>4. i \in 0..(b + 1)
          BY <1>1, Zenon
    <2>5. i \in 0..n /\ i <= b /\ n - i <= MaxLabel
          BY <1>1, <1>2, <2>1, <2>3, <2>4 DEF GoodLabel
    <2>6. Begins(s, i)
          BY <1>1, <2>5, Zenon
    <2>7. s[n] # "dash"
          BY <2>1, <2>3, Zenon DEF GoodLabel
    <2> QED
          BY <2>3, <2>5, <2>6, <2>7, Zenon DEF n
  <1> QED
        BY <1>3, <1>4, Zenon

(***************************************************************************)
(* isDomainName, which only looks at one character and the one before it,  *)
(* accepts what consists of good labels, for names of any length and any   *)
(* limits (isDomainName, proxy/domains.go).                                *)
(***************************************************************************)
THEOREM NamesAreLabels == \A s \in Seq(Classes) : IsDomainName(s) <=> ByLabels(s)
  <1> SUFFICES ASSUME NEW s \in Seq(Classes) PROVE NameBy(s) <=> ByLabels(s)
      BY LoopName, Zenon
  <1> DEFINE b == Bare(s)
             n == Len(s)
  <1>1. n \in Nat
        OBVIOUS
  <1>2. CASE s = <<>>
    <2>1. b = 0
          BY <1>2 DEF Bare
    <2>2. ~(b \in 1..MaxName)
          BY <2>1, NameAssumption
    <2> QED
          BY <2>2, ByLabelsIs, Zenon DEF NameBy
  <1>3. CASE s # <<>>
    <2>1. /\ b \in Nat /\ b <= n
          /\ s[n] = "dot" => b + 1 = n
          /\ s[n] # "dot" => b = n
          BY <1>3, EdgesAre, Zenon
    <2> HIDE DEF b, n
    <2>2. /\ \A i : i \in 1..b => i \in 1..n
          /\ \A i : i \in 1..n => i \in 1..b \/ (i = n /\ s[n] = "dot")
          BY <1>1, <2>1
    <2>3. ASSUME NameBy(s) PROVE ByLabels(s)
      <3>1. \A i, j \in Edges(s) : Encloses(s, i, j) => GoodLabel(s, i, j)
            BY <1>3, <2>3, LoopToLabel, Zenon
      <3>2. \A i \in 1..b : s[i] # "other"
            BY <2>2, <2>3, Zenon DEF NameBy, GoodChar, n
      <3>3. \E i \in 1..b : s[i] \in {"letter", "dash"}
        <4>1. "dot" \notin {"letter", "dash"}
              OBVIOUS
        <4> QED
            BY <2>2, <2>3, <4>1, Zenon DEF NameBy, n
      <3>4. b \in 1..MaxName
            BY <2>3, Zenon DEF NameBy, b
      <3> QED
            BY <3>1, <3>2, <3>3, <3>4, ByLabelsIs, Zenon DEF b
    <2>4. ASSUME ByLabels(s) PROVE NameBy(s)
      <3>1. /\ b \in 1..MaxName
            /\ \A i \in 1..b : s[i] # "other"
            /\ \E i \in 1..b : s[i] \in {"letter", "dash"}
            /\ \A i, j \in Edges(s) : Encloses(s, i, j) => GoodLabel(s, i, j)
            BY <2>4, ByLabelsIs, Zenon DEF b
      <3>2. \A j \in 1..n : GoodChar(s, j)
            BY <1>3, <3>1, LabelToChar, Zenon DEF b, n
      <3>3. b # 0
            BY <3>1, NameAssumption
      <3>4. /\ s[n] # "dash"
            /\ \E i \in 0..n : Begins(s, i) /\ Dotless(s, i, n + 1) /\ n - i <= MaxLabel
            BY <1>3, <3>1, <3>3, LabelToEnd, Zenon DEF b, n
      <3>5. \E j \in 1..n : s[j] \in {"letter", "dash"}
            BY <2>2, <3>1, Zenon
      <3> QED
            BY <3>1, <3>2, <3>4, <3>5, Zenon DEF NameBy, b, n
    <2> QED
          BY <2>3, <2>4, Zenon
  <1> QED
        BY <1>2, <1>3, Zenon

-----------------------------------------------------------------------------

(***************************************************************************)
(* A name is one label below w when w is what is left without its first    *)
(* label.                                                                  *)
(***************************************************************************)
LEMMA OneLabel ==
  ASSUME NEW L, NEW d \in Seq(L) \ {<<>>}, NEW w \in Seq(L)
  PROVE  /\ (Len(d) = Len(w) + 1 /\ Tail(d) = w) <=> d = <<Head(d)>> \o w
         /\ Tail(<<"*">> \o Tail(d)) = Tail(d) /\ <<"*">> \o Tail(d) # <<>> /\ (<<"*">> \o Tail(d))[1] = "*"
  <1>1. Head(d) \in L /\ Tail(d) \in Seq(L) /\ d = <<Head(d)>> \o Tail(d) /\ Len(d) = Len(Tail(d)) + 1
        OBVIOUS
  <1>2. ASSUME d = <<Head(d)>> \o w PROVE Len(d) = Len(w) + 1 /\ Tail(d) = w
        BY <1>2, <1>1
  <1>3. /\ Tail(<<"*">> \o Tail(d)) = Tail(d) /\ <<"*">> \o Tail(d) # <<>> /\ (<<"*">> \o Tail(d))[1] = "*"
        BY <1>1
  <1> QED
        BY <1>1, <1>2, <1>3, Zenon

(***************************************************************************)
(* With wildcards every domain is still covered by the name that stands    *)
(* for it, and the wildcard is used just for the domains one level below a *)
(* configured one, for any options and domains (certificate/wildcards.go). *)
(***************************************************************************)
THEOREM WildcardsFit ==
  ASSUME NEW L, NEW options \in Seq(Seq(L)), NEW ds \in Seq(Seq(L) \ {<<>>}), NEW i \in DOMAIN ds
  PROVE  LET names == ApplyWildcards(NewWildcards(options), ds)
         IN Covers(names[i], ds[i]) /\ names[i] = NameFor(options, ds[i])
  <1> DEFINE ws == NewWildcards(options)
             d == ds[i]
             I == {k \in 1..Len(ws) : Len(d) = Len(ws[k]) + 1 /\ Tail(d) = ws[k]}
             One(w) == Len(d) = Len(w) + 1 /\ Tail(d) = w
  <1>1. d \in Seq(L) \ {<<>>}
        OBVIOUS
  <1>2. ws \in Seq(Seq(L)) /\ ToSet(ws) = ToSet(options) \cap (ToSet(options) \ {<<>>})
        BY KeepSet, Zenon DEF NewWildcards
  <1>3. ApplyWildcards(ws, ds)[i] = ApplyWildcard(ws, d)
        BY Zenon DEF ApplyWildcards
  <1>4. ApplyWildcard(ws, d) = IF (IF I # {} THEN Min(I) ELSE 0) = 0 THEN d
                               ELSE <<"*">> \o ws[IF I # {} THEN Min(I) ELSE 0]
        BY Zenon DEF ApplyWildcard, SelectInSeq
  <1>5. ASSUME NEW w \in ToSet(options) PROVE w \in Seq(L) /\ (One(w) <=> d = <<Head(d)>> \o w)
    <2>1. w \in Seq(L)
          BY DEF ToSet
    <2> QED
          BY <1>1, <2>1, OneLabel, Zenon
  <1>6. <<"*">> \o Tail(d) # <<>> /\ (<<"*">> \o Tail(d))[1] = "*" /\ Tail(<<"*">> \o Tail(d)) = Tail(d)
        BY <1>1, OneLabel, Zenon
  <1>7. DOMAIN ws = 1..Len(ws) /\ Len(ws) \in Nat
        BY <1>2
  <1> HIDE DEF ws, d, One
  <1>8. CASE I = {}
    <2>1. ~ \E w \in ToSet(options) : w # <<>> /\ d = <<Head(d)>> \o w
      <3> SUFFICES ASSUME NEW w \in ToSet(options), w # <<>>, d = <<Head(d)>> \o w PROVE FALSE
          BY Zenon
      <3>1. w \in ToSet(ws)
            BY <1>2, Zenon
      <3>2. PICK k \in 1..Len(ws) : w = ws[k]
            BY <3>1, <1>7, Zenon DEF ToSet
      <3>3. One(w)
            BY <1>5, Zenon
      <3> QED
            BY <3>2, <3>3, <1>8, Zenon DEF One
    <2> QED
        BY <1>3, <1>4, <1>8, <2>1, Zenon DEF NameFor, Covers, d, ws
  <1>9. CASE I # {}
    <2>1. I \in SUBSET Nat
          BY <1>7
    <2>2. Min(I) \in I
      <3> HIDE DEF I
      <3> QED
          BY <1>9, <2>1, MinIs, Zenon
    <2>3. Min(I) # 0
      <3>1. \A k \in I : k # 0
            BY <1>7
      <3> HIDE DEF I
      <3> QED
          BY <2>2, <3>1, Zenon
    <2>4. ApplyWildcard(ws, d) = <<"*">> \o ws[Min(I)]
      <3> HIDE DEF I
      <3> QED
          BY <1>4, <1>9, <2>3, Zenon
    <2>5. ws[Min(I)] = Tail(d) /\ One(ws[Min(I)]) /\ ws[Min(I)] \in ToSet(ws)
          BY <2>2, <1>7, Zenon DEF One, ToSet
    <2>6. \E w \in ToSet(options) : w # <<>> /\ d = <<Head(d)>> \o w
          BY <1>2, <1>5, <2>5, Zenon
    <2> HIDE DEF I
    <2> QED
        BY <1>1, <1>3, <1>6, <2>4, <2>5, <2>6, Zenon DEF NameFor, Covers, d, ws
  <1> QED
      BY <1>8, <1>9, Zenon

-----------------------------------------------------------------------------

\* The operations of a header rule.
Ops == {"add", "replace", "default", "delete"}

(* Rules for headers N with values V, which only delete leaves empty. *)
RuleSet(N, V) == {r \in [op : Ops, name : N, value : V] : r.op # "delete" => r.value # <<>>}

(***************************************************************************)
(* What one rule does to the values of its header.                         *)
(***************************************************************************)
LEMMA ApplyRuleIs ==
  ASSUME NEW N, NEW V, NEW r \in RuleSet(N, V), NEW values
  PROVE  /\ r.op = "delete" => ApplyRule(values, r) = <<>>
         /\ r.op = "add" => ApplyRule(values, r) = Append(values, r.value)
         /\ r.op = "replace" => ApplyRule(values, r) = <<r.value>>
         /\ r.op = "default" =>
              ApplyRule(values, r) = IF values = <<>> \/ Head(values) = <<>> THEN <<r.value>> ELSE values
  BY Zenon DEF ApplyRule

(***************************************************************************)
(* A rule has an operation, a name and, but for delete, a value that is    *)
(* not empty.                                                              *)
(***************************************************************************)
LEMMA RuleType ==
  ASSUME NEW N, NEW V, NEW r \in RuleSet(N, V)
  PROVE  /\ r.op \in Ops /\ r.name \in N /\ r.value \in V
         /\ r.op # "delete" => r.value # <<>>
  BY DEF RuleSet

(***************************************************************************)
(* A rule leaves a list of values.                                         *)
(***************************************************************************)
LEMMA ApplyRuleType ==
  ASSUME NEW N, NEW V, NEW r \in RuleSet(N, V), NEW values \in Seq(V)
  PROVE  ApplyRule(values, r) \in Seq(V)
  <1>1. r.value \in V /\ r.op \in Ops
        BY RuleType, Zenon
  <1> DEFINE v == r.value
  <1> HIDE DEF v
  <1>2. v \in V
        BY <1>1, Zenon DEF v
  <1>3. <<>> \in Seq(V) /\ <<v>> \in Seq(V) /\ Append(values, v) \in Seq(V)
        BY <1>2
  <1> QED
        BY <1>1, <1>3, ApplyRuleIs, Zenon DEF Ops, v

-----------------------------------------------------------------------------
(* What is added after position j. *)
Adds(N, V) == {r \in RuleSet(N, V) : r.op = "add"}

\* The values of a list of rules.
ValuesOf(rs) == [i \in DOMAIN rs |-> rs[i].value]

(***************************************************************************)
(* The values added after j are those of the add rules behind j.           *)
(***************************************************************************)
LEMMA AddedIs ==
  ASSUME NEW N, NEW V, NEW rs \in Seq(RuleSet(N, V)), NEW j \in 0..Len(rs)
  PROVE  /\ SubSeq(rs, j + 1, Len(rs)) \in Seq(RuleSet(N, V))
         /\ AddedAfter(rs, j) = ValuesOf(Keep(SubSeq(rs, j + 1, Len(rs)), Adds(N, V)))
  <1> DEFINE R == RuleSet(N, V)
             t == SubSeq(rs, j + 1, Len(rs))
             K == {r \in ToSet(rs) : r.op = "add"}
  <1>1. ASSUME NEW S, NEW u \in Seq(S), NEW k \in 0..Len(u)
        PROVE  /\ SubSeq(u, k + 1, Len(u)) \in Seq(S)
               /\ \A i \in DOMAIN SubSeq(u, k + 1, Len(u)) :
                    k + i \in DOMAIN u /\ SubSeq(u, k + 1, Len(u))[i] = u[k + i]
        OBVIOUS
  <1>2. t \in Seq(R) /\ \A i \in DOMAIN t : j + i \in DOMAIN rs /\ t[i] = rs[j + i]
    <2> HIDE DEF R
    <2> QED
        BY <1>1 DEF R
  <1>3. ToSet(t) \subseteq ToSet(rs) /\ ToSet(t) \subseteq R
    <2>1. \A i \in DOMAIN t : t[i] \in R
          BY <1>2
    <2> HIDE DEF t, R
    <2> QED
        BY <1>2, <2>1, Zenon DEF ToSet
  <1>4. \A x \in ToSet(t) : x \in K <=> x \in Adds(N, V)
    <2> HIDE DEF t
    <2> QED
        BY <1>3, Zenon DEF Adds
  <1>5. Keep(t, K) = Keep(t, Adds(N, V))
    <2> HIDE DEF t, K, R
    <2> QED
        BY <1>2, <1>4, KeepSame
  <1> HIDE DEF t
  <1> QED
        BY <1>2, <1>5, Zenon DEF AddedAfter, ValuesOf, t

(***************************************************************************)
(* One more rule is one more value.                                        *)
(***************************************************************************)
LEMMA ValuesOfAppend ==
  ASSUME NEW R, NEW V, \A r \in R : r.value \in V, NEW s \in Seq(R), NEW x \in R
  PROVE  ValuesOf(s) \in Seq(V) /\ ValuesOf(Append(s, x)) = Append(ValuesOf(s), x.value)
  <1>1. ValuesOf(s) \in Seq(V)
        BY DEF ValuesOf
  <1> DEFINE u == ValuesOf(Append(s, x))
             v == Append(ValuesOf(s), x.value)
  <1>2. Append(s, x) \in Seq(R) /\ Len(Append(s, x)) = Len(s) + 1
        OBVIOUS
  <1>3. u \in Seq(V) /\ v \in Seq(V) /\ Len(u) = Len(s) + 1 /\ Len(v) = Len(s) + 1
        BY <1>1, <1>2 DEF ValuesOf
  <1>4. \A i \in 1..Len(u) : u[i] = v[i]
        BY <1>1, <1>2, <1>3 DEF ValuesOf
  <1>5. u = v
    <2> HIDE DEF u, v
    <2> QED
        BY <1>3, <1>4, SameSeq
  <1> QED
        BY <1>1, <1>5, Zenon

(***************************************************************************)
(* A new last rule adds its value behind those of the earlier ones.        *)
(***************************************************************************)
LEMMA AddedAppend ==
  ASSUME NEW N, NEW V, NEW rs \in Seq(RuleSet(N, V)), NEW r \in RuleSet(N, V), NEW j \in 0..Len(rs)
  PROVE  /\ AddedAfter(rs, j) \in Seq(V)
         /\ AddedAfter(Append(rs, r), j) =
              IF r.op = "add" THEN Append(AddedAfter(rs, j), r.value) ELSE AddedAfter(rs, j)
  <1> DEFINE R == RuleSet(N, V)
             t == SubSeq(rs, j + 1, Len(rs))
             us == Append(rs, r)
             K == Adds(N, V)
  <1>1. us \in Seq(R) /\ Len(us) = Len(rs) + 1 /\ j \in 0..Len(us)
        OBVIOUS
  <1>3. SubSeq(us, j + 1, Len(us)) = Append(t, r)
    <2> HIDE DEF R
    <2> QED
        BY <1>1, SuffixAppend DEF R
  <1>4. t \in Seq(R) /\ AddedAfter(rs, j) = ValuesOf(Keep(t, K))
        BY AddedIs, Zenon
  <1>5. AddedAfter(us, j) = ValuesOf(Keep(Append(t, r), K))
    <2> HIDE DEF us
    <2> QED
        BY <1>1, <1>3, AddedIs, Zenon
  <1> HIDE DEF t, K, R
  <1>6. r \in R
        BY Zenon DEF R
  <1>7. Keep(t, K) \in Seq(R) /\ Keep(Append(t, r), K) = IF r \in K THEN Append(Keep(t, K), r) ELSE Keep(t, K)
        BY <1>4, <1>6, KeepAppend
  <1>8. \A x \in R : x.value \in V
        BY RuleType, Zenon DEF R
  <1>9. ValuesOf(Keep(t, K)) \in Seq(V) /\ ValuesOf(Append(Keep(t, K), r)) = Append(ValuesOf(Keep(t, K)), r.value)
    <2> DEFINE kt == Keep(t, K)
    <2>1. kt \in Seq(R)
          BY <1>7, Zenon
    <2> HIDE DEF kt
    <2>2. ValuesOf(kt) \in Seq(V) /\ ValuesOf(Append(kt, r)) = Append(ValuesOf(kt), r.value)
          BY <1>6, <1>8, <2>1, ValuesOfAppend
    <2> QED
          BY <2>2, Zenon DEF kt
  <1>10. r \in K <=> r.op = "add"
        BY Zenon DEF K, Adds
  <1> QED
        BY <1>4, <1>5, <1>7, <1>9, <1>10, Zenon

(***************************************************************************)
(* Without an add rule behind j nothing is added.                          *)
(***************************************************************************)
LEMMA AddedNone ==
  ASSUME NEW N, NEW V, NEW rs \in Seq(RuleSet(N, V)), NEW j \in 0..Len(rs),
         \A i \in DOMAIN rs : i > j => rs[i].op # "add"
  PROVE  AddedAfter(rs, j) = <<>>
  <1> DEFINE R == RuleSet(N, V)
             t == SubSeq(rs, j + 1, Len(rs))
             K == Adds(N, V)
  <1>1. ASSUME NEW S, NEW u \in Seq(S), NEW k \in 0..Len(u)
        PROVE  \A i \in DOMAIN SubSeq(u, k + 1, Len(u)) :
                 k + i \in DOMAIN u /\ k + i > k /\ SubSeq(u, k + 1, Len(u))[i] = u[k + i]
        OBVIOUS
  <1>2. \A i \in DOMAIN t : j + i \in DOMAIN rs /\ j + i > j /\ t[i] = rs[j + i]
    <2> HIDE DEF R
    <2> QED
        BY <1>1 DEF R
  <1>3. t \in Seq(R) /\ AddedAfter(rs, j) = ValuesOf(Keep(t, K))
        BY AddedIs, Zenon
  <1> HIDE DEF t
  <1>4. ToSet(t) \cap K = {}
        BY <1>2, Zenon DEF ToSet, Adds
  <1>5. Keep(t, K) \in Seq(R) /\ ToSet(Keep(t, K)) = {}
    <2> HIDE DEF K, R
    <2> QED
        BY <1>3, <1>4, KeepSet
  <1> DEFINE kt == Keep(t, K)
  <1>6. kt = <<>>
    <2> HIDE DEF kt, R
    <2> QED
        BY <1>5, NoMembers DEF kt
  <1>7. ValuesOf(<<>>) = <<>>
        BY DEF ValuesOf
  <1> QED
        BY <1>3, <1>6, <1>7, Zenon
-----------------------------------------------------------------------------
\* The operations after which earlier rules no longer matter.
Resets == {"delete", "replace"}

(***************************************************************************)
(* What Append returns, with the ranges of both lists.                     *)
(***************************************************************************)
LEMMA Appended ==
  ASSUME NEW S, NEW s \in Seq(S), NEW x \in S
  PROVE  /\ Append(s, x) \in Seq(S) /\ Len(s) \in Nat /\ Len(Append(s, x)) = Len(s) + 1
         /\ DOMAIN s = 1..Len(s) /\ DOMAIN Append(s, x) = 1..(Len(s) + 1)
         /\ Append(s, x)[Len(s) + 1] = x
         /\ \A i \in 1..Len(s) : i \in 1..(Len(s) + 1) /\ Append(s, x)[i] = s[i]
  OBVIOUS

(***************************************************************************)
(* LastReset is the last delete or replace rule.                           *)
(***************************************************************************)
LEMMA ResetIs ==
  ASSUME NEW S, NEW rs \in Seq(S)
  PROVE  /\ LastReset(rs) \in 0..Len(rs)
         /\ LastReset(rs) # 0 => rs[LastReset(rs)].op \in Resets
         /\ \A i \in DOMAIN rs : rs[i].op \in Resets => i <= LastReset(rs)
  <1> DEFINE n == Len(rs)
             P == {0} \cup {i \in DOMAIN rs : rs[i].op \in Resets}
  <1>1. n \in Nat /\ DOMAIN rs = 1..n
        OBVIOUS
  <1> HIDE DEF n
  <1>2. P \in SUBSET (0..n) /\ P # {} /\ 0 \in P
        BY <1>1
  <1>3. LastReset(rs) = Max(P)
        BY Zenon DEF LastReset, Resets
  <1>4. Max(P) \in P /\ \A i \in P : i <= Max(P)
    <2> HIDE DEF P
    <2> QED
        BY <1>1, <1>2, MaxIs, Zenon
  <1> QED
        BY <1>2, <1>3, <1>4, Zenon DEF n

(***************************************************************************)
(* A new last rule is the last reset if it is one.                         *)
(***************************************************************************)
LEMMA ResetAppend ==
  ASSUME NEW S, NEW rs \in Seq(S), NEW r \in S
  PROVE  LastReset(Append(rs, r)) = IF r.op \in Resets THEN Len(rs) + 1 ELSE LastReset(rs)
  <1> DEFINE n == Len(rs)
             us == Append(rs, r)
             k == LastReset(rs)
             P == {0} \cup {i \in DOMAIN us : us[i].op \in Resets}
  <1>1. /\ us \in Seq(S) /\ n \in Nat /\ DOMAIN rs = 1..n /\ DOMAIN us = 1..(n + 1)
        /\ us[n + 1] = r
        /\ \A i \in 1..n : i \in 1..(n + 1) /\ us[i] = rs[i]
        OBVIOUS
  <1>2. /\ k \in 0..n
        /\ k # 0 => rs[k].op \in Resets
        /\ \A i \in DOMAIN rs : rs[i].op \in Resets => i <= k
        BY ResetIs, Zenon
  <1>3. LastReset(us) = Max(P)
        BY Zenon DEF LastReset, Resets
  <1> HIDE DEF n, us, k
  <1>4. P \in SUBSET (0..(n + 1)) /\ n + 1 \in Nat
        BY <1>1
  <1>5. CASE r.op \in Resets
    <2>1. n + 1 \in P /\ \A i \in P : i <= n + 1
          BY <1>1, <1>5
    <2>2. Max(P) = n + 1
      <3> HIDE DEF P
      <3> QED
          BY <1>4, <2>1, MaxUnique
    <2> QED
        BY <1>3, <1>5, <2>2, Zenon DEF n, us, k
  <1>6. CASE r.op \notin Resets
    <2>1. k \in P
      <3>1. CASE k = 0
            BY <3>1, Zenon
      <3>2. CASE k # 0
        <4>1. k \in 1..n
              BY <1>1, <1>2, <3>2
        <4> QED
            BY <1>1, <1>2, <3>2, <4>1, Zenon
      <3> QED
          BY <3>1, <3>2, Zenon
    <2>2. ASSUME NEW i \in P PROVE i <= k
      <3>1. CASE i = 0
            BY <1>1, <1>2, <3>1
      <3>2. CASE i # 0
        <4>1. i \in 1..(n + 1) /\ us[i].op \in Resets
              BY <1>1, <3>2, Zenon
        <4>2. i # n + 1
              BY <1>1, <1>6, <4>1, Zenon
        <4>3. i \in 1..n
              BY <1>1, <4>1, <4>2
        <4> QED
            BY <1>1, <1>2, <4>1, <4>3, Zenon
      <3> QED
          BY <3>1, <3>2, Zenon
    <2>3. Max(P) = k
      <3> HIDE DEF P
      <3> QED
          BY <1>4, <2>1, <2>2, MaxUnique
    <2> QED
        BY <1>3, <1>6, <2>3, Zenon DEF n, us, k
  <1> QED
      BY <1>5, <1>6, Zenon

(***************************************************************************)
(* A new last rule sets the base if it resets.                             *)
(***************************************************************************)
LEMMA BaseAppend ==
  ASSUME NEW S, NEW rs \in Seq(S), NEW r \in S, NEW values
  PROVE  Base(Append(rs, r), values) = IF r.op \in Resets THEN (IF r.op = "delete" THEN <<>> ELSE <<r.value>>)
                                       ELSE Base(rs, values)
  <1> DEFINE n == Len(rs)
             us == Append(rs, r)
             k == LastReset(rs)
  <1>1. /\ n \in Nat /\ us[n + 1] = r
        /\ \A i \in 1..n : us[i] = rs[i]
        OBVIOUS
  <1>2. k \in 0..n
        BY ResetIs, Zenon
  <1>3. LastReset(us) = IF r.op \in Resets THEN n + 1 ELSE k
        BY ResetAppend
  <1> HIDE DEF n, us, k
  <1>4. n + 1 # 0
        BY <1>1
  <1>5. k # 0 => us[k] = rs[k]
    <2>1. k # 0 => k \in 1..n
          BY <1>1, <1>2
    <2> QED
        BY <1>1, <2>1, Zenon
  <1>6. CASE r.op \in Resets
        BY <1>1, <1>3, <1>4, <1>6, Zenon DEF Base, us
  <1>7. CASE r.op \notin Resets
        BY <1>3, <1>5, <1>7, Zenon DEF Base, us, k
  <1> QED
      BY <1>6, <1>7, Zenon

(* The rule sets a header that the base does not. *)
Sets(r, base) == r.op = "default" \/ (r.op = "add" /\ base = <<>>)

(***************************************************************************)
(* A new last rule is a setter if it sets, and makes the earlier ones      *)
(* irrelevant if it resets.                                                *)
(***************************************************************************)
LEMMA SettersAppend ==
  ASSUME NEW S, NEW rs \in Seq(S), NEW r \in S, NEW base
  PROVE  /\ Setters(rs, base) \subseteq DOMAIN rs
         /\ Setters(Append(rs, r), base) =
              IF r.op \in Resets THEN {}
              ELSE Setters(rs, base) \cup (IF Sets(r, base) THEN {Len(rs) + 1} ELSE {})
  <1> DEFINE n == Len(rs)
             us == Append(rs, r)
             k == LastReset(rs)
  <1>1. /\ n \in Nat /\ DOMAIN rs = 1..n /\ DOMAIN us = 1..(n + 1) /\ us[n + 1] = r
        /\ \A i \in 1..n : i \in 1..(n + 1) /\ us[i] = rs[i]
        OBVIOUS
  <1>2. k \in 0..n
        BY ResetIs, Zenon
  <1>3. LastReset(us) = IF r.op \in Resets THEN n + 1 ELSE k
        BY ResetAppend
  <1>4. Setters(rs, base) = {i \in DOMAIN rs : i > k /\ Sets(rs[i], base)}
        BY Zenon DEF Setters, Sets
  <1>5. Setters(us, base) = {i \in DOMAIN us : i > LastReset(us) /\ Sets(us[i], base)}
        BY Zenon DEF Setters, Sets
  <1> HIDE DEF n, us, k
  <1>6. CASE r.op \in Resets
    <2>1. \A i \in 1..(n + 1) : ~(i > n + 1)
          BY <1>1
    <2> QED
        BY <1>1, <1>3, <1>4, <1>5, <1>6, <2>1, Zenon DEF us
  <1>7. CASE r.op \notin Resets
    <2>1. 1..(n + 1) = (1..n) \cup {n + 1} /\ n + 1 > k
          BY <1>1, <1>2
    <2>2. LastReset(us) = k
          BY <1>3, <1>7, Zenon
    <2>3. Setters(us, base) = Setters(rs, base) \cup (IF Sets(r, base) THEN {n + 1} ELSE {})
          BY <1>1, <1>4, <1>5, <2>1, <2>2, Zenon
    <2> QED
        BY <1>4, <1>7, <2>3, Zenon DEF us, n
  <1> QED
      BY <1>6, <1>7, Zenon

(* One more rule does to what is left of the header what ApplyRule does. *)
LEMMA HeaderAppend ==
  ASSUME NEW N, NEW V, NEW rs \in Seq(RuleSet(N, V)), NEW r \in RuleSet(N, V), NEW values \in Seq(V)
  PROVE  HeaderAfter(Append(rs, r), values) = ApplyRule(HeaderAfter(rs, values), r)
  <1> DEFINE R == RuleSet(N, V)
             n == Len(rs)
             us == Append(rs, r)
             k == LastReset(rs)
             base == Base(rs, values)
             F == Setters(rs, base)
             Solid == base # <<>> /\ Head(base) # <<>>
             v == r.value
             A(j) == AddedAfter(rs, j)
             old == HeaderAfter(rs, values)
             new == HeaderAfter(us, values)
  <1>1. r \in R /\ rs \in Seq(R)
        BY Zenon
  <1>2. /\ us \in Seq(R) /\ n \in Nat /\ Len(us) = n + 1 /\ DOMAIN rs = 1..n /\ DOMAIN us = 1..(n + 1)
        /\ us[n + 1] = r
        /\ \A i \in 1..n : us[i] = rs[i]
    <2> HIDE DEF R
    <2> QED
        BY <1>1
  <1>3. r.op \in Ops /\ v \in V /\ (r.op # "delete" => v # <<>>) /\ \A i \in 1..n : rs[i] \in R
    <2>1. \A i \in 1..n : rs[i] \in R
      <3> HIDE DEF R
      <3> QED
          BY <1>1
    <2> QED
        BY <2>1, RuleType, Zenon
  <1>4. k \in 0..n /\ (k # 0 => rs[k].op \in Resets)
    <2> HIDE DEF R
    <2> QED
        BY <1>1, ResetIs
  <1>5. LastReset(us) = IF r.op \in Resets THEN n + 1 ELSE k
    <2> HIDE DEF R
    <2> QED
        BY <1>1, ResetAppend
  <1>6. Base(us, values) = IF r.op \in Resets THEN (IF r.op = "delete" THEN <<>> ELSE <<v>>) ELSE base
    <2> HIDE DEF R
    <2> QED
        BY <1>1, BaseAppend
  <1>7. \A b : /\ Setters(rs, b) \subseteq DOMAIN rs
               /\ Setters(us, b) =
                    IF r.op \in Resets THEN {}
                    ELSE Setters(rs, b) \cup (IF Sets(r, b) THEN {n + 1} ELSE {})
    <2> HIDE DEF R
    <2> QED
        BY <1>1, SettersAppend
  <1>8. ASSUME NEW j \in 0..n
        PROVE  /\ A(j) \in Seq(V)
               /\ AddedAfter(us, j) = IF r.op = "add" THEN Append(A(j), v) ELSE A(j)
        BY AddedAppend
  <1>9. AddedAfter(us, n + 1) = <<>>
    <2>1. n + 1 \in 0..Len(us) /\ \A i \in DOMAIN us : ~(i > n + 1)
          BY <1>2
    <2> QED
        BY <1>2, <2>1, AddedNone, Zenon
  <1>10. old = IF Solid \/ F = {} THEN base \o A(k) ELSE <<rs[Min(F)].value>> \o A(Min(F))
        BY Zenon DEF HeaderAfter
  <1>11. new = LET b == Base(us, values) IN
               IF (b # <<>> /\ Head(b) # <<>>) \/ Setters(us, b) = {} THEN b \o AddedAfter(us, LastReset(us))
               ELSE <<us[Min(Setters(us, b))].value>> \o AddedAfter(us, Min(Setters(us, b)))
        BY Zenon DEF HeaderAfter
  <1>12. base \in Seq(V)
    <2>1. CASE k = 0
          BY <2>1, Zenon DEF Base
    <2>2. CASE k # 0
      <3>1. k \in 1..n
            BY <1>2, <1>4, <2>2
      <3>2. rs[k].value \in V
            BY <1>3, <3>1, RuleType, Zenon
      <3> DEFINE w == rs[k].value
      <3> HIDE DEF w
      <3>3. <<>> \in Seq(V) /\ <<w>> \in Seq(V)
            BY <3>2 DEF w
      <3> QED
          BY <2>2, <3>3, Zenon DEF Base, w
    <2> QED
        BY <2>1, <2>2, Zenon
  <1>13. base = <<>> /\ F = {} => A(k) = <<>>
    <2> SUFFICES ASSUME base = <<>>, F = {} PROVE A(k) = <<>>
        BY Zenon
    <2>1. \A i \in DOMAIN rs : i > k => rs[i].op # "add"
          BY Zenon DEF Setters
    <2> QED
        BY <1>4, <2>1, AddedNone, Zenon
  <1>14. \A a \in Seq(V) : <<>> \o a = a /\ a \o <<>> = a /\ Append(<<>>, v) = <<v>>
        BY <1>3
  <1>15. \A a, c \in Seq(V) : a \o Append(c, v) = Append(a \o c, v)
        BY <1>3
  <1>16. \A a, c \in Seq(V) : a # <<>> => a \o c # <<>> /\ Head(a \o c) = Head(a)
        OBVIOUS
  <1>17. /\ r.op = "delete" => ApplyRule(old, r) = <<>>
         /\ r.op = "add" => ApplyRule(old, r) = Append(old, v)
         /\ r.op = "replace" => ApplyRule(old, r) = <<v>>
         /\ r.op = "default" => ApplyRule(old, r) = IF old = <<>> \/ Head(old) = <<>> THEN <<v>> ELSE old
    <2> HIDE DEF old
    <2> QED
        BY ApplyRuleIs, Zenon
  <1>18. <<v>> \in Seq(V) /\ <<>> \in Seq(V) /\ <<v>> \o <<>> = <<v>> /\ <<>> \o <<>> = <<>>
        BY <1>3
  <1>19. ASSUME F # {}
         PROVE  /\ Min(F) \in 1..n /\ Min(F \cup {n + 1}) = Min(F) /\ us[Min(F)] = rs[Min(F)]
                /\ rs[Min(F)].value \in V \ {<<>>}
    <2>1. F \in SUBSET Nat /\ F \in SUBSET (1..n)
      <3>1. F \subseteq 1..n
            BY <1>2, <1>7, Zenon
      <3> HIDE DEF F
      <3> QED
          BY <3>1
    <2>2. \A i \in F : rs[i].op # "delete"
          BY Zenon DEF Setters
    <2> DEFINE m == Min(F)
    <2> HIDE DEF F
    <2>3. m \in F /\ \A j \in F : m <= j
          BY <1>19, <2>1, MinIs, Zenon
    <2> HIDE DEF m
    <2>4. m \in 1..n
          BY <2>1, <2>3, Zenon
    <2>5. F \cup {n + 1} \in SUBSET Nat /\ m \in F \cup {n + 1} /\ \A j \in F \cup {n + 1} : m <= j
      <3>1. n + 1 \in Nat /\ m <= n + 1
            BY <1>2, <2>4
      <3> QED
          BY <2>1, <2>3, <3>1, Zenon
    <2>6. Min(F \cup {n + 1}) = m
          BY <2>5, MinUnique
    <2>7. rs[m].value \in V \ {<<>>}
          BY <1>3, <2>2, <2>3, <2>4, RuleType, Zenon
    <2> QED
        BY <1>2, <2>4, <2>6, <2>7, Zenon DEF m
  <1>20. F = {} => Min(F \cup {n + 1}) = n + 1
    <2>1. {n + 1} \in SUBSET Nat /\ n + 1 \in {n + 1} /\ \A j \in {n + 1} : n + 1 <= j
          BY <1>2
    <2>2. Min({n + 1}) = n + 1
          BY <2>1, MinUnique
    <2>3. F = {} => F \cup {n + 1} = {n + 1}
          BY Zenon
    <2> QED
        BY <2>2, <2>3, Zenon
  <1> HIDE DEF R, n, us, k, base, F, v, old, new
  <1>21. k \in 0..n /\ \A i \in 1..n : i \in 0..n
        BY <1>2, <1>4
  <1>22. CASE r.op = "delete"
    <2>1. new = <<>> \o <<>>
          BY <1>5, <1>6, <1>7, <1>9, <1>11, <1>22, Zenon DEF Resets
    <2> QED
        BY <1>17, <1>18, <1>22, <2>1, Zenon DEF new, old, us
  <1>23. CASE r.op = "replace"
    <2>1. Base(us, values) = <<v>> /\ Setters(us, <<v>>) = {} /\ LastReset(us) = n + 1
          BY <1>5, <1>6, <1>7, <1>23, Zenon DEF Resets
    <2>2. new = <<v>> \o <<>>
          BY <1>9, <1>11, <2>1, Zenon
    <2> QED
        BY <1>17, <1>18, <1>23, <2>2, Zenon DEF new, old, us
  <1>24. CASE r.op = "add"
    <2>1. Base(us, values) = base /\ LastReset(us) = k /\ r.op \notin Resets
          BY <1>5, <1>6, <1>24, Zenon DEF Resets
    <2>2. Setters(us, base) = F \cup (IF base = <<>> THEN {n + 1} ELSE {})
          BY <1>7, <1>24, <2>1, Zenon DEF F, Sets
    <2>3. new = IF Solid \/ Setters(us, base) = {} THEN base \o Append(A(k), v)
                ELSE <<us[Min(Setters(us, base))].value>> \o AddedAfter(us, Min(Setters(us, base)))
          BY <1>8, <1>11, <1>21, <1>24, <2>1, Zenon
    <2>4. CASE Solid \/ (F = {} /\ base # <<>>)
      <3>1. new = base \o Append(A(k), v) /\ old = base \o A(k)
            BY <1>10, <2>2, <2>3, <2>4, Zenon
      <3>2. A(k) \in Seq(V)
            BY <1>8, <1>21, Zenon
      <3> QED
          BY <1>12, <1>15, <1>17, <1>24, <3>1, <3>2, Zenon DEF new, old, us
    <2>5. CASE F = {} /\ base = <<>>
      <3>1. Setters(us, base) = {n + 1} /\ Min(Setters(us, base)) = n + 1
            BY <1>20, <2>2, <2>5, Zenon
      <3>2. new = <<v>> \o <<>>
            BY <1>2, <1>9, <2>3, <2>5, <3>1, Zenon DEF v
      <3>3. old = <<>> \o <<>>
            BY <1>10, <1>13, <2>5, Zenon
      <3> QED
          BY <1>14, <1>17, <1>18, <1>24, <3>2, <3>3, Zenon DEF new, old, us
    <2>6. CASE ~Solid /\ F # {}
      <3>1. Min(Setters(us, base)) = Min(F) /\ Setters(us, base) # {}
            BY <1>19, <2>2, <2>6, Zenon
      <3>2. AddedAfter(us, Min(F)) = Append(A(Min(F)), v) /\ A(Min(F)) \in Seq(V)
            BY <1>8, <1>19, <1>21, <1>24, <2>6, Zenon
      <3>3. new = <<rs[Min(F)].value>> \o Append(A(Min(F)), v)
            BY <1>19, <2>3, <2>6, <3>1, <3>2, Zenon
      <3>4. old = <<rs[Min(F)].value>> \o A(Min(F))
            BY <1>10, <2>6, Zenon
      <3>5. <<rs[Min(F)].value>> \in Seq(V)
        <4> DEFINE w == rs[Min(F)].value
        <4>1. w \in V
              BY <1>19, <2>6, Zenon
        <4> HIDE DEF w
        <4>2. <<w>> \in Seq(V)
              BY <4>1
        <4> QED
            BY <4>2, Zenon DEF w
      <3> QED
          BY <1>15, <1>17, <1>24, <3>2, <3>3, <3>4, <3>5, Zenon DEF new, old, us
    <2> QED
        BY <2>4, <2>5, <2>6, Zenon
  <1>25. CASE r.op = "default"
    <2>1. Base(us, values) = base /\ LastReset(us) = k /\ r.op \notin Resets
          BY <1>5, <1>6, <1>25, Zenon DEF Resets
    <2>2. Setters(us, base) = F \cup {n + 1}
          BY <1>7, <1>25, <2>1, Zenon DEF F, Sets
    <2>3. AddedAfter(us, k) = A(k) /\ A(k) \in Seq(V)
          BY <1>8, <1>21, <1>25, Zenon
    <2>4. new = IF Solid THEN base \o A(k)
                ELSE <<us[Min(F \cup {n + 1})].value>> \o AddedAfter(us, Min(F \cup {n + 1}))
          BY <1>11, <2>1, <2>2, <2>3, Zenon
    <2>5. CASE Solid
      <3>1. new = base \o A(k) /\ old = base \o A(k)
            BY <1>10, <2>4, <2>5, Zenon
      <3>2. old # <<>> /\ Head(old) # <<>>
            BY <1>12, <1>16, <2>3, <2>5, <3>1, Zenon
      <3> QED
          BY <1>17, <1>25, <3>1, <3>2, Zenon DEF new, old, us
    <2>6. CASE ~Solid /\ F = {}
      <3>1. new = <<v>> \o <<>>
            BY <1>2, <1>9, <1>20, <2>4, <2>6, Zenon DEF v
      <3>2. old = base \o A(k)
            BY <1>10, <2>6, Zenon
      <3>3. old = <<>> \/ Head(old) = <<>>
        <4>1. CASE base = <<>>
              BY <1>13, <1>18, <2>6, <3>2, <4>1, Zenon
        <4>2. CASE base # <<>>
              BY <1>12, <1>16, <2>3, <2>6, <3>2, <4>2, Zenon
        <4> QED
            BY <4>1, <4>2, Zenon
      <3> QED
          BY <1>17, <1>18, <1>25, <3>1, <3>3, Zenon DEF new, old, us
    <2>7. CASE ~Solid /\ F # {}
      <3> DEFINE w == rs[Min(F)].value
      <3>1. w \in V \ {<<>>} /\ Min(F) \in 0..n
            BY <1>19, <1>21, <2>7, Zenon
      <3>2. AddedAfter(us, Min(F)) = A(Min(F)) /\ A(Min(F)) \in Seq(V)
            BY <1>8, <1>25, <3>1, Zenon
      <3>3. new = <<w>> \o A(Min(F)) /\ old = <<w>> \o A(Min(F))
            BY <1>10, <1>19, <2>4, <2>7, <3>2, Zenon
      <3> HIDE DEF w
      <3>4. <<w>> \in Seq(V) /\ <<w>> # <<>> /\ Head(<<w>>) = w
            BY <3>1
      <3>5. old # <<>> /\ Head(old) # <<>>
            BY <1>16, <3>1, <3>2, <3>3, <3>4, Zenon
      <3> QED
          BY <1>17, <1>25, <3>3, <3>5, Zenon DEF new, old, us
    <2> QED
        BY <2>5, <2>6, <2>7, Zenon
  <1> QED
      BY <1>3, <1>22, <1>23, <1>24, <1>25, Zenon DEF Ops

-----------------------------------------------------------------------------
(* rewriteHeaders, next by next. *)
RewriteStep(N, V, rs) ==
  [i \in 1..Len(rs) |-> [h \in [N -> Seq(V)] |-> RewriteHeader(h, rs[i])]]

(***************************************************************************)
(* A rule leaves the headers lists of values.                              *)
(***************************************************************************)
LEMMA RewriteType ==
  ASSUME NEW N, NEW V, NEW r \in RuleSet(N, V), NEW h \in [N -> Seq(V)]
  PROVE  RewriteHeader(h, r) \in [N -> Seq(V)]
  <1>1. r.name \in N
        BY RuleType, Zenon
  <1>2. h[r.name] \in Seq(V)
        BY <1>1, Zenon
  <1>3. ApplyRule(h[r.name], r) \in Seq(V)
        BY <1>2, ApplyRuleType, Zenon
  <1> QED
        BY <1>1, <1>3, Zenon DEF RewriteHeader

(***************************************************************************)
(* rewriteHeaders is a fold, one step for each rule.                       *)
(***************************************************************************)
LEMMA RewriteRuns ==
  ASSUME NEW N, NEW V, NEW rs \in Seq(RuleSet(N, V)), NEW headers \in [N -> Seq(V)]
  PROVE  Reaches([N -> Seq(V)], Len(rs), headers, RewriteStep(N, V, rs), RewriteHeaders(rs, headers))
  <1> DEFINE n == Len(rs)
             T == [N -> Seq(V)]
             next == RewriteStep(N, V, rs)
             Iter(F) == F = [t \in SUBSET DOMAIN rs |->
                               IF t = {} THEN headers
                               ELSE RewriteHeader(F[t \ {Max(t)}], rs[Max(t)])]
             iter == CHOOSE F : Iter(F)
  <1>1. n \in Nat /\ DOMAIN rs = 1..n /\ \A i \in 1..n : rs[i] \in RuleSet(N, V)
    <2> DEFINE R == RuleSet(N, V)
    <2> HIDE DEF R
    <2>1. rs \in Seq(R)
          BY Zenon DEF R
    <2>2. n \in Nat /\ DOMAIN rs = 1..n /\ \A i \in 1..n : rs[i] \in R
          BY <2>1
    <2> QED
        BY <2>2, Zenon DEF R
  <1>2. next \in [1..n -> [T -> T]]
        BY <1>1, RewriteType, Zenon DEF RewriteStep
  <1>3. ASSUME NEW i \in 1..n, NEW h \in T
        PROVE  next[i][h] = RewriteHeader(h, rs[i])
        BY Zenon DEF RewriteStep
  <1>4. ASSUME NEW t \in SUBSET (1..n), t # {} PROVE Max(t) \in 1..n
    <2> HIDE DEF n
    <2>1. t \in SUBSET (0..n)
          BY <1>1
    <2> QED
          BY <1>1, <1>4, <2>1, MaxIs, Zenon
  <1>5. headers \in T
        BY Zenon
  <1> HIDE DEF n, next, T
  <1>6. PICK F \in [SUBSET (1..n) -> T] : Folds(F, n, headers, next)
        BY <1>1, <1>2, <1>5, FoldExists, Zenon
  <1>7. Iter(F)
    <2>1. ASSUME NEW t \in SUBSET (1..n)
          PROVE  F[t] = IF t = {} THEN headers
                        ELSE RewriteHeader(F[t \ {Max(t)}], rs[Max(t)])
      <3>1. CASE t = {}
            BY <1>6, <3>1, Zenon DEF Folds
      <3>2. CASE t # {}
        <4>1. F[t] = next[Max(t)][F[t \ {Max(t)}]]
              BY <1>6, <3>2, Zenon DEF Folds
        <4>2. F[t \ {Max(t)}] \in T
          <5>1. t \ {Max(t)} \in SUBSET (1..n)
                BY Zenon
          <5> QED
              BY <1>6, <5>1, Zenon
        <4> QED
              BY <1>3, <1>4, <3>2, <4>1, <4>2, Zenon
      <3> QED
          BY <3>1, <3>2, Zenon
    <2> QED
        BY <1>1, <2>1, Zenon
  <1>8. Iter(iter)
    <2> HIDE DEF Iter
    <2> QED
        BY <1>7, Zenon
  <1>9. RewriteHeaders(rs, headers) = iter[1..n]
        BY <1>1, Zenon DEF RewriteHeaders, FoldLeft, MapThenFoldSet
  <1>10. iter[{}] = headers
        BY <1>8, Zenon
  <1>11. ASSUME NEW t \in SUBSET (1..n), t # {}, iter[t \ {Max(t)}] \in T
         PROVE  iter[t] = next[Max(t)][iter[t \ {Max(t)}]]
    <2>1. iter[t] = RewriteHeader(iter[t \ {Max(t)}], rs[Max(t)])
          BY <1>1, <1>8, <1>11, Zenon
    <2> HIDE DEF iter
    <2> QED
          BY <1>3, <1>4, <1>11, <2>1, Zenon
  <1> HIDE DEF iter
  <1>12. FoldsIn(iter, T, n, headers, next)
         BY <1>10, <1>11, Zenon DEF FoldsIn
  <1>13. Reaches(T, n, headers, next, iter[1..n])
         BY <1>1, <1>2, <1>5, <1>12, FoldRuns, Zenon
  <1> QED
        BY <1>9, <1>13, Zenon DEF n, next, T

(***************************************************************************)
(* Without rules the headers stay.                                         *)
(***************************************************************************)
LEMMA RewriteEmpty ==
  ASSUME NEW N, NEW V, NEW headers \in [N -> Seq(V)]
  PROVE  RewriteHeaders(<<>>, headers) = headers
  <1>1. <<>> \in Seq(RuleSet(N, V)) /\ Len(<<>>) = 0
        OBVIOUS
  <1>2. PICK run : /\ Runs(run, [N -> Seq(V)], Len(<<>>), headers, RewriteStep(N, V, <<>>))
                   /\ RewriteHeaders(<<>>, headers) = run[Len(<<>>)]
        BY <1>1, RewriteRuns, Zenon DEF Reaches
  <1> QED
        BY <1>1, <1>2, Zenon DEF Runs

(***************************************************************************)
(* A new last rule is applied to what the earlier ones left.               *)
(***************************************************************************)
LEMMA RewriteAppend ==
  ASSUME NEW N, NEW V, NEW rs \in Seq(RuleSet(N, V)), NEW r \in RuleSet(N, V), NEW headers \in [N -> Seq(V)]
  PROVE  LET h == RewriteHeaders(rs, headers)
         IN /\ h \in [N -> Seq(V)]
            /\ RewriteHeaders(Append(rs, r), headers) = RewriteHeader(h, r)
  <1> DEFINE R == RuleSet(N, V)
             T == [N -> Seq(V)]
             n == Len(rs)
             us == Append(rs, r)
             next == RewriteStep(N, V, rs)
             other == RewriteStep(N, V, us)
  <1>1. /\ us \in Seq(R) /\ Len(us) = n + 1 /\ n \in Nat /\ n + 1 \in Nat /\ n <= n + 1 /\ n \in 0..n
        /\ n + 1 \in 1..(n + 1) /\ (n + 1) - 1 = n
        /\ us[n + 1] = r /\ \A i \in 1..n : i \in 1..(n + 1) /\ us[i] = rs[i]
    <2> HIDE DEF R
    <2>0. Extends(us, rs, r, R)
          BY AppendExtends, Zenon DEF R
    <2> HIDE DEF us
    <2>1. us \in Seq(R) /\ Len(us) = n + 1 /\ n \in Nat /\ us[n + 1] = r /\ \A i \in 1..n : us[i] = rs[i]
          BY <2>0, Zenon DEF Extends
    <2> HIDE DEF n
    <2>2. /\ n + 1 \in Nat /\ n <= n + 1 /\ n \in 0..n /\ n + 1 \in 1..(n + 1) /\ (n + 1) - 1 = n
          /\ \A i \in 1..n : i \in 1..(n + 1)
          BY <2>1
    <2> QED
          BY <2>1, <2>2, Zenon
  <1> HIDE DEF us
  <1>2. PICK run : Runs(run, T, n, headers, next) /\ RewriteHeaders(rs, headers) = run[n]
        BY RewriteRuns, Zenon DEF Reaches
  <1>3. PICK more : Runs(more, T, n + 1, headers, other) /\ RewriteHeaders(us, headers) = more[n + 1]
    <2>1. us \in Seq(R) /\ Len(us) = n + 1
          BY <1>1, Zenon
    <2>2. Reaches(T, Len(us), headers, other, RewriteHeaders(us, headers))
          BY <2>1, RewriteRuns, Zenon
    <2> QED
          BY <2>1, <2>2, Zenon DEF Reaches
  <1>4. \A i \in 1..n : next[i] = other[i]
        BY <1>1, Zenon DEF RewriteStep
  <1>5. other[n + 1] = [h \in T |-> RewriteHeader(h, r)]
        BY <1>1, Zenon DEF RewriteStep
  <1> HIDE DEF n, next, other, T
  <1>6. run[n] = more[n]
    <2>1. \A i \in 0..n : run[i] = more[i]
          BY <1>1, <1>2, <1>3, <1>4, RunsAgree
    <2> QED
          BY <1>1, <2>1, Zenon
  <1>7. run[n] \in T
        BY <1>1, <1>2, Zenon DEF Runs
  <1>8. more[n + 1] = other[n + 1][more[n]]
        BY <1>1, <1>3, Zenon DEF Runs
  <1> QED
        BY <1>2, <1>3, <1>5, <1>6, <1>7, <1>8, Zenon DEF us, T

-----------------------------------------------------------------------------
\* Every header has what the rules for it, taken by themselves, say.
Rewritten(rules, headers, N) ==
  \A n \in N : RewriteHeaders(rules, headers)[n] = HeaderAfter(RulesFor(rules, n), headers[n])

(***************************************************************************)
(* Without rules a header has the values the upstream sent.                *)
(***************************************************************************)
LEMMA HeaderEmpty ==
  ASSUME NEW V, NEW values \in Seq(V)
  PROVE  HeaderAfter(<<>>, values) = values
  <1>1. <<>> \in Seq(RuleSet({}, {})) /\ Len(<<>>) = 0 /\ DOMAIN <<>> = {} /\ 0 \in 0..0
        OBVIOUS
  <1>2. LastReset(<<>>) = 0
    <2>1. {0} \cup {i \in DOMAIN <<>> : <<>>[i].op \in {"delete", "replace"}} = {0}
          BY <1>1, Zenon
    <2>2. 0 \in Nat /\ {0} \in SUBSET (0..0) /\ 0 \in {0} /\ \A j \in {0} : j <= 0
          OBVIOUS
    <2>3. Max({0}) = 0
          BY <2>2, MaxUnique, Zenon
    <2> QED
        BY <2>1, <2>3, Zenon DEF LastReset
  <1>3. AddedAfter(<<>>, 0) = <<>>
        BY <1>1, AddedNone, Zenon
  <1>4. \A b : Setters(<<>>, b) = {}
        BY <1>1, Zenon DEF Setters
  <1>5. Base(<<>>, values) = values
        BY <1>2, Zenon DEF Base
  <1>6. HeaderAfter(<<>>, values) = values \o <<>>
        BY <1>2, <1>3, <1>4, <1>5, Zenon DEF HeaderAfter
  <1> QED
        BY <1>6

(***************************************************************************)
(* rewriteHeaders, rule after rule on what the upstream sent, leaves of    *)
(* every header what the last rules for it say, for any rules and headers  *)
(* (Rewriter.rewriteHeaders).                                              *)
(***************************************************************************)
THEOREM HeadersByRules ==
  ASSUME NEW N, NEW V, NEW rules \in Seq(RuleSet(N, V)), NEW headers \in [N -> Seq(V)]
  PROVE  Rewritten(rules, headers, N)
  <1> DEFINE R == RuleSet(N, V)
             For(m) == {r \in R : r.name = m}
             P == {rs \in Seq(R) : \A m \in N : /\ Keep(rs, For(m)) \in Seq(R)
                                                /\ RewriteHeaders(rs, headers)[m] = HeaderAfter(Keep(rs, For(m)), headers[m])}
  <1>1. <<>> \in P
    <2>1. <<>> \in Seq(R)
          OBVIOUS
    <2>2. ASSUME NEW m \in N PROVE headers[m] \in Seq(V)
          BY Zenon
    <2> QED
        BY <2>1, <2>2, KeepEmpty, RewriteEmpty, HeaderEmpty, Zenon
  <1>2. ASSUME NEW rs \in Seq(R), NEW r \in R, rs \in P PROVE Append(rs, r) \in P
    <2> DEFINE h == RewriteHeaders(rs, headers)
    <2>1. Append(rs, r) \in Seq(R)
      <3> HIDE DEF R
      <3> QED
          OBVIOUS
    <2>2. h \in [N -> Seq(V)] /\ RewriteHeaders(Append(rs, r), headers) = RewriteHeader(h, r)
          BY RewriteAppend
    <2> HIDE DEF h
    <2>3. ASSUME NEW m \in N
          PROVE  /\ Keep(Append(rs, r), For(m)) \in Seq(R)
                 /\ RewriteHeaders(Append(rs, r), headers)[m] = HeaderAfter(Keep(Append(rs, r), For(m)), headers[m])
      <3> DEFINE K == For(m)
                 kept == Keep(rs, K)
                 all == Keep(Append(rs, r), K)
      <3>1. kept \in Seq(R) /\ h[m] = HeaderAfter(kept, headers[m]) /\ headers[m] \in Seq(V)
            BY <1>2, Zenon DEF h
      <3>2. all = IF r \in K THEN Append(kept, r) ELSE kept
        <4> HIDE DEF R, K
        <4> QED
            BY KeepAppend
      <3>3. r \in K <=> r.name = m
            BY Zenon
      <3> HIDE DEF K, kept, all
      <3>4. CASE r.name = m
        <4>1. Append(kept, r) \in Seq(R)
          <5> HIDE DEF R
          <5> QED
              BY <3>1
        <4>2. HeaderAfter(Append(kept, r), headers[m]) = ApplyRule(h[m], r)
              BY <3>1, HeaderAppend
        <4>3. RewriteHeader(h, r)[m] = ApplyRule(h[m], r)
              BY <2>2, <3>4, Zenon DEF RewriteHeader
        <4> QED
            BY <2>2, <3>2, <3>3, <3>4, <4>1, <4>2, <4>3, Zenon DEF all, K
      <3>5. CASE r.name # m
        <4>1. RewriteHeader(h, r)[m] = h[m]
              BY <2>2, <3>5, Zenon DEF RewriteHeader
        <4> QED
            BY <2>2, <3>1, <3>2, <3>3, <3>5, <4>1, Zenon DEF all, K
      <3> QED
          BY <3>4, <3>5, Zenon
    <2> QED
        BY <2>1, <2>3, Zenon
  <1>3. rules \in P
    <2>1. \A rs \in Seq(R) : rs \in P
      <3> HIDE DEF P, R
      <3> QED
          BY <1>1, <1>2, SeqInduction, Zenon
    <2> QED
        BY <2>1, Zenon
  <1>4. ASSUME NEW m \in N PROVE RulesFor(rules, m) = Keep(rules, For(m))
    <2>1. ToSet(rules) \subseteq R
      <3>1. \A i \in DOMAIN rules : rules[i] \in R
        <4>1. rules \in Seq(R)
              BY Zenon
        <4> HIDE DEF R
        <4> QED
            BY <4>1
      <3> QED
          BY <3>1, Zenon DEF ToSet
    <2>2. \A x \in ToSet(rules) : x \in {r \in ToSet(rules) : r.name = m} <=> x \in For(m)
          BY <2>1, Zenon
    <2> DEFINE K == {r \in ToSet(rules) : r.name = m}
               M == For(m)
    <2>3. Keep(rules, K) = Keep(rules, M)
      <3>1. rules \in Seq(R) /\ \A x \in ToSet(rules) : x \in K <=> x \in M
            BY <2>2, Zenon
      <3> HIDE DEF K, M, R
      <3> QED
          BY <3>1, KeepSame
    <2> QED
        BY <2>3, Zenon DEF RulesFor
  <1> QED
      BY <1>3, <1>4, Zenon DEF Rewritten

-----------------------------------------------------------------------------
(***************************************************************************)
(* isDomainName accepts what consists of good labels, for any limits.      *)
(***************************************************************************)
THEOREM NamesChecked == StartupSpec => []NamesHaveLabels
  <1>1. MaxName + 2 \in Nat
        BY NameAssumption
  <1>2. NamesHaveLabels
        BY <1>1, BoundedAreSeqs, NamesAreLabels, Zenon DEF NamesHaveLabels, WordsSplit
  <1> QED
        BY <1>2, PTL

(***************************************************************************)
(* With wildcards the names of a certificate cover the domains it is for.  *)
(***************************************************************************)
THEOREM WildcardsChecked == StartupSpec => []WildcardsCover
  <1> DEFINE L == {"x", "y"}
  <1>1. 2 \in Nat /\ 4 \in Nat
        OBVIOUS
  <1>2. ShortNames \subseteq Seq(L) /\ LongNames \subseteq Seq(L) \ {<<>>}
        BY <1>1, BoundedAreSeqs, Zenon DEF ShortNames, LongNames
  <1> HIDE DEF L
  <1>3. ASSUME NEW options \in UpTo(2, ShortNames), NEW ds \in UpTo(2, LongNames)
        PROVE  options \in Seq(Seq(L)) /\ ds \in Seq(Seq(L) \ {<<>>})
    <2>1. options \in Seq(ShortNames) /\ ds \in Seq(LongNames)
          BY <1>1, BoundedAreSeqs, Zenon
    <2> QED
          BY <1>2, <2>1, WiderSeq, Zenon
  <1>4. DomainsCovered
        BY <1>3, WildcardsFit, Zenon DEF DomainsCovered
  <1>5. WildcardsCover
        BY <1>4, Zenon DEF WildcardsCover
  <1> QED
        BY <1>5, PTL

(***************************************************************************)
(* rewriteHeaders leaves of a header what the last rules for it say.       *)
(***************************************************************************)
THEOREM RulesChecked == StartupSpec => []RulesInOrder
  <1> DEFINE N == {"g", "h", "other"}
             V == {<<>>, <<"x">>, <<"y">>, <<"up">>}
  <1>1. <<"x">> # <<>> /\ <<"y">> # <<>>
        OBVIOUS
  <1>2. Rules \subseteq RuleSet(N, V)
    <2>1. ASSUME NEW r \in Rules
          PROVE  r \in [op : Ops, name : N, value : V] /\ r.value # <<>>
          BY <1>1 DEF Rules, Ops
    <2> QED
          BY <2>1, Zenon DEF RuleSet
  <1>3. Values \subseteq Seq(V)
    <2>1. <<>> \in V /\ <<"up">> \in V
          BY Zenon
    <2> DEFINE x == <<"up">>
               e == <<>>
    <2>2. <<>> \in Seq(V) /\ <<x>> \in Seq(V) /\ <<e, x>> \in Seq(V)
      <3> HIDE DEF V, x, e
      <3> QED
          BY <2>1 DEF x, e
    <2> QED
          BY <2>2, Zenon DEF Values
  <1>4. 4 \in Nat
        OBVIOUS
  <1> HIDE DEF N, V
  <1>5. ASSUME NEW rules \in UpTo(4, Rules), NEW values \in Values, NEW n \in N
        PROVE  RewriteHeaders(rules, [k \in N |-> values])[n] = HeaderAfter(RulesFor(rules, n), values)
    <2> DEFINE headers == [k \in N |-> values]
    <2>1. rules \in Seq(RuleSet(N, V))
      <3>1. rules \in Seq(Rules)
            BY <1>4, BoundedAreSeqs, Zenon
      <3> QED
            BY <1>2, <3>1, WiderSeq, Zenon
    <2>2. headers \in [N -> Seq(V)] /\ headers[n] = values
          BY <1>3, Zenon
    <2>3. Rewritten(rules, headers, N)
          BY <2>1, <2>2, HeadersByRules, Zenon
    <2> QED
          BY <2>2, <2>3, Zenon DEF Rewritten
  <1>6. HeadersRewritten
        BY <1>5, Zenon DEF HeadersRewritten, N
  <1>7. RulesInOrder
        BY <1>6, Zenon DEF RulesInOrder
  <1> QED
        BY <1>7, PTL
=============================================================================
