---------------------------- MODULE ConfigProofs ----------------------------
(***************************************************************************)
(* Proofs about where a configuration comes from: the network source       *)
(* (NetworkSource), for any number of configurations, faults and frames in *)
(* flight, and the parser (ConfigParser), for files of any length. The     *)
(* parser is a fold over the lines; the proof follows it line by line and  *)
(* says, for every state it can be in, which blocks of the file it has     *)
(* read.                                                                   *)
(***************************************************************************)
EXTENDS NetworkSource, MCStartup, SequenceProofs

\* The steps of run that end it.
Ending == {"sending", "done"}

Typed ==
  /\ target \in Nat /\ served \in Nat /\ applied \in Nat
  /\ stream \in Seq(Nat \cup {Bad})
  /\ conn \in {"none", "open", "lost", "closed"}
  /\ deadline \in BOOLEAN /\ initialConfigRead \in BOOLEAN /\ secondChance \in BOOLEAN
  /\ pc \in {"off", "select", "arm", "read", "applied", "failed", "sleep"} \cup Ending
  /\ spc \in {"idle", "closing", "returned"}

(***************************************************************************)
(* The deadline belongs to the first configuration: it is cleared with it, *)
(* and every connection after that starts without one.                     *)
(***************************************************************************)
DeadlineInv ==
  /\ initialConfigRead /\ pc \notin Ending => ~deadline
  /\ applied > 0 => initialConfigRead \/ pc = "applied"

(***************************************************************************)
(* The second chance counts the failures since the last success.           *)
(***************************************************************************)
ChanceInv ==
  /\ pc \in {"off", "select", "arm", "read"} => failures = IF secondChance THEN 1 ELSE 0
  /\ pc = "applied" => failures = 0
  /\ pc = "failed" => failures = IF secondChance THEN 2 ELSE 1
  /\ pc = "sleep" => failures = 1 /\ ~secondChance
  /\ pc = "sending" => gaveUp \in {"dial", "read", "deadline"}
  /\ pc = "sending" /\ gaveUp = "read" => failures = 2

(***************************************************************************)
(* Until Stop is called nobody closes the connection but reconnect, which  *)
(* opens another one or gives up.  So no deadline is set on a closed one.  *)
(***************************************************************************)
CloseInv ==
  spc = "idle" =>
    /\ conn = "closed" => pc \in {"sleep"} \cup Ending
    /\ pc = "sending" => gaveUp # "deadline"

NetworkInv == Typed /\ DeadlineInv /\ ChanceInv /\ CloseInv

(***************************************************************************)
(* A fresh connection carries no frames, which is a stream.                *)
(***************************************************************************)
LEMMA NoFrames == <<>> \in Seq(Nat \cup {Bad})
  OBVIOUS

(***************************************************************************)
(* NetworkInv holds initially.                                             *)
(***************************************************************************)
LEMMA NetworkInitially == Init => NetworkInv
  <1> SUFFICES ASSUME Init PROVE NetworkInv
      OBVIOUS
  <1>1. Typed
        BY NoFrames DEF Init, Typed, Ending
  <1>2. DeadlineInv /\ ChanceInv /\ CloseInv
        BY DEF Init, DeadlineInv, ChanceInv, CloseInv
  <1> QED
        BY <1>1, <1>2 DEF NetworkInv

(***************************************************************************)
(* NetworkInv is preserved by what the server and the network do.          *)
(***************************************************************************)
LEMMA ServerKeeps ==
  ASSUME NetworkInv, Publish \/ Send \/ SendBad \/ Lose
  PROVE  NetworkInv'
  <1> USE DEF NetworkInv, DeadlineInv, ChanceInv, CloseInv, Ending, runVars, stopVars
  <1>1. CASE Publish
        BY <1>1 DEF Publish, Typed
  <1>2. CASE Send
        BY <1>2 DEF Send, Typed
  <1>3. CASE SendBad
        BY <1>3 DEF SendBad, Fault, Typed
  <1>4. CASE Lose
        BY <1>4 DEF Lose, Fault, Typed
  <1> QED
        BY <1>1, <1>2, <1>3, <1>4

(***************************************************************************)
(* NetworkInv is preserved by Start and the goroutine it starts.           *)
(***************************************************************************)
LEMMA RunKeeps ==
  ASSUME NetworkInv, Start \/ RunStep
  PROVE  NetworkInv'
  <1> USE DEF NetworkInv, Typed, DeadlineInv, ChanceInv, CloseInv, Ending, netVars, stopVars
  <1>1. CASE Start
        BY <1>1, NoFrames DEF Start, Dial
  <1>2. CASE RunStop \/ RunDefault
        BY <1>2 DEF RunStop, RunDefault
  <1>3. CASE RunRead
        BY <1>3 DEF RunRead
  <1>4. CASE SetDeadlineError
        BY <1>4 DEF SetDeadlineError, GiveUp
  <1>5. CASE Apply
    <2>1. Head(stream) \in Nat /\ Tail(stream) \in Seq(Nat \cup {Bad})
          BY <1>5 DEF Apply
    <2> QED
          BY <1>5, <2>1 DEF Apply
  <1>6. CASE ReadError \/ ReadTimeout
        BY <1>6 DEF ReadError, ReadTimeout, Fault, Failed
  <1>7. CASE Succeeded
        BY <1>7 DEF Succeeded
  <1>8. CASE ClearDeadlineError
        BY <1>8 DEF ClearDeadlineError, GiveUp
  <1>9. CASE SecondFailure
        BY <1>9 DEF SecondFailure, GiveUp
  <1>10. CASE Reconnect
        BY <1>10 DEF Reconnect
  <1>11. CASE Redial
        BY <1>11, NoFrames DEF Redial, Dial
  <1>12. CASE RedialError
        BY <1>12 DEF RedialError, GiveUp, Fault
  <1> QED
        BY <1>1, <1>2, <1>3, <1>4, <1>5, <1>6, <1>7, <1>8, <1>9, <1>10, <1>11, <1>12 DEF RunStep

(***************************************************************************)
(* NetworkInv is preserved by the main goroutine.                          *)
(***************************************************************************)
LEMMA MainKeeps ==
  ASSUME NetworkInv, Receive \/ Stop \/ StopStep
  PROVE  NetworkInv'
  <1> USE DEF NetworkInv, Typed, DeadlineInv, ChanceInv, CloseInv, Ending, netVars, runVars, stopVars
  <1>1. CASE Receive
        BY <1>1 DEF Receive
  <1>2. CASE Stop
        BY <1>2 DEF Stop
  <1>3. CASE StopStep
        BY <1>3 DEF StopStep, StopClose, StopCloseOld
  <1> QED
        BY <1>1, <1>2, <1>3

(***************************************************************************)
(* NetworkInv is an invariant.                                             *)
(***************************************************************************)
THEOREM NetworkInvariant == Spec => []NetworkInv
  <1>1. NetworkInv /\ [Next]_vars => NetworkInv'
    <2>1. NetworkInv /\ UNCHANGED vars => NetworkInv'
          BY DEF NetworkInv, Typed, DeadlineInv, ChanceInv, CloseInv, vars, netVars, runVars, stopVars
    <2> QED
          BY <2>1, ServerKeeps, RunKeeps, MainKeeps DEF Next
  <1> QED
        BY NetworkInitially, <1>1, PTL DEF Spec

(***************************************************************************)
(* No read is bounded in time once a configuration was applied, on the     *)
(* first connection or on one that reconnect has opened (run,              *)
(* readAndApplyConfig).                                                    *)
(***************************************************************************)
THEOREM NoLateTimeout == Spec => []NoTimeoutOnceConfigured
  <1>1. NetworkInv => NoTimeoutOnceConfigured
        BY DEF NetworkInv, DeadlineInv, NoTimeoutOnceConfigured, Ending
  <1> QED
        BY NetworkInvariant, <1>1, PTL

(***************************************************************************)
(* However often it failed and recovered before, the source gives up only  *)
(* after two failed reads in a row or a failed dial (run, reconnect).      *)
(***************************************************************************)
THEOREM SecondChanceGiven == Spec => []GivesUpAfterTwo
  <1>1. NetworkInv => GivesUpAfterTwo
        BY DEF NetworkInv, ChanceInv, CloseInv, GivesUpAfterTwo
  <1> QED
        BY NetworkInvariant, <1>1, PTL

-----------------------------------------------------------------------------

(***************************************************************************)
(* The pass of Parse over the lines, without the end of the f.          *)
(***************************************************************************)
ReadLines(f) == FoldLeft(ReadLine, Initial, f)

\* What the pass computes with sets of lines, as FoldLeft defines it.
Reads(F, n, f) ==
  F = [t \in SUBSET (1..n) |-> IF t = {} THEN Initial ELSE ReadLine(F[t \ {Max(t)}], f[Max(t)])]

(***************************************************************************)
(* The pass is defined for every f, whatever its lines hold.            *)
(***************************************************************************)
LEMMA ReadsExist ==
  ASSUME NEW L, NEW f \in Seq(L)
  PROVE  \A k \in 0..Len(f) : \E F : Reads(F, k, f)
  <1> DEFINE n == Len(f)
             P == {k \in 0..n : \E F : Reads(F, k, f)}
  <1>1. n \in Nat /\ 0 \in 0..n
        OBVIOUS
  <1> HIDE DEF n
  <1>2. 0 \in P
    <2> DEFINE F == [t \in SUBSET (1..0) |-> Initial]
    <2>1. \A t \in SUBSET (1..0) : t = {}
          OBVIOUS
    <2>2. F = [t \in SUBSET (1..0) |-> IF t = {} THEN Initial ELSE ReadLine(F[t \ {Max(t)}], f[Max(t)])]
          BY <2>1, Zenon
    <2> HIDE DEF F
    <2> QED
          BY <1>1, <2>2, Zenon DEF Reads
  <1>3. ASSUME NEW k \in 1..n, k - 1 \in P PROVE k \in P
    <2>1. PICK F : Reads(F, k - 1, f)
          BY <1>3, Zenon
    <2> DEFINE G == [t \in SUBSET (1..k) |-> IF k \in t THEN ReadLine(F[t \ {k}], f[k]) ELSE F[t]]
    <2>2. ASSUME NEW t \in SUBSET (1..k) PROVE t \ {k} \in SUBSET (1..(k - 1)) /\ (k \notin t => t = t \ {k})
          OBVIOUS
    <2>3. ASSUME NEW t \in SUBSET (1..(k - 1))
          PROVE  F[t] = IF t = {} THEN Initial ELSE ReadLine(F[t \ {Max(t)}], f[Max(t)])
          BY <2>1, Zenon DEF Reads
    <2>4. ASSUME NEW t \in SUBSET (1..k), t # {}
          PROVE  /\ Max(t) \in t /\ t \ {Max(t)} \in SUBSET (1..k)
                 /\ k \in t => Max(t) = k
      <3>1. t \in SUBSET (0..k) /\ k \in Nat
            BY <1>1
      <3>2. Max(t) \in t /\ \A j \in t : j <= Max(t)
            BY <3>1, <2>4, MaxIs, Zenon
      <3> DEFINE m == Max(t)
      <3>3. m \in 1..k /\ (k \in t => k <= m)
            BY <3>2, Zenon
      <3> HIDE DEF m
      <3>4. k \in t => m = k
            BY <1>1, <3>3
      <3> QED
            BY <3>2, <3>4, Zenon DEF m
    <2>5. ASSUME NEW t \in SUBSET (1..k)
          PROVE  G[t] = IF t = {} THEN Initial ELSE ReadLine(G[t \ {Max(t)}], f[Max(t)])
      <3>1. CASE t = {}
        <4>1. {} \in SUBSET (1..(k - 1)) /\ k \notin {}
              OBVIOUS
        <4> QED
              BY <2>3, <3>1, <4>1, Zenon
      <3>2. CASE t # {} /\ k \in t
        <4>1. Max(t) = k /\ t \ {k} \in SUBSET (1..k) /\ k \notin t \ {k}
              BY <3>2, <2>4, Zenon
        <4>2. G[t] = ReadLine(F[t \ {k}], f[k]) /\ G[t \ {k}] = F[t \ {k}]
              BY <3>2, <4>1, Zenon
        <4> QED
              BY <3>2, <4>1, <4>2, Zenon
      <3>3. CASE t # {} /\ k \notin t
        <4>1. t \in SUBSET (1..(k - 1)) /\ Max(t) \in t /\ t \ {Max(t)} \in SUBSET (1..k) /\ k \notin t \ {Max(t)}
              BY <3>3, <2>2, <2>4, Zenon
        <4>2. G[t] = F[t] /\ G[t \ {Max(t)}] = F[t \ {Max(t)}]
              BY <3>3, <4>1, Zenon
        <4> QED
              BY <2>3, <3>3, <4>1, <4>2, Zenon
      <3> QED
          BY <3>1, <3>2, <3>3, Zenon
    <2>6. k \in 0..n
          BY <1>1
    <2>7. Reads(G, k, f)
      <3> DEFINE H == [t \in SUBSET (1..k) |-> IF t = {} THEN Initial ELSE ReadLine(G[t \ {Max(t)}], f[Max(t)])]
      <3>1. \A t \in SUBSET (1..k) : G[t] = H[t]
            BY <2>5, Zenon
      <3>2. G = H
            BY <3>1, Zenon
      <3> QED
            BY <3>2, Zenon DEF Reads
    <2> QED
          BY <2>6, <2>7, Zenon
  <1>4. \A i \in 0..n : i \in P
    <2> HIDE DEF P
    <2> QED
        BY <1>1, <1>2, <1>3, Induction, Zenon
  <1> QED
        BY <1>4, Zenon DEF n

(***************************************************************************)
(* Reading a file is the recursive function of its fold, at all lines.     *)
(***************************************************************************)
LEMMA ReadsIter ==
  ASSUME NEW L, NEW f \in Seq(L)
  PROVE  LET iter == CHOOSE F : Reads(F, Len(f), f)
         IN Reads(iter, Len(f), f) /\ ReadLines(f) = iter[1..Len(f)]
  <1> DEFINE n == Len(f)
             iter == CHOOSE F : Reads(F, n, f)
  <1>1. n \in 0..n /\ DOMAIN f = 1..n
        OBVIOUS
  <1>2. \E F : Reads(F, n, f)
        BY <1>1, ReadsExist, Zenon
  <1>3. Reads(iter, n, f)
        BY <1>2, Zenon
  <1>4. ReadLines(f) = iter[1..n]
        BY <1>1, Zenon DEF ReadLines, FoldLeft, MapThenFoldSet, Reads
  <1> QED
        BY <1>3, <1>4, Zenon

(***************************************************************************)
(* The pass by its last line.                                              *)
(***************************************************************************)
LEMMA ReadEmpty == ReadLines(<<>>) = Initial
  <1>1. <<>> \in Seq({}) /\ Len(<<>>) = 0 /\ 1..0 = {}
        OBVIOUS
  <1>2. PICK iter : Reads(iter, 0, <<>>) /\ ReadLines(<<>>) = iter[1..0]
        BY <1>1, ReadsIter, Zenon
  <1> QED
        BY <1>1, <1>2, Zenon DEF Reads

(***************************************************************************)
(* A new last line is read in the state the earlier ones left.             *)
(***************************************************************************)
LEMMA ReadAppend ==
  ASSUME NEW L, NEW f \in Seq(L), NEW line \in L
  PROVE  ReadLines(Append(f, line)) = ReadLine(ReadLines(f), line)
  <1> DEFINE n == Len(f)
             u == Append(f, line)
  <1>1. /\ u \in Seq(L) /\ Len(u) = n + 1 /\ n \in Nat /\ n + 1 \in Nat \ {0} /\ n \in 0..n
        /\ u[n + 1] = line /\ (n + 1) - 1 = n /\ \A i \in 1..n : u[i] = f[i]
        OBVIOUS
  <1> HIDE DEF u
  <1>2. PICK it : Reads(it, n, f) /\ ReadLines(f) = it[1..n]
        BY ReadsIter, Zenon
  <1>3. PICK ju : Reads(ju, n + 1, u) /\ ReadLines(u) = ju[1..(n + 1)]
        BY <1>1, ReadsIter, Zenon
  <1> HIDE DEF n
  <1> DEFINE P == {k \in 0..n : ju[1..k] = it[1..k]}
  <1>4. 0 \in P
    <2>1. 0 \in 0..n /\ 1..0 = {} /\ {} \in SUBSET (1..n) /\ {} \in SUBSET (1..(n + 1))
          BY <1>1
    <2>2. ju[{}] = Initial /\ it[{}] = Initial
          BY <1>2, <1>3, <2>1, Zenon DEF Reads
    <2> QED
          BY <2>1, <2>2, Zenon
  <1>5. ASSUME NEW i \in 1..n, i - 1 \in P PROVE i \in P
    <2>1. 1..i \in SUBSET (1..n) /\ 1..i \in SUBSET (1..(n + 1)) /\ i \in Nat \ {0} /\ i \in 0..n
          BY <1>1
    <2>2. 1..i # {} /\ Max(1..i) = i /\ (1..i) \ {Max(1..i)} = 1..(i - 1)
          BY <2>1, MaxOfPrefix, Zenon
    <2>3. ju[1..i] = ReadLine(ju[1..(i - 1)], u[i])
          BY <1>3, <2>1, <2>2, Zenon DEF Reads
    <2>4. it[1..i] = ReadLine(it[1..(i - 1)], f[i])
          BY <1>2, <2>1, <2>2, Zenon DEF Reads
    <2> QED
          BY <1>1, <1>5, <2>1, <2>3, <2>4, Zenon
  <1>6. \A i \in 0..n : i \in P
    <2> HIDE DEF P
    <2> QED
        BY <1>1, <1>4, <1>5, Induction, Zenon
  <1>7. ju[1..n] = it[1..n]
        BY <1>1, <1>6, Zenon
  <1>8. ju[1..(n + 1)] = ReadLine(ju[1..n], line)
    <2>1. 1..(n + 1) \in SUBSET (1..(n + 1))
          OBVIOUS
    <2>2. 1..(n + 1) # {} /\ Max(1..(n + 1)) = n + 1 /\ (1..(n + 1)) \ {Max(1..(n + 1))} = 1..n
          BY <1>1, MaxOfPrefix, Zenon
    <2> QED
          BY <1>1, <1>3, <2>1, <2>2, Zenon DEF Reads
  <1> QED
        BY <1>2, <1>3, <1>7, <1>8, Zenon DEF u

(***************************************************************************)
(* Flatten, next by next.                                                  *)
(***************************************************************************)
FlattenStep(V, s) ==
  [i \in 1..Len(s) |-> [joined \in Seq(V) |-> joined \o s[i]]]

(***************************************************************************)
(* Flatten is a fold, one step for each list.                              *)
(***************************************************************************)
LEMMA FlattenRuns ==
  ASSUME NEW V, NEW s \in Seq(Seq(V))
  PROVE  Reaches(Seq(V), Len(s), <<>>, FlattenStep(V, s), Flatten(s))
  <1> DEFINE n == Len(s)
             next == FlattenStep(V, s)
             Iter(F) == F = [t \in SUBSET DOMAIN s |->
                               IF t = {} THEN <<>>
                               ELSE F[t \ {Max(t)}] \o s[Max(t)]]
             iter == CHOOSE F : Iter(F)
  <1>1. n \in Nat /\ DOMAIN s = 1..n /\ <<>> \in Seq(V)
        OBVIOUS
  <1>2. next \in [1..n -> [Seq(V) -> Seq(V)]]
    <2>1. \A i \in 1..n : \A joined \in Seq(V) : joined \o s[i] \in Seq(V)
          OBVIOUS
    <2> QED
        BY <2>1, Zenon DEF FlattenStep
  <1>3. ASSUME NEW i \in 1..n, NEW joined \in Seq(V)
        PROVE  next[i][joined] = joined \o s[i]
        BY Zenon DEF FlattenStep
  <1> HIDE DEF n, next
  <1>4. ASSUME NEW t \in SUBSET (1..n), t # {} PROVE Max(t) \in 1..n
    <2>1. t \in SUBSET (0..n)
          BY <1>1
    <2> QED
          BY <1>1, <1>4, <2>1, MaxIs, Zenon
  <1>5. PICK F \in [SUBSET (1..n) -> Seq(V)] : Folds(F, n, <<>>, next)
        BY <1>1, <1>2, FoldExists, Zenon
  <1>6. Iter(F)
    <2>1. ASSUME NEW t \in SUBSET (1..n)
          PROVE  F[t] = IF t = {} THEN <<>>
                        ELSE F[t \ {Max(t)}] \o s[Max(t)]
      <3>1. CASE t = {}
            BY <1>5, <3>1, Zenon DEF Folds
      <3>2. CASE t # {}
        <4>1. F[t] = next[Max(t)][F[t \ {Max(t)}]]
              BY <1>5, <3>2, Zenon DEF Folds
        <4>2. t \ {Max(t)} \in SUBSET (1..n)
              BY Zenon
        <4> QED
              BY <1>3, <1>4, <3>2, <4>1, <4>2, Zenon
      <3> QED
          BY <3>1, <3>2, Zenon
    <2> QED
        BY <1>1, <2>1, Zenon
  <1>7. Iter(iter)
    <2> HIDE DEF Iter
    <2> QED
        BY <1>6, Zenon
  <1>8. Flatten(s) = iter[1..n]
        BY <1>1, Zenon DEF Flatten, FoldLeft, MapThenFoldSet
  <1>9. iter[{}] = <<>>
        BY <1>7, Zenon
  <1>10. ASSUME NEW t \in SUBSET (1..n), t # {}, iter[t \ {Max(t)}] \in Seq(V)
         PROVE  iter[t] = next[Max(t)][iter[t \ {Max(t)}]]
    <2>1. iter[t] = iter[t \ {Max(t)}] \o s[Max(t)]
          BY <1>1, <1>7, <1>10, Zenon
    <2> HIDE DEF iter
    <2> QED
          BY <1>3, <1>4, <1>10, <2>1, Zenon
  <1> HIDE DEF iter
  <1>11. FoldsIn(iter, Seq(V), n, <<>>, next)
         BY <1>9, <1>10, Zenon DEF FoldsIn
  <1>12. Reaches(Seq(V), n, <<>>, next, iter[1..n])
         BY <1>1, <1>2, <1>11, FoldRuns, Zenon
  <1> QED
        BY <1>8, <1>12, Zenon DEF n, next

(***************************************************************************)
(* Flatten by the last member of the sequence.                                *)
(***************************************************************************)
LEMMA FlattenEmpty == Flatten(<<>>) = <<>>
  <1>1. <<>> \in Seq(Seq({})) /\ Len(<<>>) = 0
        OBVIOUS
  <1>2. PICK run : Runs(run, Seq({}), Len(<<>>), <<>>, FlattenStep({}, <<>>)) /\ Flatten(<<>>) = run[Len(<<>>)]
        BY <1>1, FlattenRuns, Zenon DEF Reaches
  <1> QED
        BY <1>1, <1>2, Zenon DEF Runs

(***************************************************************************)
(* A new last list goes behind the members of the earlier ones.            *)
(***************************************************************************)
LEMMA FlattenAppend ==
  ASSUME NEW V, NEW s \in Seq(Seq(V)), NEW x \in Seq(V)
  PROVE  /\ Flatten(s) \in Seq(V)
         /\ Flatten(Append(s, x)) = Flatten(s) \o x
  <1> DEFINE n == Len(s)
             u == Append(s, x)
             next == FlattenStep(V, s)
             other == FlattenStep(V, u)
  <1>1. /\ u \in Seq(Seq(V)) /\ Len(u) = n + 1 /\ n \in Nat /\ n + 1 \in Nat /\ n <= n + 1 /\ n \in 0..n
        /\ n + 1 \in 1..(n + 1) /\ (n + 1) - 1 = n
        OBVIOUS
  <1>2. u[n + 1] = x /\ \A i \in 1..n : i \in 1..(n + 1) /\ u[i] = s[i]
        OBVIOUS
  <1> HIDE DEF u
  <1>3. PICK run : Runs(run, Seq(V), n, <<>>, next) /\ Flatten(s) = run[n]
        BY FlattenRuns, Zenon DEF Reaches
  <1>4. PICK more : Runs(more, Seq(V), n + 1, <<>>, other) /\ Flatten(u) = more[n + 1]
        BY <1>1, FlattenRuns, Zenon DEF Reaches
  <1>5. \A i \in 1..n : next[i] = other[i]
        BY <1>1, <1>2, Zenon DEF FlattenStep
  <1>6. other[n + 1] = [joined \in Seq(V) |-> joined \o x]
        BY <1>1, <1>2, Zenon DEF FlattenStep
  <1> HIDE DEF n, next, other
  <1>7. run[n] = more[n]
    <2>1. \A i \in 0..n : run[i] = more[i]
          BY <1>1, <1>3, <1>4, <1>5, RunsAgree
    <2> QED
          BY <1>1, <2>1, Zenon
  <1>8. run[n] \in Seq(V)
        BY <1>1, <1>3, Zenon DEF Runs
  <1>9. more[n + 1] = other[n + 1][more[n]]
        BY <1>1, <1>4, Zenon DEF Runs
  <1> QED
        BY <1>3, <1>4, <1>6, <1>7, <1>8, <1>9, Zenon DEF u

-----------------------------------------------------------------------------
\* The lines with a directive of D and arguments of W.
Lines(D, W) == [directive : D, args : Seq(W)]

\* The arguments of a list of lines.
Args(ls) == [i \in DOMAIN ls |-> ls[i].args]

(***************************************************************************)
(* One more line is one more list of arguments.                            *)
(***************************************************************************)
LEMMA ArgsOfLines ==
  ASSUME NEW D, NEW W, NEW ls \in Seq(Lines(D, W)), NEW l \in Lines(D, W)
  PROVE  Args(ls) \in Seq(Seq(W)) /\ Args(Append(ls, l)) = Append(Args(ls), l.args)
  <1> DEFINE n == Len(ls)
             L == Lines(D, W)
             u == Append(ls, l)
             a == Args(u)
             c == Args(ls)
             b == Append(c, l.args)
             A == Seq(W)
  <1>1. \A x \in L : x.args \in A
        BY Zenon DEF Lines
  <1>2. ls \in Seq(L) /\ l \in L
        BY Zenon
  <1> HIDE DEF L, A
  <1>3. /\ n \in Nat /\ DOMAIN ls = 1..n /\ DOMAIN u = 1..(n + 1) /\ u[n + 1] = l
        /\ \A i \in 1..n : u[i] = ls[i] /\ ls[i] \in L
        BY <1>2
  <1>4. l.args \in A /\ \A i \in 1..n : ls[i].args \in A
        BY <1>1, <1>2, <1>3, Zenon
  <1>5. c \in [1..n -> A] /\ \A i \in 1..n : c[i] = ls[i].args
        BY <1>3, <1>4, Zenon DEF Args
  <1>6. DOMAIN a = 1..(n + 1) /\ \A i \in 1..(n + 1) : a[i] = u[i].args
        BY <1>3, Zenon DEF Args
  <1>7. a = [i \in 1..(n + 1) |-> u[i].args]
        BY <1>3, Zenon DEF Args
  <1> DEFINE la == l.args
  <1> HIDE DEF n, u, c, la
  <1>8. c \in Seq(A) /\ Len(c) = n
        BY <1>3, <1>5
  <1>9. b \in Seq(A) /\ Len(b) = n + 1 /\ b[n + 1] = la /\ (\A i \in 1..n : b[i] = c[i]) /\ DOMAIN b = 1..(n + 1)
    <2>1. la \in A
          BY <1>4, Zenon DEF la
    <2>2. b = Append(c, la)
          BY Zenon DEF la
    <2> QED
          BY <1>3, <1>8, <2>1, <2>2
  <1>10. \A i \in 1..(n + 1) : i = n + 1 \/ i \in 1..n
        BY <1>3
  <1>11. \A i \in 1..(n + 1) : u[i].args = b[i]
        BY <1>3, <1>5, <1>9, <1>10, Zenon DEF la
  <1> HIDE DEF b, a
  <1>12. b = [i \in 1..(n + 1) |-> b[i]]
        BY <1>3, <1>9
  <1>13. a = b
        BY <1>7, <1>11, <1>12, Zenon
  <1> QED
        BY <1>8, <1>13, Zenon DEF a, b, c, A, u

(***************************************************************************)
(* A block without lines has no arguments.                                 *)
(***************************************************************************)
LEMMA ArgsEmpty == \A d : ArgsOf(<<>>, d) = <<>>
  <1>1. DOMAIN <<>> = {} /\ [i \in {} |-> <<>>[i].args] = <<>>
        OBVIOUS
  <1> QED
        BY <1>1, KeepEmpty, Zenon DEF ArgsOf

(***************************************************************************)
(* A new last line adds its arguments to those of its directive.           *)
(***************************************************************************)
LEMMA ArgsAppend ==
  ASSUME NEW D, NEW W, NEW b \in Seq(Lines(D, W)), NEW l \in Lines(D, W), NEW d
  PROVE  /\ ArgsOf(b, d) \in Seq(Seq(W))
         /\ ArgsOf(Append(b, l), d) = IF l.directive = d THEN Append(ArgsOf(b, d), l.args) ELSE ArgsOf(b, d)
  <1> DEFINE L == Lines(D, W)
             u == Append(b, l)
             K == {x \in ToSet(b) : x.directive = d}
             M == {x \in ToSet(u) : x.directive = d}
  <1>1. b \in Seq(L) /\ l \in L
        BY Zenon
  <1>2. ToSet(u) = ToSet(b) \cup {l}
    <2> HIDE DEF L
    <2> QED
        BY <1>1, SetOfAppend
  <1>3. Keep(b, M) = Keep(b, K)
    <2>1. \A x \in ToSet(b) : x \in M <=> x \in K
          BY <1>2, Zenon
    <2> HIDE DEF L, K, M, u
    <2> QED
        BY <1>1, <2>1, KeepSame
  <1>4. l \in M <=> l.directive = d
        BY <1>2, Zenon
  <1>5. Keep(b, M) \in Seq(L) /\ Keep(u, M) = IF l \in M THEN Append(Keep(b, M), l) ELSE Keep(b, M)
    <2> HIDE DEF L, M
    <2> QED
        BY <1>1, KeepAppend
  <1>6. ArgsOf(b, d) = Args(Keep(b, K)) /\ ArgsOf(u, d) = Args(Keep(u, M))
        BY Zenon DEF ArgsOf, Args
  <1> HIDE DEF K, M, u
  <1>7. Keep(b, K) \in Seq(L)
        BY <1>3, <1>5, Zenon
  <1>8. Args(Keep(b, K)) \in Seq(Seq(W)) /\ Args(Append(Keep(b, K), l)) = Append(Args(Keep(b, K)), l.args)
        BY <1>7, ArgsOfLines
  <1>9. CASE l.directive = d
        BY <1>3, <1>4, <1>5, <1>6, <1>8, <1>9, Zenon DEF u
  <1>10. CASE l.directive # d
        BY <1>3, <1>4, <1>5, <1>6, <1>8, <1>10, Zenon DEF u
  <1> QED
        BY <1>9, <1>10, Zenon

-----------------------------------------------------------------------------
(***************************************************************************)
(* Route lines and blocks by the last line of a f.                      *)
(***************************************************************************)
Positions(f) == [i \in DOMAIN f |-> i]

\* The positions of the route lines, in order.
HeadSeq(f) == Keep(Positions(f), Heads(f))

\* The line starts a route.
IsHead(l) == l.directive = "route"

(***************************************************************************)
(* A new last line is a head if it is a route line.                        *)
(***************************************************************************)
LEMMA HeadsAppend ==
  ASSUME NEW L, NEW f \in Seq(L), NEW l \in L
  PROVE  /\ Heads(f) \in SUBSET (1..Len(f))
         /\ Heads(Append(f, l)) = IF IsHead(l) THEN Heads(f) \cup {Len(f) + 1} ELSE Heads(f)
  <1> DEFINE n == Len(f)
             u == Append(f, l)
  <1>1. n \in Nat /\ DOMAIN f = 1..n /\ DOMAIN u = 1..(n + 1) /\ u[n + 1] = l /\ \A i \in 1..n : u[i] = f[i]
        OBVIOUS
  <1> HIDE DEF n, u
  <1>2. 1..(n + 1) = (1..n) \cup {n + 1}
        BY <1>1
  <1>3. Heads(u) = {i \in 1..n : u[i].directive = "route"} \cup {i \in {n + 1} : u[i].directive = "route"}
        BY <1>1, <1>2, Zenon DEF Heads
  <1>4. {i \in 1..n : u[i].directive = "route"} = Heads(f)
        BY <1>1, Zenon DEF Heads
  <1>5. {i \in {n + 1} : u[i].directive = "route"} = IF IsHead(l) THEN {n + 1} ELSE {}
        BY <1>1, Zenon DEF IsHead
  <1>6. Heads(f) \in SUBSET (1..n)
        BY <1>1, Zenon DEF Heads
  <1> QED
        BY <1>3, <1>4, <1>5, <1>6, Zenon DEF n, u

(***************************************************************************)
(* A new last line adds its position.                                      *)
(***************************************************************************)
LEMMA PositionsAppend ==
  ASSUME NEW L, NEW f \in Seq(L), NEW l \in L
  PROVE  /\ Positions(f) \in Seq(Nat) /\ ToSet(Positions(f)) = 1..Len(f)
         /\ Positions(Append(f, l)) = Append(Positions(f), Len(f) + 1)
  <1> DEFINE n == Len(f)
             u == Append(f, l)
             ps == [i \in 1..n |-> i]
             qs == [i \in 1..(n + 1) |-> i]
  <1>1. n \in Nat /\ DOMAIN f = 1..n /\ DOMAIN u = 1..(n + 1)
        OBVIOUS
  <1>2. Positions(f) = ps /\ Positions(u) = qs
        BY <1>1, Zenon DEF Positions
  <1> HIDE DEF n, u
  <1>3. ps \in Seq(Nat) /\ Len(ps) = n /\ (\A i \in 1..n : ps[i] = i) /\ DOMAIN ps = 1..n
        BY <1>1
  <1>4. qs \in Seq(Nat) /\ Len(qs) = n + 1 /\ \A i \in 1..(n + 1) : qs[i] = i
        BY <1>1
  <1> HIDE DEF ps, qs
  <1>5. Append(ps, n + 1) \in Seq(Nat) /\ Len(Append(ps, n + 1)) = n + 1
        /\ \A i \in 1..(n + 1) : Append(ps, n + 1)[i] = i
        BY <1>1, <1>3
  <1>6. qs = Append(ps, n + 1)
        BY <1>1, <1>4, <1>5, SameSeq
  <1>7. ToSet(ps) = 1..n
        BY <1>3, Zenon DEF ToSet
  <1> QED
        BY <1>2, <1>3, <1>6, <1>7, Zenon DEF n, u

(***************************************************************************)
(* A new route line comes behind the earlier ones.                         *)
(***************************************************************************)
LEMMA HeadSeqAppend ==
  ASSUME NEW L, NEW f \in Seq(L), NEW l \in L
  PROVE  /\ HeadSeq(f) \in Seq(Nat) /\ ToSet(HeadSeq(f)) = Heads(f)
         /\ HeadSeq(Append(f, l)) = IF IsHead(l) THEN Append(HeadSeq(f), Len(f) + 1) ELSE HeadSeq(f)
  <1> DEFINE n == Len(f)
             u == Append(f, l)
             ps == Positions(f)
             H == Heads(f)
             J == Heads(u)
  <1>1. n \in Nat /\ n + 1 \in Nat /\ n + 1 \notin 1..n
        OBVIOUS
  <1>2. ps \in Seq(Nat) /\ ToSet(ps) = 1..n /\ Positions(u) = Append(ps, n + 1)
        BY PositionsAppend
  <1>3. H \in SUBSET (1..n) /\ J = IF IsHead(l) THEN H \cup {n + 1} ELSE H
        BY HeadsAppend
  <1>4. HeadSeq(f) = Keep(ps, H) /\ HeadSeq(u) = Keep(Positions(u), J)
        BY Zenon DEF HeadSeq
  <1> HIDE DEF n, ps, H, J, u
  <1>5. Keep(ps, H) \in Seq(Nat) /\ ToSet(Keep(ps, H)) = (1..n) \cap H
        BY <1>2, KeepSet, Zenon
  <1>6. Keep(Append(ps, n + 1), J) = IF n + 1 \in J THEN Append(Keep(ps, J), n + 1) ELSE Keep(ps, J)
    <2> DEFINE N == Nat
               k == n + 1
    <2>1. ps \in Seq(N) /\ k \in N
          BY <1>1, <1>2, Zenon
    <2> HIDE DEF N, k
    <2>2. Keep(Append(ps, k), J) = IF k \in J THEN Append(Keep(ps, J), k) ELSE Keep(ps, J)
          BY <2>1, KeepAppend
    <2> QED
          BY <2>2, Zenon DEF k
  <1>7. Keep(ps, J) = Keep(ps, H)
    <2>1. \A x \in ToSet(ps) : x \in J <=> x \in H
          BY <1>1, <1>2, <1>3, Zenon
    <2> DEFINE N == Nat
    <2>2. ps \in Seq(N)
          BY <1>2, Zenon
    <2> HIDE DEF N
    <2> QED
          BY <2>1, <2>2, KeepSame
  <1>8. n + 1 \in J <=> IsHead(l)
        BY <1>1, <1>3, Zenon
  <1>9. (1..n) \cap H = H
        BY <1>3, Zenon
  <1>10. HeadSeq(u) = IF IsHead(l) THEN Append(HeadSeq(f), n + 1) ELSE HeadSeq(f)
    <2>1. CASE IsHead(l)
          BY <1>2, <1>4, <1>6, <1>7, <1>8, <2>1, Zenon
    <2>2. CASE ~IsHead(l)
          BY <1>2, <1>4, <1>6, <1>7, <1>8, <2>2, Zenon
    <2> QED
          BY <2>1, <2>2, Zenon
  <1> QED
        BY <1>4, <1>5, <1>9, <1>10, Zenon DEF n, u, H

(***************************************************************************)
(* The route lines are found in order, so that the last one is the         *)
(* greatest.                                                               *)
(***************************************************************************)
Rising(hs) == \A i, j \in DOMAIN hs : i < j => hs[i] < hs[j]

(***************************************************************************)
(* A rising list of numbers up to n stays rising with n + 1.               *)
(***************************************************************************)
LEMMA RisingAppend ==
  ASSUME NEW n \in Nat, NEW hs \in Seq(Nat), ToSet(hs) \subseteq 1..n, Rising(hs)
  PROVE  Rising(Append(hs, n + 1))
  <1>1. \A i \in DOMAIN hs : hs[i] \in 1..n
        BY Zenon DEF ToSet
  <1> QED
        BY <1>1 DEF Rising

(***************************************************************************)
(* The heads are in the order of the file.                                 *)
(***************************************************************************)
LEMMA HeadsRise ==
  ASSUME NEW L, NEW f \in Seq(L)
  PROVE  Rising(HeadSeq(f))
  <1> DEFINE P == {g \in Seq(L) : Rising(HeadSeq(g))}
  <1>1. <<>> \in P
    <2>1. <<>> \in Seq(L) /\ DOMAIN <<>> = {} /\ [i \in {} |-> i] = <<>>
          OBVIOUS
    <2>2. HeadSeq(<<>>) = <<>>
          BY <2>1, KeepEmpty, Zenon DEF HeadSeq, Positions
    <2> QED
          BY <2>1, <2>2, Zenon DEF Rising
  <1>2. ASSUME NEW g \in Seq(L), NEW l \in L, g \in P PROVE Append(g, l) \in P
    <2> DEFINE hs == HeadSeq(g)
               n == Len(g)
    <2>1. hs \in Seq(Nat) /\ ToSet(hs) = Heads(g)
          /\ HeadSeq(Append(g, l)) = IF IsHead(l) THEN Append(hs, n + 1) ELSE hs
          BY HeadSeqAppend
    <2>2. Heads(g) \in SUBSET (1..n)
          BY HeadsAppend
    <2>3. n \in Nat /\ Append(g, l) \in Seq(L)
          OBVIOUS
    <2>4. Rising(hs)
          BY <1>2, Zenon
    <2> HIDE DEF hs, n
    <2>5. Rising(Append(hs, n + 1))
          BY <2>1, <2>2, <2>3, <2>4, RisingAppend
    <2>6. Rising(HeadSeq(Append(g, l)))
          BY <2>1, <2>4, <2>5, Zenon
    <2> QED
          BY <2>3, <2>6, Zenon
  <1>3. \A g \in Seq(L) : g \in P
    <2> HIDE DEF P
    <2> QED
        BY <1>1, <1>2, SeqInduction, Zenon
  <1> QED
        BY <1>3, Zenon

\* The part from h to e is not changed by a new last line.
Inner(L, f, l, h, e) == SubSeq(f, h, e) \in Seq(L) \ {<<>>} /\ SubSeq(Append(f, l), h, e) = SubSeq(f, h, e)

(***************************************************************************)
(* A part of the file is not changed by a new last line.                   *)
(***************************************************************************)
LEMMA InnerAppend ==
  ASSUME NEW L, NEW f \in Seq(L), NEW l \in L, NEW h \in 1..Len(f), NEW e \in h..Len(f)
  PROVE  Inner(L, f, l, h, e)
  <1> DEFINE n == Len(f)
             u == Append(f, l)
             a == SubSeq(u, h, e)
             b == SubSeq(f, h, e)
  <1>1. n \in Nat /\ h \in 1..n /\ e \in h..n /\ u \in Seq(L) /\ Len(u) = n + 1 /\ \A i \in 1..n : u[i] = f[i]
    <2>1. Extends(u, f, l, L)
          BY AppendExtends, Zenon
    <2> HIDE DEF u
    <2> QED
          BY <2>1, Zenon DEF Extends
  <1>2. b \in Seq(L) /\ Len(b) = e - h + 1 /\ (\A i \in 1..(e - h + 1) : b[i] = f[h + i - 1]) /\ b # <<>>
    <2>1. IsPart(b, f, h, e, L)
          BY SubSeqIsPart, Zenon
    <2> HIDE DEF b
    <2> QED
          BY <2>1, Zenon DEF IsPart
  <1> HIDE DEF u
  <1>3. a \in Seq(L) /\ Len(a) = e - h + 1 /\ \A i \in 1..(e - h + 1) : a[i] = u[h + i - 1]
    <2>1. h \in 1..(n + 1) /\ e \in h..(n + 1)
          BY <1>1
    <2>2. IsPart(a, u, h, e, L)
          BY <1>1, <2>1, SubSeqIsPart, Zenon
    <2> HIDE DEF a
    <2> QED
          BY <2>2, Zenon DEF IsPart
  <1> HIDE DEF a, b, n
  <1>4. \A i \in 1..(e - h + 1) : h + i - 1 \in 1..n
        BY <1>1
  <1>5. \A i \in 1..Len(a) : a[i] = b[i]
        BY <1>1, <1>2, <1>3, <1>4, Zenon
  <1>6. a = b
        BY <1>2, <1>3, <1>5, SameSeq
  <1> QED
        BY <1>2, <1>6, Zenon DEF a, b, u, Inner

\* The heads behind h.
Later(f, h) == {k \in Heads(f) : k > h}

\* The last line of the block that starts at h.
End(f, h) == IF Later(f, h) = {} THEN Len(f) ELSE Min(Later(f, h)) - 1

(***************************************************************************)
(* A block is the part of the file from its head to its end.               *)
(***************************************************************************)
LEMMA EndIs ==
  ASSUME NEW L, NEW f \in Seq(L), NEW h \in Heads(f)
  PROVE  h \in 1..Len(f) /\ End(f, h) \in h..Len(f) /\ Block(f, h) = SubSeq(f, h, End(f, h))
  <1> DEFINE n == Len(f)
             next == Later(f, h)
  <1>1. n \in Nat /\ Heads(f) \in SUBSET (1..n)
        BY DEF Heads
  <1>2. h \in 1..n
        BY <1>1, Zenon
  <1>3. Block(f, h) = SubSeq(f, h, End(f, h))
        BY Zenon DEF Block, End, Later
  <1>4. CASE next = {}
    <2>1. End(f, h) = n
          BY <1>4, Zenon DEF End
    <2> HIDE DEF n
    <2>2. n \in h..n
          BY <1>1, <1>2
    <2> QED
          BY <1>2, <1>3, <2>1, <2>2, Zenon DEF n
  <1>5. CASE next # {}
    <2>1. End(f, h) = Min(next) - 1
          BY <1>5, Zenon DEF End
    <2>2. next \in SUBSET (1..n) /\ \A k \in next : k > h
          BY <1>1, Zenon DEF Later
    <2> HIDE DEF next, n
    <2>3. next \in SUBSET Nat
          BY <2>2
    <2>4. Min(next) \in next
          BY <1>5, <2>3, MinIs, Zenon
    <2> DEFINE m == Min(next)
    <2> HIDE DEF m
    <2>5. m \in 1..n /\ m > h
          BY <2>2, <2>4, Zenon DEF m
    <2>6. m - 1 \in h..n
          BY <1>1, <1>2, <2>5
    <2> QED
          BY <1>2, <1>3, <2>1, <2>6, Zenon DEF m, n
  <1> QED
      BY <1>4, <1>5, Zenon

(***************************************************************************)
(* A new last line belongs to the last block unless it starts one; it      *)
(* changes no other block.                                                 *)
(***************************************************************************)
LEMMA BlockAppend ==
  ASSUME NEW L, NEW f \in Seq(L), NEW l \in L, NEW h \in Heads(f)
  PROVE  /\ Block(f, h) \in Seq(L) \ {<<>>}
         /\ IsHead(l) \/ Later(f, h) # {} => Block(Append(f, l), h) = Block(f, h)
         /\ ~IsHead(l) /\ Later(f, h) = {} => Block(Append(f, l), h) = Append(Block(f, h), l)
  <1> DEFINE n == Len(f)
             u == Append(f, l)
             e == End(f, h)
  <1>1. h \in 1..n /\ e \in h..n /\ Block(f, h) = SubSeq(f, h, e)
        BY EndIs, Zenon
  <1>2. n \in Nat /\ u \in Seq(L) /\ Len(u) = n + 1
        OBVIOUS
  <1>3. Heads(f) \in SUBSET (1..n) /\ Heads(u) = IF IsHead(l) THEN Heads(f) \cup {n + 1} ELSE Heads(f)
        BY HeadsAppend
  <1>4. h \in Heads(u)
        BY <1>3, Zenon
  <1>5. Block(u, h) = SubSeq(u, h, End(u, h))
        BY <1>2, <1>4, EndIs, Zenon
  <1>6. SubSeq(f, h, e) \in Seq(L) \ {<<>>} /\ SubSeq(u, h, e) = SubSeq(f, h, e)
    <2> HIDE DEF e
    <2>1. Inner(L, f, l, h, e)
          BY <1>1, InnerAppend, Zenon
    <2> QED
          BY <2>1, Zenon DEF Inner
  <1> DEFINE H == Later(f, h)
             J == Later(u, h)
  <1> HIDE DEF u, n
  <1>7. n + 1 > h /\ h \in Nat
        BY <1>1, <1>2
  <1>8. J = IF IsHead(l) THEN H \cup {n + 1} ELSE H
        BY <1>3, <1>7, Zenon DEF Later
  <1>9. CASE H # {}
    <2>1. H \in SUBSET (1..n)
          BY <1>3, Zenon DEF Later
    <2> DEFINE m == Min(H)
    <2> HIDE DEF H, J
    <2>2. H \in SUBSET Nat /\ J \in SUBSET Nat
          BY <1>2, <1>8, <2>1
    <2>3. m \in H /\ \A k \in H : m <= k
          BY <1>9, <2>2, MinIs, Zenon
    <2>4. m <= n + 1 /\ m \in J
      <3>1. m \in 1..n
            BY <2>1, <2>3, Zenon
      <3> HIDE DEF m
      <3>2. m <= n + 1
            BY <1>2, <3>1
      <3>3. m \in J
            BY <1>8, <2>3, Zenon
      <3> QED
          BY <3>2, <3>3, Zenon
    <2>5. \A k \in J : m <= k
          BY <1>8, <2>3, <2>4, Zenon
    <2> HIDE DEF m
    <2>6. Min(J) = m
          BY <2>2, <2>4, <2>5, MinUnique, Zenon
    <2>7. End(u, h) = e
          BY <1>9, <2>4, <2>6, Zenon DEF End, H, J, m
    <2> QED
          BY <1>1, <1>5, <1>6, <1>9, <2>7, Zenon DEF u, H
  <1>10. CASE H = {} /\ IsHead(l)
    <2>1. e = n
          BY <1>10, Zenon DEF End, n
    <2>2. J = {n + 1}
          BY <1>8, <1>10, Zenon
    <2>3. Min(J) = n + 1
      <3>1. J \in SUBSET Nat /\ n + 1 \in J /\ \A k \in J : n + 1 <= k
            BY <1>2, <2>2
      <3> HIDE DEF J
      <3> QED
          BY <3>1, MinUnique, Zenon
    <2>4. n + 1 - 1 = n
          BY <1>2
    <2>5. End(u, h) = n
      <3>1. J # {}
            BY <2>2, Zenon
      <3>2. End(u, h) = Min(J) - 1
            BY <3>1, Zenon DEF End
      <3> HIDE DEF J
      <3> QED
          BY <1>2, <2>3, <3>2
    <2> QED
          BY <1>1, <1>5, <1>6, <1>10, <2>1, <2>5, Zenon DEF u
  <1>11. CASE H = {} /\ ~IsHead(l)
    <2>1. e = n
          BY <1>11, Zenon DEF End, n
    <2>2. J = {}
          BY <1>8, <1>11, Zenon
    <2>3. End(u, h) = n + 1
          BY <1>2, <2>2, Zenon DEF End
    <2>4. h - 1 \in 0..n /\ h - 1 + 1 = h
          BY <1>1, <1>2
    <2> DEFINE k == h - 1
    <2> HIDE DEF k
    <2>5. k \in 0..Len(f) /\ k + 1 = h
          BY <2>4, Zenon DEF k, n
    <2>6. SubSeq(Append(f, l), k + 1, Len(f) + 1) = Append(SubSeq(f, k + 1, Len(f)), l)
          BY <2>5, SuffixAppend
    <2>7. SubSeq(u, h, n + 1) = Append(SubSeq(f, h, n), l)
          BY <2>5, <2>6, Zenon DEF n, u
    <2> QED
          BY <1>1, <1>5, <1>6, <1>11, <2>1, <2>3, <2>7, Zenon DEF u
  <1> QED
      BY <1>9, <1>10, <1>11, Zenon

(***************************************************************************)
(* A new route line is a block by itself.                                  *)
(***************************************************************************)
LEMMA NewBlock ==
  ASSUME NEW L, NEW f \in Seq(L), NEW l \in L, IsHead(l)
  PROVE  Block(Append(f, l), Len(f) + 1) = <<l>>
  <1> DEFINE n == Len(f)
             u == Append(f, l)
  <1>1. Heads(f) \in SUBSET (1..n) /\ Heads(u) = Heads(f) \cup {n + 1}
        BY HeadsAppend
  <1>2. n \in Nat /\ u \in Seq(L) /\ Len(u) = n + 1 /\ u[n + 1] = l
        OBVIOUS
  <1> HIDE DEF n, u
  <1>3. \A k \in Heads(u) : ~(k > n + 1)
        BY <1>1, <1>2
  <1>4. Later(u, n + 1) = {}
        BY <1>3, Zenon DEF Later
  <1>5. Block(u, n + 1) = SubSeq(u, n + 1, n + 1)
        BY <1>2, <1>4, Zenon DEF Block, Later
  <1> DEFINE a == SubSeq(u, n + 1, n + 1)
             b == <<l>>
  <1>6. a \in Seq(L) /\ Len(a) = 1 /\ a[1] = l
        BY <1>2
  <1>7. b \in Seq(L) /\ Len(b) = 1 /\ b[1] = l
        OBVIOUS
  <1> HIDE DEF a, b
  <1>8. \A i \in 1..Len(a) : a[i] = b[i]
        BY <1>6, <1>7
  <1>9. a = b
        BY <1>6, <1>7, <1>8, SameSeq
  <1> QED
        BY <1>5, <1>9, Zenon DEF n, u, a, b

(***************************************************************************)
(* The blocks of a f by its last line.                                  *)
(***************************************************************************)
Extend(bs, l) == [j \in DOMAIN bs |-> IF j = Len(bs) THEN Append(bs[j], l) ELSE bs[j]]

\* The blocks at the heads hs.
BlocksOf(f, hs) == [j \in DOMAIN hs |-> Block(f, hs[j])]

(***************************************************************************)
(* An empty file has no blocks.                                            *)
(***************************************************************************)
LEMMA NoBlocks == Blocks(<<>>) = <<>> /\ Heads(<<>>) = {}
  <1>1. DOMAIN <<>> = {} /\ [i \in {} |-> i] = <<>> /\ [j \in {} |-> Block(<<>>, <<>>[j])] = <<>>
        OBVIOUS
  <1> QED
        BY <1>1, KeepEmpty, Zenon DEF Blocks, Heads

(***************************************************************************)
(* A new last line starts a block or extends the last one.                 *)
(***************************************************************************)
LEMMA BlocksAppend ==
  ASSUME NEW L, NEW f \in Seq(L), NEW l \in L
  PROVE  /\ Blocks(f) \in Seq(Seq(L) \ {<<>>})
         /\ Blocks(f) = <<>> <=> Heads(f) = {}
         /\ IsHead(l) => Blocks(Append(f, l)) = Append(Blocks(f), <<l>>)
         /\ ~IsHead(l) => Blocks(Append(f, l)) = Extend(Blocks(f), l)
  <1> DEFINE u == Append(f, l)
             n == Len(f)
             hs == HeadSeq(f)
             m == Len(hs)
             B == Seq(L) \ {<<>>}
             bs == BlocksOf(f, hs)
             cs == BlocksOf(u, HeadSeq(u))
  <1>0. ASSUME NEW h \in Heads(f)
        PROVE  /\ Block(f, h) \in B
               /\ IsHead(l) \/ Later(f, h) # {} => Block(u, h) = Block(f, h)
               /\ ~IsHead(l) /\ Later(f, h) = {} => Block(u, h) = Append(Block(f, h), l)
        BY BlockAppend
  <1>1. Blocks(f) = bs /\ Blocks(u) = cs
        BY Zenon DEF Blocks, BlocksOf, HeadSeq, Positions
  <1>2. /\ hs \in Seq(Nat) /\ ToSet(hs) = Heads(f)
        /\ HeadSeq(u) = IF IsHead(l) THEN Append(hs, n + 1) ELSE hs
        BY HeadSeqAppend
  <1>3. n \in Nat /\ n + 1 \in Nat /\ u \in Seq(L)
        OBVIOUS
  <1> HIDE DEF u, n, hs
  <1>4. m \in Nat /\ DOMAIN hs = 1..m
        BY <1>2
  <1>5. \A j \in 1..m : hs[j] \in Heads(f)
        BY <1>2, <1>4, Zenon DEF ToSet
  <1>6. \A j \in 1..m : Block(f, hs[j]) \in B
        BY <1>0, <1>5, Zenon
  <1>7. DOMAIN bs = 1..m /\ \A j \in 1..m : bs[j] = Block(f, hs[j])
        BY <1>4, Zenon DEF BlocksOf
  <1>8. bs \in [1..m -> B]
        BY <1>4, <1>6, Zenon DEF BlocksOf
  <1> HIDE DEF m, bs, B
  <1>9. bs \in Seq(B) /\ Len(bs) = m
        BY <1>4, <1>8
  <1>10. bs = <<>> <=> Heads(f) = {}
    <2>1. bs = <<>> <=> m = 0
          BY <1>9
    <2>2. m = 0 <=> 1..m = {}
          BY <1>4
    <2>3. 1..m = {} <=> Heads(f) = {}
          BY <1>2, <1>4, <1>5, Zenon DEF ToSet
    <2> QED
          BY <2>1, <2>2, <2>3, Zenon
  <1>11. ASSUME IsHead(l) PROVE cs = Append(bs, <<l>>)
    <2> DEFINE gs == Append(hs, n + 1)
               x == <<l>>
    <2>1. /\ gs \in Seq(Nat) /\ DOMAIN gs = 1..(m + 1) /\ gs[m + 1] = n + 1
          /\ \A j \in 1..m : gs[j] = hs[j]
          BY <1>2, <1>3, <1>4 DEF m
    <2>2. HeadSeq(u) = gs
          BY <1>2, <1>11, Zenon
    <2>3. cs = [j \in 1..(m + 1) |-> Block(u, gs[j])]
          BY <2>1, <2>2, Zenon DEF BlocksOf
    <2>4. Block(u, n + 1) = x
          BY <1>11, NewBlock, Zenon DEF n, u
    <2>5. \A j \in 1..m : Block(u, hs[j]) = bs[j]
          BY <1>0, <1>5, <1>7, <1>11, Zenon
    <2>6. x \in B
      <3>1. x \in Seq(L) /\ x # <<>>
            OBVIOUS
      <3> QED
          BY <3>1, Zenon DEF B
    <2> HIDE DEF gs, x, cs
    <2>7. Append(bs, x) \in Seq(B) /\ DOMAIN Append(bs, x) = 1..(m + 1) /\ Append(bs, x)[m + 1] = x
          /\ \A j \in 1..m : Append(bs, x)[j] = bs[j]
          BY <1>4, <1>9, <2>6
    <2>8. \A j \in 1..(m + 1) : j = m + 1 \/ j \in 1..m
          BY <1>4
    <2>9. \A j \in 1..(m + 1) : Block(u, gs[j]) = Append(bs, x)[j]
          BY <2>1, <2>4, <2>5, <2>7, <2>8, Zenon
    <2>10. Append(bs, x) = [j \in 1..(m + 1) |-> Append(bs, x)[j]]
      <3> DEFINE ys == Append(bs, x)
      <3>1. ys \in Seq(B) /\ DOMAIN ys = 1..(m + 1)
            BY <2>7, Zenon
      <3> HIDE DEF ys
      <3>2. ys \in [1..Len(ys) -> B] /\ DOMAIN ys = 1..Len(ys)
            BY <3>1, SeqParts, Zenon
      <3>3. ys = [j \in 1..(m + 1) |-> ys[j]]
            BY <3>1, <3>2, Zenon
      <3> QED
          BY <3>3, Zenon DEF ys
    <2> QED
          BY <2>3, <2>9, <2>10, Zenon DEF x
  <1>12. ASSUME ~IsHead(l) PROVE cs = Extend(bs, l)
    <2>1. cs = [j \in 1..m |-> Block(u, hs[j])]
          BY <1>2, <1>4, <1>12, Zenon DEF BlocksOf
    <2>2. Rising(hs) /\ Heads(f) \in SUBSET (1..n)
          BY HeadsRise, HeadsAppend, Zenon DEF hs, n
    <2>3. ASSUME NEW j \in 1..m PROVE Block(u, hs[j]) = IF j = m THEN Append(bs[j], l) ELSE bs[j]
      <3>1. CASE j = m
        <4>1. \A k \in Heads(f) : ~(k > hs[j])
          <5> SUFFICES ASSUME NEW k \in Heads(f) PROVE ~(k > hs[j])
              BY Zenon
          <5>1. PICK i \in 1..m : k = hs[i]
                BY <1>2, <1>4, Zenon DEF ToSet
          <5>2. i = j \/ i < j
                BY <1>4, <3>1
          <5>3. i < j => hs[i] < hs[j]
                BY <1>4, <2>2, Zenon DEF Rising
          <5>4. hs[i] \in Nat /\ hs[j] \in Nat
                BY <1>2, <1>4
          <5> QED
                BY <5>1, <5>2, <5>3, <5>4
        <4>2. Later(f, hs[j]) = {}
              BY <4>1, Zenon DEF Later
        <4> QED
              BY <1>0, <1>5, <1>7, <1>12, <3>1, <4>2, Zenon
      <3>2. CASE j # m
        <4>1. m \in 1..m /\ j < m
              BY <1>4, <3>2
        <4>2. hs[j] < hs[m]
              BY <1>4, <2>2, <4>1, Zenon DEF Rising
        <4>3. hs[j] \in Nat /\ hs[m] \in Nat
              BY <1>2, <1>4, <4>1
        <4>4. hs[m] > hs[j]
              BY <4>2, <4>3
        <4>5. Later(f, hs[j]) # {}
              BY <1>5, <4>1, <4>4, Zenon DEF Later
        <4> QED
              BY <1>0, <1>5, <1>7, <3>2, <4>5, Zenon
      <3> QED
          BY <3>1, <3>2, Zenon
    <2>4. Extend(bs, l) = [j \in 1..m |-> IF j = m THEN Append(bs[j], l) ELSE bs[j]]
          BY <1>7, <1>9, Zenon DEF Extend
    <2> QED
          BY <2>1, <2>3, <2>4, Zenon
  <1> QED
      BY <1>1, <1>9, <1>10, <1>11, <1>12, Zenon DEF B, u

-----------------------------------------------------------------------------

\* g of every member of a list.
Mapped(g, xs) == [i \in DOMAIN xs |-> g[xs[i]]]

\* One more member is one more value.
MapsIn(g, xs, a, V) == Mapped(g, xs) \in Seq(V) /\ Mapped(g, Append(xs, a)) = Append(Mapped(g, xs), g[a])

(***************************************************************************)
(* One more member of a list is one more value of the list of values.      *)
(***************************************************************************)
LEMMA MapAppend ==
  ASSUME NEW A, NEW V, NEW g \in [A -> V], NEW xs \in Seq(A), NEW a \in A
  PROVE  MapsIn(g, xs, a, V)
  <1> DEFINE n == Len(xs)
             u == Append(xs, a)
             c == Mapped(g, xs)
             d == Mapped(g, u)
             x == g[a]
             b == Append(c, x)
  <1>1. /\ n \in Nat /\ DOMAIN xs = 1..n /\ DOMAIN u = 1..(n + 1) /\ u[n + 1] = a
        /\ \A i \in 1..n : u[i] = xs[i] /\ xs[i] \in A
    <2>1. n \in Nat /\ DOMAIN xs = 1..n /\ \A i \in 1..n : xs[i] \in A
          OBVIOUS
    <2>2. DOMAIN u = 1..(n + 1) /\ u[n + 1] = a /\ \A i \in 1..n : u[i] = xs[i]
          OBVIOUS
    <2> QED
          BY <2>1, <2>2, Zenon
  <1>2. c \in [1..n -> V] /\ \A i \in 1..n : c[i] = g[xs[i]]
        BY <1>1, Zenon DEF Mapped
  <1>3. d = [i \in 1..(n + 1) |-> g[u[i]]]
        BY <1>1, Zenon DEF Mapped
  <1>4. x \in V
        BY Zenon
  <1> HIDE DEF n, u, c, d, x
  <1>5. c \in Seq(V) /\ Len(c) = n
        BY <1>1, <1>2
  <1>6. b \in Seq(V) /\ Len(b) = n + 1 /\ b[n + 1] = x /\ \A i \in 1..n : b[i] = c[i]
        BY <1>1, <1>4, <1>5
  <1>7. \A i \in 1..(n + 1) : i = n + 1 \/ i \in 1..n
        BY <1>1
  <1>8. \A i \in 1..(n + 1) : g[u[i]] = b[i]
        BY <1>1, <1>2, <1>6, <1>7, Zenon DEF x
  <1> HIDE DEF b
  <1>9. b \in [1..(n + 1) -> V]
        BY <1>6, SeqParts, Zenon
  <1>10. b = d
        BY <1>3, <1>8, <1>9, Zenon
  <1> QED
        BY <1>5, <1>10, Zenon DEF MapsIn, b, c, d, u, x

\* The header rules of a list of arguments.
ParsedRules(xs) == [i \in DOMAIN xs |-> Rule(xs[i])]

\* The error pages of a list of arguments.
Mappings(xs) == [i \in DOMAIN xs |-> Mapping(xs[i])]

(***************************************************************************)
(* One more line is one more rule, or one more error page.                 *)
(***************************************************************************)
LEMMA ListsAppend ==
  ASSUME NEW W, NEW xs \in Seq(Seq(W)), NEW a \in Seq(W)
  PROVE  /\ ParsedRules(Append(xs, a)) = Append(ParsedRules(xs), Rule(a))
         /\ Mappings(Append(xs, a)) = Append(Mappings(xs), Mapping(a))
  <1> DEFINE A == Seq(W)
             r == [x \in A |-> Rule(x)]
             m == [x \in A |-> Mapping(x)]
             R == {Rule(x) : x \in A}
             M == {Mapping(x) : x \in A}
             u == Append(xs, a)
  <1>1. xs \in Seq(A) /\ a \in A
        BY Zenon
  <1>2. r \in [A -> R] /\ m \in [A -> M]
        BY Zenon
  <1>3. MapsIn(r, xs, a, R) /\ MapsIn(m, xs, a, M)
    <2> HIDE DEF A, r, m, R, M
    <2> QED
        BY <1>1, <1>2, MapAppend, Zenon
  <1>4. u \in Seq(A) /\ \A s \in {xs, u} : \A i \in DOMAIN s : s[i] \in A
    <2> HIDE DEF A
    <2>1. u \in Seq(A)
          BY <1>1
    <2>2. \A s \in Seq(A) : \A i \in DOMAIN s : s[i] \in A
          OBVIOUS
    <2> QED
        BY <1>1, <2>1, <2>2, Zenon
  <1>5. r[a] = Rule(a) /\ m[a] = Mapping(a)
        BY <1>1, Zenon
  <1>6. Mapped(r, xs) = ParsedRules(xs) /\ Mapped(r, u) = ParsedRules(u)
        BY <1>4, Zenon DEF Mapped, ParsedRules
  <1>7. Mapped(m, xs) = Mappings(xs) /\ Mapped(m, u) = Mappings(u)
        BY <1>4, Zenon DEF Mapped, Mappings
  <1> HIDE DEF r, m
  <1> QED
        BY <1>3, <1>5, <1>6, <1>7, Zenon DEF MapsIn

-----------------------------------------------------------------------------
(***************************************************************************)
(* The last of a list, <<>> if there is none.                              *)
(***************************************************************************)
Final(ps) == IF ps = <<>> THEN <<>> ELSE ps[Len(ps)]

\* A route, by its fields.
RouteRec(d, u, h, e, p, r, s) ==
  [domains |-> d, upstreams |-> u, headers |-> h, errors |-> e, provider |-> p, redirect |-> r, subject |-> s]

(***************************************************************************)
(* The route of a block, by its fields.                                    *)
(***************************************************************************)
LEMMA RouteOfIs ==
  \A b : RouteOf(b) = RouteRec(b[1].args, ArgsOf(b, "upstream"), ParsedRules(ArgsOf(b, "header")),
                               Mappings(ArgsOf(b, "on_error")), Final(ArgsOf(b, "provider")),
                               ArgsOf(b, "redirect-to-primary") # <<>>, Flatten(ArgsOf(b, "subject")))
  BY Zenon DEF RouteOf, RouteRec, ParsedRules, Mappings, Final

(***************************************************************************)
(* What a line within a block adds to its route.                           *)
(***************************************************************************)
WithLine(r, l) ==
  RouteRec(r.domains,
           IF l.directive = "upstream" THEN Append(r.upstreams, l.args) ELSE r.upstreams,
           IF l.directive = "header" THEN Append(r.headers, Rule(l.args)) ELSE r.headers,
           IF l.directive = "on_error" THEN Append(r.errors, Mapping(l.args)) ELSE r.errors,
           IF l.directive = "provider" THEN l.args ELSE r.provider,
           r.redirect \/ l.directive = "redirect-to-primary",
           IF l.directive = "subject" THEN r.subject \o l.args ELSE r.subject)

\* The line l changes the route of the block b as WithLine says.
RouteGrows(b, l) == RouteOf(Append(b, l)) = WithLine(RouteOf(b), l)

(***************************************************************************)
(* A new last line changes the route of a block as WithLine says.          *)
(***************************************************************************)
LEMMA RouteAppend ==
  ASSUME NEW D, NEW W, NEW b \in Seq(Lines(D, W)) \ {<<>>}, NEW l \in Lines(D, W)
  PROVE  RouteGrows(b, l)
  <1> DEFINE u == Append(b, l)
             a == l.args
             B(d) == ArgsOf(b, d)
             U(d) == ArgsOf(u, d)
  <1>1. a \in Seq(W)
        BY Zenon DEF Lines
  <1>2. u[1] = b[1]
    <2> DEFINE L == Lines(D, W)
    <2>1. b \in Seq(L) /\ l \in L /\ b # <<>>
          BY Zenon
    <2> HIDE DEF L
    <2> QED
          BY <2>1
  <1>3. \A d : B(d) \in Seq(Seq(W)) /\ U(d) = IF l.directive = d THEN Append(B(d), a) ELSE B(d)
        BY ArgsAppend
  <1> HIDE DEF u, a, B, U
  <1>4. \A d : Append(B(d), a) # <<>> /\ Final(Append(B(d), a)) = a
    <2> TAKE d
    <2> DEFINE x == B(d)
               A == Seq(W)
    <2>1. x \in Seq(A) /\ a \in A
          BY <1>1, <1>3, Zenon
    <2> HIDE DEF x, A
    <2>2. Append(x, a) # <<>> /\ Append(x, a)[Len(Append(x, a))] = a
          BY <2>1
    <2> QED
          BY <2>2, Zenon DEF Final, x
  <1>5. \A d : /\ ParsedRules(Append(B(d), a)) = Append(ParsedRules(B(d)), Rule(a))
               /\ Mappings(Append(B(d), a)) = Append(Mappings(B(d)), Mapping(a))
        BY <1>1, <1>3, ListsAppend
  <1>6. \A d : Flatten(Append(B(d), a)) = Flatten(B(d)) \o a
        BY <1>1, <1>3, FlattenAppend
  <1>7. U("upstream") = IF l.directive = "upstream" THEN Append(B("upstream"), a) ELSE B("upstream")
        BY <1>3, Zenon
  <1>8. ParsedRules(U("header")) = IF l.directive = "header" THEN Append(ParsedRules(B("header")), Rule(a)) ELSE ParsedRules(B("header"))
        BY <1>3, <1>5, Zenon
  <1>9. Mappings(U("on_error")) = IF l.directive = "on_error" THEN Append(Mappings(B("on_error")), Mapping(a))
                                  ELSE Mappings(B("on_error"))
        BY <1>3, <1>5, Zenon
  <1>10. Final(U("provider")) = IF l.directive = "provider" THEN a ELSE Final(B("provider"))
        BY <1>3, <1>4, Zenon
  <1>11. (U("redirect-to-primary") # <<>>) = (B("redirect-to-primary") # <<>> \/ l.directive = "redirect-to-primary")
        BY <1>3, <1>4, Zenon
  <1>12. Flatten(U("subject")) = IF l.directive = "subject" THEN Flatten(B("subject")) \o a ELSE Flatten(B("subject"))
        BY <1>3, <1>6, Zenon
  <1>13. RouteOf(b) = RouteRec(b[1].args, B("upstream"), ParsedRules(B("header")), Mappings(B("on_error")),
                               Final(B("provider")), B("redirect-to-primary") # <<>>, Flatten(B("subject")))
        BY RouteOfIs, Zenon DEF B
  <1>14. RouteOf(u) = RouteRec(u[1].args, U("upstream"), ParsedRules(U("header")), Mappings(U("on_error")),
                               Final(U("provider")), U("redirect-to-primary") # <<>>, Flatten(U("subject")))
        BY RouteOfIs, Zenon DEF U
  <1>15. /\ RouteOf(b).domains = b[1].args /\ RouteOf(b).upstreams = B("upstream")
         /\ RouteOf(b).headers = ParsedRules(B("header")) /\ RouteOf(b).errors = Mappings(B("on_error"))
         /\ RouteOf(b).provider = Final(B("provider"))
         /\ RouteOf(b).redirect = (B("redirect-to-primary") # <<>>)
         /\ RouteOf(b).subject = Flatten(B("subject"))
    <2> DEFINE d == b[1].args
               p == Final(B("provider"))
               r == (B("redirect-to-primary") # <<>>)
               s == Flatten(B("subject"))
               us == B("upstream")
               h == ParsedRules(B("header"))
               e == Mappings(B("on_error"))
    <2>1. RouteOf(b) = RouteRec(d, us, h, e, p, r, s)
          BY <1>13, Zenon
    <2> HIDE DEF d, us, h, e, p, r, s
    <2>2. LET x == RouteRec(d, us, h, e, p, r, s)
          IN /\ x.domains = d /\ x.upstreams = us /\ x.headers = h /\ x.errors = e
             /\ x.provider = p /\ x.redirect = r /\ x.subject = s
          BY DEF RouteRec
    <2> QED
          BY <2>1, <2>2, Zenon DEF d, us, h, e, p, r, s
  <1>16. WithLine(RouteOf(b), l) =
           RouteRec(b[1].args, U("upstream"), ParsedRules(U("header")), Mappings(U("on_error")),
                    Final(U("provider")), U("redirect-to-primary") # <<>>, Flatten(U("subject")))
        BY <1>7, <1>8, <1>9, <1>10, <1>11, <1>12, <1>15, Zenon DEF WithLine, a
  <1> QED
        BY <1>2, <1>14, <1>16, Zenon DEF u, RouteGrows

-----------------------------------------------------------------------------
(***************************************************************************)
(* When a line may follow those of a block.                                *)
(***************************************************************************)
Fits(r, l) ==
  /\ l.directive = "header"   => GoodHeader(l.args)
  /\ l.directive = "on_error" => GoodOnError(l.args)
  /\ l.directive = "subject"  => l.args # <<>>
  /\ l.directive = "provider" => r.provider = <<>>
  /\ l.directive = "redirect-to-primary" => ~r.redirect /\ ~(Len(r.domains) < 2)

(***************************************************************************)
(* A provider line is good when none came before it.                       *)
(***************************************************************************)
LEMMA ProvidersAppend ==
  ASSUME NEW A, NEW ps \in Seq(A), NEW a \in A
  PROVE  GoodProviders(Append(ps, a)) <=> GoodProviders(ps) /\ Final(ps) = <<>>
  <1> DEFINE n == Len(ps)
             u == Append(ps, a)
  <1>1. /\ n \in Nat /\ DOMAIN ps = 1..n /\ DOMAIN u = 1..(n + 1) /\ Len(u) = n + 1
        /\ (ps = <<>> <=> n = 0) /\ \A i \in 1..n : u[i] = ps[i]
        OBVIOUS
  <1> HIDE DEF u, n
  <1>2. \A i \in 1..(n + 1) : i < n + 1 <=> i \in 1..n
        BY <1>1
  <1>3. GoodProviders(u) <=> \A i \in 1..n : ps[i] = <<>>
    <2>1. \A i \in 1..n : i \in 1..(n + 1)
          BY <1>1
    <2> QED
        BY <1>1, <1>2, <2>1, Zenon DEF GoodProviders
  <1>4. CASE n = 0
    <2>1. 1..n = {}
          BY <1>4
    <2> QED
          BY <1>1, <1>3, <1>4, <2>1, Zenon DEF GoodProviders, Final, u
  <1>5. CASE n # 0
    <2>1. n \in 1..n /\ \A i \in 1..n : i < n <=> i # n
          BY <1>1, <1>5
    <2>2. Final(ps) = ps[n]
          BY <1>1, <1>5, Zenon DEF Final, n
    <2>3. GoodProviders(ps) <=> \A i \in 1..n : i # n => ps[i] = <<>>
          BY <1>1, <2>1, Zenon DEF GoodProviders, n
    <2> QED
          BY <1>3, <2>1, <2>2, <2>3, Zenon DEF u
  <1> QED
      BY <1>4, <1>5, Zenon

\* The block stays good with l just when l fits its route.
StaysGood(b, l) == GoodLines(Append(b, l)) <=> GoodLines(b) /\ Fits(RouteOf(b), l)

(***************************************************************************)
(* A block stays good with a new last line just when the line fits its     *)
(* route.                                                                  *)
(***************************************************************************)
LEMMA GoodAppend ==
  ASSUME NEW D, NEW W, NEW b \in Seq(Lines(D, W)) \ {<<>>}, NEW l \in Lines(D, W)
  PROVE  StaysGood(b, l)
  <1> DEFINE u == Append(b, l)
             a == l.args
             d == l.directive
             B(x) == ArgsOf(b, x)
             U(x) == ArgsOf(u, x)
             A == Seq(W)
             red == "redirect-to-primary"
  <1>1. a \in A
        BY Zenon DEF Lines
  <1>2. u[1] = b[1]
    <2> DEFINE L == Lines(D, W)
    <2>1. b \in Seq(L) /\ l \in L /\ b # <<>>
          BY Zenon
    <2> HIDE DEF L
    <2> QED
          BY <2>1
  <1>3. \A x : B(x) \in Seq(A) /\ U(x) = IF d = x THEN Append(B(x), a) ELSE B(x)
        BY ArgsAppend
  <1>4. /\ RouteOf(b).domains = b[1].args
        /\ RouteOf(b).provider = Final(B("provider"))
        /\ RouteOf(b).redirect = (B(red) # <<>>)
        BY Zenon DEF RouteOf, Final
  <1>5. GoodLines(u) <=> /\ u[1].args # <<>>
                         /\ \A x \in ToSet(U("header"))   : GoodHeader(x)
                         /\ \A x \in ToSet(U("on_error")) : GoodOnError(x)
                         /\ \A x \in ToSet(U("subject"))  : x # <<>>
                         /\ GoodProviders(U("provider"))
                         /\ Len(U(red)) \in (IF Len(u[1].args) > 1 THEN {0, 1} ELSE {0})
        BY Zenon DEF GoodLines
  <1>6. GoodLines(b) <=> /\ b[1].args # <<>>
                         /\ \A x \in ToSet(B("header"))   : GoodHeader(x)
                         /\ \A x \in ToSet(B("on_error")) : GoodOnError(x)
                         /\ \A x \in ToSet(B("subject"))  : x # <<>>
                         /\ GoodProviders(B("provider"))
                         /\ Len(B(red)) \in (IF Len(b[1].args) > 1 THEN {0, 1} ELSE {0})
        BY Zenon DEF GoodLines
  <1>7. Fits(RouteOf(b), l) <=> /\ d = "header"   => GoodHeader(a)
                                /\ d = "on_error" => GoodOnError(a)
                                /\ d = "subject"  => a # <<>>
                                /\ d = "provider" => Final(B("provider")) = <<>>
                                /\ d = red => B(red) = <<>> /\ ~(Len(b[1].args) < 2)
        BY <1>4, Zenon DEF Fits
  <1>8. Len(b[1].args) \in Nat
    <2>1. b[1].args \in A
      <3> DEFINE L == Lines(D, W)
      <3>1. b \in Seq(L) /\ b # <<>>
            BY Zenon
      <3>2. \A x \in L : x.args \in A
            BY Zenon DEF Lines
      <3> HIDE DEF L
      <3>3. b[1] \in L
            BY <3>1
      <3> QED
            BY <3>2, <3>3, Zenon
    <2> DEFINE c == b[1].args
    <2> HIDE DEF c
    <2>2. c \in Seq(W)
          BY <2>1, Zenon DEF c
    <2>3. Len(c) \in Nat
          BY <2>2
    <2> QED
          BY <2>3, Zenon DEF c
  <1> HIDE DEF u, a, d, B, U, A, red
  <1>9. \A x : ToSet(U(x)) = IF d = x THEN ToSet(B(x)) \cup {a} ELSE ToSet(B(x))
    <2>1. \A x : ToSet(Append(B(x), a)) = ToSet(B(x)) \cup {a}
          BY <1>1, <1>3, SetOfAppend
    <2> QED
          BY <1>3, <2>1, Zenon
  <1>10. (\A x \in ToSet(U("header")) : GoodHeader(x))
           <=> (\A x \in ToSet(B("header")) : GoodHeader(x)) /\ (d = "header" => GoodHeader(a))
        BY <1>9, Zenon
  <1>11. (\A x \in ToSet(U("on_error")) : GoodOnError(x))
           <=> (\A x \in ToSet(B("on_error")) : GoodOnError(x)) /\ (d = "on_error" => GoodOnError(a))
        BY <1>9, Zenon
  <1>12. (\A x \in ToSet(U("subject")) : x # <<>>)
           <=> (\A x \in ToSet(B("subject")) : x # <<>>) /\ (d = "subject" => a # <<>>)
        BY <1>9, Zenon
  <1>13. GoodProviders(U("provider"))
           <=> GoodProviders(B("provider")) /\ (d = "provider" => Final(B("provider")) = <<>>)
    <2>1. GoodProviders(Append(B("provider"), a)) <=> GoodProviders(B("provider")) /\ Final(B("provider")) = <<>>
          BY <1>1, <1>3, ProvidersAppend
    <2> QED
          BY <1>3, <2>1, Zenon
  <1> DEFINE n == Len(b[1].args)
             Room == IF n > 1 THEN {0, 1} ELSE {0}
  <1>14. Len(U(red)) \in Room <=> Len(B(red)) \in Room /\ (d = red => B(red) = <<>> /\ ~(n < 2))
    <2> DEFINE x == B(red)
               y == U(red)
    <2>1. n \in Nat /\ x \in Seq(A) /\ y = IF d = red THEN Append(x, a) ELSE x
          BY <1>3, <1>8, Zenon
    <2> HIDE DEF n, x, y
    <2>2. Len(x) \in Nat /\ (x = <<>> <=> Len(x) = 0) /\ Len(Append(x, a)) = Len(x) + 1
          BY <1>1, <2>1
    <2>3. CASE d = red
      <3>1. Len(y) = Len(x) + 1
            BY <2>1, <2>2, <2>3, Zenon
      <3>2. Len(y) \in Room <=> Len(x) \in Room /\ (x = <<>> /\ ~(n < 2))
            BY <2>1, <2>2, <3>1
      <3> QED
            BY <2>3, <3>2, Zenon DEF x, y
    <2>4. CASE d # red
          BY <2>1, <2>4, Zenon DEF x, y
    <2> QED
          BY <2>3, <2>4, Zenon
  <1> HIDE DEF Room
  <1>15. GoodLines(u) <=> GoodLines(b) /\ Fits(RouteOf(b), l)
    <2>1. GoodLines(u) <=> /\ b[1].args # <<>>
                           /\ \A x \in ToSet(U("header"))   : GoodHeader(x)
                           /\ \A x \in ToSet(U("on_error")) : GoodOnError(x)
                           /\ \A x \in ToSet(U("subject"))  : x # <<>>
                           /\ GoodProviders(U("provider"))
                           /\ Len(U(red)) \in Room
          BY <1>2, <1>5, Zenon DEF Room
    <2>2. GoodLines(b) <=> /\ b[1].args # <<>>
                           /\ \A x \in ToSet(B("header"))   : GoodHeader(x)
                           /\ \A x \in ToSet(B("on_error")) : GoodOnError(x)
                           /\ \A x \in ToSet(B("subject"))  : x # <<>>
                           /\ GoodProviders(B("provider"))
                           /\ Len(B(red)) \in Room
          BY <1>6, Zenon DEF Room
    <2> QED
          BY <1>7, <1>10, <1>11, <1>12, <1>13, <1>14, <2>1, <2>2, Zenon
  <1> QED
        BY <1>15, Zenon DEF u, StaysGood

-----------------------------------------------------------------------------

\* What the fields of a route are, and what changing one of them gives.
RouteFields(r, d, u, h, e, p, b, s) ==
  /\ r = RouteRec(d, u, h, e, p, b, s)
  /\ r.domains = d /\ r.upstreams = u /\ r.headers = h /\ r.errors = e
  /\ r.provider = p /\ r.redirect = b /\ r.subject = s
  /\ \A x : /\ [r EXCEPT !.upstreams = x] = RouteRec(d, x, h, e, p, b, s)
            /\ [r EXCEPT !.headers = x] = RouteRec(d, u, x, e, p, b, s)
            /\ [r EXCEPT !.errors = x] = RouteRec(d, u, h, x, p, b, s)
            /\ [r EXCEPT !.provider = x] = RouteRec(d, u, h, e, x, b, s)
            /\ [r EXCEPT !.redirect = x] = RouteRec(d, u, h, e, p, x, s)
            /\ [r EXCEPT !.subject = x] = RouteRec(d, u, h, e, p, b, x)

(***************************************************************************)
(* The only record with given parts.                                       *)
(***************************************************************************)
OnlyRoute(d, u, h, e, p, b, s) ==
  [domains : {d}, upstreams : {u}, headers : {h}, errors : {e}, provider : {p}, redirect : {b}, subject : {s}]

(***************************************************************************)
(* There is one route with given fields.                                   *)
(***************************************************************************)
LEMMA OneRoute ==
  ASSUME NEW d, NEW u, NEW h, NEW e, NEW p, NEW b, NEW s
  PROVE  /\ RouteRec(d, u, h, e, p, b, s) \in OnlyRoute(d, u, h, e, p, b, s)
         /\ \A r \in OnlyRoute(d, u, h, e, p, b, s) : r = RouteRec(d, u, h, e, p, b, s)
  BY DEF RouteRec, OnlyRoute

(***************************************************************************)
(* A route has its fields, and changing one leaves the others.             *)
(***************************************************************************)
LEMMA RouteRecFields ==
  ASSUME NEW d, NEW u, NEW h, NEW e, NEW p, NEW b, NEW s
  PROVE  RouteFields(RouteRec(d, u, h, e, p, b, s), d, u, h, e, p, b, s)
  <1> DEFINE r == RouteRec(d, u, h, e, p, b, s)
  <1>1. r.domains = d /\ r.upstreams = u /\ r.headers = h /\ r.errors = e
        /\ r.provider = p /\ r.redirect = b /\ r.subject = s
        BY DEF RouteRec
  <1>2. r \in OnlyRoute(d, u, h, e, p, b, s)
        BY OneRoute, Zenon
  <1>3. ASSUME NEW x
        PROVE  /\ [r EXCEPT !.upstreams = x] = RouteRec(d, x, h, e, p, b, s)
               /\ [r EXCEPT !.headers = x] = RouteRec(d, u, x, e, p, b, s)
               /\ [r EXCEPT !.errors = x] = RouteRec(d, u, h, x, p, b, s)
               /\ [r EXCEPT !.provider = x] = RouteRec(d, u, h, e, x, b, s)
               /\ [r EXCEPT !.redirect = x] = RouteRec(d, u, h, e, p, x, s)
               /\ [r EXCEPT !.subject = x] = RouteRec(d, u, h, e, p, b, x)
    <2> HIDE DEF r
    <2>1. [r EXCEPT !.upstreams = x] \in OnlyRoute(d, x, h, e, p, b, s)
          BY <1>2, Zenon DEF OnlyRoute
    <2>2. [r EXCEPT !.headers = x] \in OnlyRoute(d, u, x, e, p, b, s)
          BY <1>2, Zenon DEF OnlyRoute
    <2>3. [r EXCEPT !.errors = x] \in OnlyRoute(d, u, h, x, p, b, s)
          BY <1>2, Zenon DEF OnlyRoute
    <2>4. [r EXCEPT !.provider = x] \in OnlyRoute(d, u, h, e, x, b, s)
          BY <1>2, Zenon DEF OnlyRoute
    <2>5. [r EXCEPT !.redirect = x] \in OnlyRoute(d, u, h, e, p, x, s)
          BY <1>2, Zenon DEF OnlyRoute
    <2>6. [r EXCEPT !.subject = x] \in OnlyRoute(d, u, h, e, p, b, x)
          BY <1>2, Zenon DEF OnlyRoute
    <2> QED
          BY <2>1, <2>2, <2>3, <2>4, <2>5, <2>6, OneRoute, Zenon
  <1> HIDE DEF r
  <1> QED
        BY <1>1, <1>3, Zenon DEF RouteFields, r

\* A state of the parser, by its fields.
StateRec(rs, c, f, e) == [routes |-> rs, current |-> c, fallback |-> f, error |-> e]

\* The set of the one state with these fields.
OnlyState(rs, c, f, e) == [routes : {rs}, current : {c}, fallback : {f}, error : {e}]

\* The state after an error.
Refused == StateRec(<<>>, <<>>, 0, TRUE)

(***************************************************************************)
(* There is one state with given fields.                                   *)
(***************************************************************************)
LEMMA OneState ==
  ASSUME NEW rs, NEW c, NEW f, NEW e
  PROVE  /\ StateRec(rs, c, f, e) \in OnlyState(rs, c, f, e)
         /\ \A st \in OnlyState(rs, c, f, e) : st = StateRec(rs, c, f, e)
  BY DEF StateRec, OnlyState

(***************************************************************************)
(* The initial state and the one after an error.                           *)
(***************************************************************************)
LEMMA ErrorIs == Initial = StateRec(<<>>, <<>>, 0, FALSE) /\ \A st : Error(st) = Refused
  <1> DEFINE i == Initial
             n == <<>>
  <1>1. i = StateRec(n, n, 0, FALSE)
        BY Zenon DEF Initial, StateRec
  <1> HIDE DEF i, n
  <1>2. i \in OnlyState(n, n, 0, FALSE)
        BY <1>1, OneState, Zenon
  <1>3. [i EXCEPT !.error = TRUE] \in OnlyState(n, n, 0, TRUE)
        BY <1>2, Zenon DEF OnlyState
  <1>4. [i EXCEPT !.error = TRUE] = StateRec(n, n, 0, TRUE)
        BY <1>3, OneState, Zenon
  <1> QED
        BY <1>1, <1>4, Zenon DEF Error, Refused, i, n

\* What the fields of a state are, and what changing one of them gives.
StateFields(st, rs, c, f, e) ==
  /\ st.routes = rs /\ st.current = c /\ st.fallback = f /\ st.error = e
  /\ Error(st) = Refused
  /\ \A r : Change(st, r) = StateRec(rs, <<r>>, f, e)
  /\ \A g : [st EXCEPT !.fallback = g] = StateRec(rs, c, g, e)
  /\ \A t, d : [st EXCEPT !.routes = t, !.current = d] = StateRec(t, d, f, e)

(***************************************************************************)
(* A state has its fields, and changing one leaves the others.             *)
(***************************************************************************)
LEMMA StateIs ==
  ASSUME NEW rs, NEW c, NEW f, NEW e
  PROVE  StateFields(StateRec(rs, c, f, e), rs, c, f, e)
  <1> DEFINE st == StateRec(rs, c, f, e)
  <1>1. st.routes = rs /\ st.current = c /\ st.fallback = f /\ st.error = e
        BY DEF StateRec
  <1>2. st \in OnlyState(rs, c, f, e)
        BY OneState, Zenon
  <1> HIDE DEF st
  <1>3. ASSUME NEW x
        PROVE  /\ [st EXCEPT !.current = x] = StateRec(rs, x, f, e)
               /\ [st EXCEPT !.fallback = x] = StateRec(rs, c, x, e)
    <2>1. [st EXCEPT !.current = x] \in OnlyState(rs, x, f, e)
          BY <1>2, Zenon DEF OnlyState
    <2>2. [st EXCEPT !.fallback = x] \in OnlyState(rs, c, x, e)
          BY <1>2, Zenon DEF OnlyState
    <2> QED
          BY <2>1, <2>2, OneState, Zenon
  <1>4. ASSUME NEW x, NEW y PROVE [st EXCEPT !.routes = x, !.current = y] = StateRec(x, y, f, e)
    <2>1. [st EXCEPT !.routes = x, !.current = y] \in OnlyState(x, y, f, e)
          BY <1>2, Zenon DEF OnlyState
    <2> QED
          BY <2>1, OneState, Zenon
  <1>5. \A r : Change(st, r) = StateRec(rs, <<r>>, f, e)
        BY <1>3, Zenon DEF Change
  <1> QED
        BY <1>1, <1>3, <1>4, <1>5, ErrorIs, Zenon DEF StateFields, st

\* The route of a block as a record of its parts.
LEMMA RouteParts ==
  ASSUME NEW b
  PROVE  \E d, u, h, e, p, s : \E x \in BOOLEAN : RouteFields(RouteOf(b), d, u, h, e, p, x, s)
  <1> DEFINE d == b[1].args
             u == ArgsOf(b, "upstream")
             h == ParsedRules(ArgsOf(b, "header"))
             e == Mappings(ArgsOf(b, "on_error"))
             p == Final(ArgsOf(b, "provider"))
             x == (ArgsOf(b, "redirect-to-primary") # <<>>)
             s == Flatten(ArgsOf(b, "subject"))
  <1>1. RouteOf(b) = RouteRec(d, u, h, e, p, x, s) /\ x \in BOOLEAN
        BY RouteOfIs, Zenon
  <1> HIDE DEF d, u, h, e, p, x, s
  <1>2. RouteFields(RouteRec(d, u, h, e, p, x, s), d, u, h, e, p, x, s)
        BY RouteRecFields, Zenon
  <1> QED
        BY <1>1, <1>2, Zenon

(***************************************************************************)
(* What parseHeader and parseOnError accept.                               *)
(***************************************************************************)
LEMMA HeaderAccepted ==
  ASSUME NEW W, NEW args \in Seq(W)
  PROVE  GoodHeader(args) <=> \/ Len(args) = 2 /\ args[1] = "delete"
                              \/ Len(args) >= 3 /\ args[1] \in {"add", "replace", "default"}
  <1>1. Len(args) \in Nat /\ (args = <<>> <=> Len(args) = 0)
        OBVIOUS
  <1> DEFINE n == Len(args)
             x == args[1]
  <1>2. GoodHeader(args) <=> /\ n # 0 /\ x \in {"add", "replace", "default", "delete"}
                             /\ IF x = "delete" THEN n = 2 ELSE n > 2
        BY <1>1, Zenon DEF GoodHeader
  <1> HIDE DEF n, x
  <1>3. n # 0 /\ n > 2 <=> n >= 3
        BY <1>1 DEF n
  <1>4. n = 2 => n # 0
        OBVIOUS
  <1>5. x = "delete" => ~(x \in {"add", "replace", "default"})
        BY Zenon
  <1> QED
        BY <1>2, <1>3, <1>4, <1>5, Zenon DEF n, x

(***************************************************************************)
(* A directive within a route: it is refused, sets the fallback or extends *)
(* the block.                                                              *)
(***************************************************************************)
DirectiveGives(b, l, rs, f, st) ==
  /\ l.directive \notin Known => Directive(st, RouteOf(b), l) = Refused
  /\ l.directive \in Known \ {"fallback"} =>
       Directive(st, RouteOf(b), l) =
         IF Fits(RouteOf(b), l) THEN StateRec(rs, <<RouteOf(Append(b, l))>>, f, FALSE) ELSE Refused
  /\ l.directive = "fallback" =>
       /\ Fits(RouteOf(b), l) /\ RouteOf(Append(b, l)) = RouteOf(b)
       /\ Directive(st, RouteOf(b), l) =
            IF f # 0 THEN Refused ELSE StateRec(rs, <<RouteOf(b)>>, Len(rs) + 1, FALSE)

(***************************************************************************)
(* A line in a route either fits and changes the current route and the     *)
(* fallback, or is an error.                                               *)
(***************************************************************************)
LEMMA DirectiveIs ==
  ASSUME NEW D, NEW W, NEW b \in Seq(Lines(D, W)) \ {<<>>}, NEW l \in Lines(D, W),
         l.directive \notin {"route", "#", ""},
         NEW rs, NEW f, NEW st, st = StateRec(rs, <<RouteOf(b)>>, f, FALSE)
  PROVE  DirectiveGives(b, l, rs, f, st)
  <1> SUFFICES /\ l.directive \notin Known => Directive(st, RouteOf(b), l) = Refused
               /\ l.directive \in Known \ {"fallback"} =>
                    Directive(st, RouteOf(b), l) =
                      IF Fits(RouteOf(b), l) THEN StateRec(rs, <<RouteOf(Append(b, l))>>, f, FALSE) ELSE Refused
               /\ l.directive = "fallback" =>
                    /\ Fits(RouteOf(b), l) /\ RouteOf(Append(b, l)) = RouteOf(b)
                    /\ Directive(st, RouteOf(b), l) =
                         IF f # 0 THEN Refused ELSE StateRec(rs, <<RouteOf(b)>>, Len(rs) + 1, FALSE)
      BY Zenon DEF DirectiveGives
  <1> DEFINE r == RouteOf(b)
             v == RouteOf(Append(b, l))
             k == l.directive
             a == l.args
             With(x) == StateRec(rs, <<x>>, f, FALSE)
  <1>1. v = WithLine(r, l)
    <2>1. RouteGrows(b, l)
          BY RouteAppend, Zenon
    <2> QED
          BY <2>1, Zenon DEF RouteGrows
  <1>2. PICK d, u, h, e, p, s : \E x \in BOOLEAN : RouteFields(r, d, u, h, e, p, x, s)
        BY RouteParts, Zenon
  <1>3. PICK x \in BOOLEAN : RouteFields(r, d, u, h, e, p, x, s)
        BY <1>2, Zenon
  <1>4. /\ st.fallback = f /\ st.routes = rs
        /\ Error(st) = Refused
        /\ \A y : Change(st, y) = With(y)
        /\ \A g : [st EXCEPT !.fallback = g] = StateRec(rs, <<r>>, g, FALSE)
    <2>1. StateFields(st, rs, <<r>>, f, FALSE)
          BY StateIs, Zenon
    <2> QED
          BY <2>1, Zenon DEF StateFields
  <1>5. v = RouteRec(d, IF k = "upstream" THEN Append(u, a) ELSE u,
                        IF k = "header" THEN Append(h, Rule(a)) ELSE h,
                        IF k = "on_error" THEN Append(e, Mapping(a)) ELSE e,
                        IF k = "provider" THEN a ELSE p,
                        x \/ k = "redirect-to-primary",
                        IF k = "subject" THEN s \o a ELSE s)
        BY <1>1, <1>3, Zenon DEF WithLine, RouteFields
  <1>6. Fits(r, l) <=> /\ k = "header"   => GoodHeader(a)
                       /\ k = "on_error" => GoodOnError(a)
                       /\ k = "subject"  => a # <<>>
                       /\ k = "provider" => p = <<>>
                       /\ k = "redirect-to-primary" => ~x /\ ~(Len(d) < 2)
        BY <1>3, Zenon DEF Fits, RouteFields
  <1>7. a \in Seq(W)
        BY Zenon DEF Lines
  <1> HIDE DEF r, v
  <1>8. CASE k = "upstream"
    <2>1. Directive(st, r, l) = With([r EXCEPT !.upstreams = Append(@, a)])
          BY <1>4, <1>8, Zenon DEF Directive
    <2>2. v = RouteRec(d, Append(u, a), h, e, p, x, s)
          BY <1>5, <1>8, Zenon
    <2>3. [r EXCEPT !.upstreams = Append(@, a)] = v
          BY <1>3, <2>2, Zenon DEF RouteFields
    <2>4. Fits(r, l)
          BY <1>6, <1>8, Zenon
    <2> QED
          BY <1>8, <2>1, <2>3, <2>4, Zenon DEF Known, r, v
  <1>9. CASE k = "header"
    <2>1. Directive(st, r, l) = ParseHeader(st, r, a)
          BY <1>9, Zenon DEF Directive
    <2>2. v = RouteRec(d, u, Append(h, Rule(a)), e, p, x, s)
          BY <1>5, <1>9, Zenon
    <2>3. [r EXCEPT !.headers = Append(@, Rule(a))] = v
          BY <1>3, <2>2, Zenon DEF RouteFields
    <2>4. Fits(r, l) <=> GoodHeader(a)
          BY <1>6, <1>9, Zenon
    <2>5. ParseHeader(st, r, a) = IF GoodHeader(a) THEN With([r EXCEPT !.headers = Append(@, Rule(a))]) ELSE Refused
          BY <1>4, <1>7, HeaderAccepted, Zenon DEF ParseHeader, Rule
    <2> QED
          BY <1>9, <2>1, <2>3, <2>4, <2>5, Zenon DEF Known, r, v
  <1>10. CASE k = "on_error"
    <2>1. Directive(st, r, l) = ParseOnError(st, r, a)
          BY <1>10, Zenon DEF Directive
    <2>2. v = RouteRec(d, u, h, Append(e, Mapping(a)), p, x, s)
          BY <1>5, <1>10, Zenon
    <2>3. [r EXCEPT !.errors = Append(@, Mapping(a))] = v
          BY <1>3, <2>2, Zenon DEF RouteFields
    <2>4. Fits(r, l) <=> GoodOnError(a)
          BY <1>6, <1>10, Zenon
    <2>5. ParseOnError(st, r, a) = IF GoodOnError(a) THEN With([r EXCEPT !.errors = Append(@, Mapping(a))]) ELSE Refused
          BY <1>4, Zenon DEF ParseOnError, GoodOnError, Mapping
    <2> QED
          BY <1>10, <2>1, <2>3, <2>4, <2>5, Zenon DEF Known, r, v
  <1>11. CASE k = "provider"
    <2>1. Directive(st, r, l) = IF p # <<>> THEN Refused ELSE With([r EXCEPT !.provider = a])
          BY <1>3, <1>4, <1>11, Zenon DEF Directive, RouteFields
    <2>2. v = RouteRec(d, u, h, e, a, x, s)
          BY <1>5, <1>11, Zenon
    <2>3. [r EXCEPT !.provider = a] = v
          BY <1>3, <2>2, Zenon DEF RouteFields
    <2>4. Fits(r, l) <=> p = <<>>
          BY <1>6, <1>11, Zenon
    <2> QED
          BY <1>11, <2>1, <2>3, <2>4, Zenon DEF Known, r, v
  <1>12. CASE k = "redirect-to-primary"
    <2>1. Directive(st, r, l) = IF x \/ Len(d) < 2 THEN Refused ELSE With([r EXCEPT !.redirect = TRUE])
          BY <1>3, <1>4, <1>12, Zenon DEF Directive, RouteFields
    <2>2. v = RouteRec(d, u, h, e, p, TRUE, s)
          BY <1>5, <1>12, Zenon
    <2>3. [r EXCEPT !.redirect = TRUE] = v
          BY <1>3, <2>2, Zenon DEF RouteFields
    <2>4. Fits(r, l) <=> ~x /\ ~(Len(d) < 2)
          BY <1>6, <1>12, Zenon
    <2> QED
          BY <1>12, <2>1, <2>3, <2>4, Zenon DEF Known, r, v
  <1>13. CASE k = "subject"
    <2>1. Directive(st, r, l) = IF a = <<>> THEN Refused ELSE With([r EXCEPT !.subject = @ \o a])
          BY <1>4, <1>13, Zenon DEF Directive
    <2>2. v = RouteRec(d, u, h, e, p, x, s \o a)
          BY <1>5, <1>13, Zenon
    <2>3. [r EXCEPT !.subject = @ \o a] = v
          BY <1>3, <2>2, Zenon DEF RouteFields
    <2>4. Fits(r, l) <=> a # <<>>
          BY <1>6, <1>13, Zenon
    <2> QED
          BY <1>13, <2>1, <2>3, <2>4, Zenon DEF Known, r, v
  <1>14. CASE k = "fallback"
    <2>1. Directive(st, r, l) = IF f # 0 THEN Refused ELSE StateRec(rs, <<r>>, Len(rs) + 1, FALSE)
          BY <1>4, <1>14, Zenon DEF Directive, SetFallback
    <2>2. v = RouteRec(d, u, h, e, p, x, s)
          BY <1>5, <1>14, Zenon
    <2>3. Fits(r, l)
          BY <1>6, <1>14, Zenon
    <2> QED
          BY <1>3, <1>14, <2>1, <2>2, <2>3, Zenon DEF Known, r, v, RouteFields
  <1>15. CASE k \notin Known
    <2>1. Directive(st, r, l) = Refused
          BY <1>4, <1>15, Zenon DEF Directive, Known
    <2> QED
          BY <1>15, <2>1, Zenon DEF Known, r
  <1> QED
      BY <1>8, <1>9, <1>10, <1>11, <1>12, <1>13, <1>14, <1>15, Zenon DEF Known

-----------------------------------------------------------------------------

(***************************************************************************)
(* A new last line is in its place if its directive is known and a route   *)
(* line came before it or none is needed.                                  *)
(***************************************************************************)
LEMMA PlacedAppend ==
  ASSUME NEW L, NEW f \in Seq(L), NEW l \in L
  PROVE  (\A i \in DOMAIN Append(f, l) : Placed(Append(f, l), i))
           <=> /\ \A i \in DOMAIN f : Placed(f, i)
               /\ l.directive \in Known
               /\ l.directive \in {"#", ""} \/ IsHead(l) \/ Heads(f) # {}
  <1> DEFINE n == Len(f)
             u == Append(f, l)
  <1>1. n \in Nat /\ DOMAIN f = 1..n /\ DOMAIN u = 1..(n + 1) /\ u[n + 1] = l /\ \A i \in 1..n : u[i] = f[i]
        OBVIOUS
  <1>2. Heads(f) \in SUBSET (1..n) /\ Heads(u) = IF IsHead(l) THEN Heads(f) \cup {n + 1} ELSE Heads(f)
        BY HeadsAppend
  <1> HIDE DEF n, u
  <1>3. ASSUME NEW i \in 1..n PROVE Placed(u, i) <=> Placed(f, i)
    <2>1. ~(n + 1 <= i)
          BY <1>1
    <2>2. (\E h \in Heads(u) : h <= i) <=> (\E h \in Heads(f) : h <= i)
          BY <1>2, <2>1, Zenon
    <2> QED
          BY <1>1, <2>2, Zenon DEF Placed
  <1>4. (\E h \in Heads(u) : h <= n + 1) <=> IsHead(l) \/ Heads(f) # {}
    <2>1. n + 1 <= n + 1 /\ \A h \in Heads(f) : h <= n + 1
          BY <1>1, <1>2
    <2> QED
          BY <1>2, <2>1, Zenon
  <1>5. Placed(u, n + 1) <=> /\ l.directive \in Known
                             /\ l.directive \in {"#", ""} \/ IsHead(l) \/ Heads(f) # {}
        BY <1>1, <1>4, Zenon DEF Placed
  <1>6. 1..(n + 1) = (1..n) \cup {n + 1}
        BY <1>1
  <1>7. (\A i \in 1..(n + 1) : Placed(u, i)) <=> (\A i \in 1..n : Placed(f, i)) /\ Placed(u, n + 1)
        BY <1>3, <1>6, Zenon
  <1> QED
        BY <1>1, <1>5, <1>7, Zenon DEF u

-----------------------------------------------------------------------------
(***************************************************************************)
(* A block of one line is a new route.                                     *)
(***************************************************************************)
OneLine(l) ==
  /\ GoodLines(<<l>>) <=> l.args # <<>>
  /\ RouteOf(<<l>>) = NewRoute(l.args)
  /\ ArgsOf(<<l>>, "fallback") = <<>>

(***************************************************************************)
(* A route line by itself is a good block with an empty route when it has  *)
(* domains.                                                                *)
(***************************************************************************)
LEMMA OneLineBlock ==
  ASSUME NEW D, NEW W, NEW l \in Lines(D, W), IsHead(l)
  PROVE  OneLine(l)
  <1> DEFINE L == Lines(D, W)
             Others == Known \ {"route"}
             x == <<l>>
  <1>1. x = Append(<<>>, l) /\ <<>> \in Seq(L) /\ x[1] = l
    <2> HIDE DEF L
    <2> QED
        OBVIOUS
  <1>2. \A d \in Others : l.directive # d
        BY Zenon DEF IsHead
  <1>3. ASSUME NEW d PROVE l.directive # d => ArgsOf(x, d) = ArgsOf(<<>>, d)
    <2> DEFINE e == <<>>
    <2>1. e \in Seq(Lines(D, W)) /\ x = Append(e, l)
          BY <1>1, Zenon
    <2> HIDE DEF e, x
    <2>2. ArgsOf(Append(e, l), d) = IF l.directive = d THEN Append(ArgsOf(e, d), l.args) ELSE ArgsOf(e, d)
          BY <2>1, ArgsAppend
    <2>3. l.directive # d => ArgsOf(x, d) = ArgsOf(e, d)
          BY <2>1, <2>2, Zenon
    <2> QED
          BY <2>3, Zenon DEF e
  <1>4. \A d \in Others : ArgsOf(x, d) = <<>>
        BY <1>2, <1>3, ArgsEmpty, Zenon
  <1> HIDE DEF x
  <1>5. /\ ArgsOf(x, "upstream") = <<>> /\ ArgsOf(x, "header") = <<>> /\ ArgsOf(x, "on_error") = <<>>
        /\ ArgsOf(x, "provider") = <<>> /\ ArgsOf(x, "redirect-to-primary") = <<>>
        /\ ArgsOf(x, "subject") = <<>> /\ ArgsOf(x, "fallback") = <<>>
        BY <1>4, Zenon DEF Known
  <1>6. /\ ParsedRules(<<>>) = <<>> /\ Mappings(<<>>) = <<>> /\ Final(<<>>) = <<>> /\ Flatten(<<>>) = <<>>
    <2>1. DOMAIN <<>> = {}
          OBVIOUS
    <2>2. ParsedRules(<<>>) = <<>>
      <3>1. [i \in {} |-> Rule(<<>>[i])] = <<>>
            OBVIOUS
      <3> QED
            BY <2>1, <3>1, Zenon DEF ParsedRules
    <2>3. Mappings(<<>>) = <<>>
      <3>1. [i \in {} |-> Mapping(<<>>[i])] = <<>>
            OBVIOUS
      <3> QED
            BY <2>1, <3>1, Zenon DEF Mappings
    <2> QED
          BY <2>2, <2>3, FlattenEmpty, Zenon DEF Final
  <1>7. RouteOf(x) = RouteRec(x[1].args, ArgsOf(x, "upstream"), ParsedRules(ArgsOf(x, "header")),
                              Mappings(ArgsOf(x, "on_error")), Final(ArgsOf(x, "provider")),
                              ArgsOf(x, "redirect-to-primary") # <<>>, Flatten(ArgsOf(x, "subject")))
        BY RouteOfIs, Zenon
  <1>8. RouteOf(x) = RouteRec(l.args, <<>>, <<>>, <<>>, <<>>, FALSE, <<>>)
    <2>1. (ArgsOf(x, "redirect-to-primary") # <<>>) = FALSE
          BY <1>5, Zenon
    <2> QED
          BY <1>1, <1>5, <1>6, <1>7, <2>1, Zenon
  <1>9. RouteOf(x) = NewRoute(l.args)
        BY <1>8, Zenon DEF RouteRec, NewRoute
  <1>10. GoodLines(x) <=> l.args # <<>>
    <2>1. ToSet(<<>>) = {} /\ GoodProviders(<<>>)
      <3>1. DOMAIN <<>> = {}
            OBVIOUS
      <3> QED
            BY <3>1, Zenon DEF ToSet, GoodProviders
    <2>2. Len(<<>>) = 0
          OBVIOUS
    <2>3. \A c : Len(<<>>) \in (IF c THEN {0, 1} ELSE {0})
          BY <2>2
    <2> QED
          BY <1>1, <1>5, <2>1, <2>3, Zenon DEF GoodLines
  <1> QED
        BY <1>5, <1>9, <1>10, Zenon DEF OneLine, x

-----------------------------------------------------------------------------
(***************************************************************************)
(* Blocks that the pass accepts: all but the last are complete.            *)
(***************************************************************************)
Complete(b) == ArgsOf(b, "upstream") # <<>>

\* The blocks are good, and all but the last are complete.
Allowed(bs) == \A j \in DOMAIN bs : GoodLines(bs[j]) /\ (j # Len(bs) => Complete(bs[j]))

\* The blocks that have a fallback line.
WithFallback(bs) == {j \in DOMAIN bs : ArgsOf(bs[j], "fallback") # <<>>}

(***************************************************************************)
(* There is no fallback when no block has a fallback line.                 *)
(***************************************************************************)
LEMMA FallbackIs ==
  ASSUME NEW B, NEW bs \in Seq(B)
  PROVE  FallbackAt(bs) = 0 <=> WithFallback(bs) = {}
  <1> DEFINE F == WithFallback(bs)
  <1>1. FallbackAt(bs) = IF F = {} THEN 0 ELSE Min(F)
        BY Zenon DEF FallbackAt, WithFallback
  <1>2. F \in SUBSET (1..Len(bs))
        BY DEF WithFallback
  <1> HIDE DEF F
  <1>3. F \in SUBSET Nat /\ \A j \in F : j # 0
        BY <1>2
  <1>4. F # {} => Min(F) \in F
        BY <1>3, MinIs, Zenon
  <1> QED
        BY <1>1, <1>3, <1>4, Zenon DEF F

\* The state of the pass after a f with these blocks.
Parsed(bs) ==
  StateRec([j \in 1..(Len(bs) - 1) |-> RouteOf(bs[j])],
           IF bs = <<>> THEN <<>> ELSE <<RouteOf(bs[Len(bs)])>>, FallbackAt(bs), FALSE)

\* What changes when the line l starts a block.
BlockStarts(bs, cs, l) ==
  /\ Allowed(cs) <=> Allowed(bs) /\ (bs # <<>> => Complete(bs[Len(bs)])) /\ l.args # <<>>
  /\ WithFallback(cs) = WithFallback(bs)
  /\ Parsed(cs) = StateRec([j \in 1..Len(bs) |-> RouteOf(bs[j])], <<NewRoute(l.args)>>, FallbackAt(bs), FALSE)

(***************************************************************************)
(* A route line starts a block, when the last one is complete.             *)
(***************************************************************************)
LEMMA StartBlock ==
  ASSUME NEW D, NEW W, NEW bs \in Seq(Seq(Lines(D, W)) \ {<<>>}), NEW l \in Lines(D, W), IsHead(l),
         NEW cs, cs = Append(bs, <<l>>)
  PROVE  BlockStarts(bs, cs, l)
  <1> DEFINE B == Seq(Lines(D, W)) \ {<<>>}
             m == Len(bs)
             x == <<l>>
  <1>1. x \in B
    <2> DEFINE L == Lines(D, W)
    <2>1. l \in L
          BY Zenon
    <2> HIDE DEF L
    <2>2. <<l>> \in Seq(L) \ {<<>>}
          BY <2>1
    <2> QED
          BY <2>2, Zenon DEF L
  <1>2. OneLine(l)
        BY OneLineBlock, Zenon
  <1>3. /\ m \in Nat /\ DOMAIN bs = 1..m /\ DOMAIN cs = 1..(m + 1) /\ Len(cs) = m + 1 /\ cs[m + 1] = x
        /\ (bs = <<>> <=> m = 0) /\ cs # <<>> /\ \A j \in 1..m : cs[j] = bs[j]
    <2>1. bs \in Seq(B)
          BY Zenon
    <2> HIDE DEF B, x
    <2> QED
          BY <1>1, <2>1, SeqParts, AppendParts DEF x
  <1>4. 1..(m + 1) = (1..m) \cup {m + 1} /\ m + 1 - 1 = m /\ m + 1 \notin 1..m
        BY <1>3
  <1>5. Allowed(cs) <=> Allowed(bs) /\ (bs # <<>> => Complete(bs[m])) /\ l.args # <<>>
    <2>1. Allowed(cs) <=> (\A j \in 1..m : GoodLines(bs[j]) /\ Complete(bs[j])) /\ GoodLines(x)
          BY <1>3, <1>4, Zenon DEF Allowed
    <2>2. Allowed(bs) <=> (\A j \in 1..m : GoodLines(bs[j]) /\ (j # m => Complete(bs[j])))
          BY <1>3, Zenon DEF Allowed
    <2>3. bs # <<>> => m \in 1..m
          BY <1>3
    <2>4. bs = <<>> => 1..m = {}
          BY <1>3
    <2>5. (\A j \in 1..m : Complete(bs[j]))
            <=> (\A j \in 1..m : j # m => Complete(bs[j])) /\ (bs # <<>> => Complete(bs[m]))
          BY <2>3, <2>4, Zenon
    <2> QED
          BY <1>2, <2>1, <2>2, <2>5, Zenon DEF OneLine
  <1>6. WithFallback(cs) = WithFallback(bs)
    <2>1. WithFallback(cs) = {j \in 1..m : ArgsOf(cs[j], "fallback") # <<>>}
                               \cup {j \in {m + 1} : ArgsOf(cs[j], "fallback") # <<>>}
          BY <1>3, <1>4, Zenon DEF WithFallback
    <2>2. {j \in {m + 1} : ArgsOf(cs[j], "fallback") # <<>>} = {}
          BY <1>2, <1>3, Zenon DEF OneLine
    <2>3. WithFallback(bs) = {j \in 1..m : ArgsOf(cs[j], "fallback") # <<>>}
          BY <1>3, Zenon DEF WithFallback
    <2> QED
          BY <2>1, <2>2, <2>3, Zenon
  <1>7. FallbackAt(cs) = FallbackAt(bs)
        BY <1>6, Zenon DEF FallbackAt, WithFallback
  <1>8. [j \in 1..(Len(cs) - 1) |-> RouteOf(cs[j])] = [j \in 1..m |-> RouteOf(bs[j])]
    <2>1. Len(cs) - 1 = m
          BY <1>3
    <2>2. \A j \in 1..m : RouteOf(cs[j]) = RouteOf(bs[j])
          BY <1>3, Zenon
    <2>3. [j \in 1..m |-> RouteOf(cs[j])] = [j \in 1..m |-> RouteOf(bs[j])]
          BY <2>2, Zenon
    <2> QED
          BY <2>1, <2>3, Zenon
  <1>9. RouteOf(cs[Len(cs)]) = NewRoute(l.args)
        BY <1>2, <1>3, Zenon DEF OneLine
  <1> QED
        BY <1>3, <1>5, <1>6, <1>7, <1>8, <1>9, Zenon DEF Parsed, BlockStarts

-----------------------------------------------------------------------------

\* The routes of the blocks.
BlockRoutes(bs) == [j \in DOMAIN bs |-> RouteOf(bs[j])]

\* What changes when the line l extends the last block, the m-th one.
BlockExtends(bs, cs, l, m) ==
  /\ Allowed(cs) <=> Allowed(bs) /\ Fits(RouteOf(bs[m]), l)
  /\ cs # <<>>
  /\ WithFallback(cs) = IF l.directive = "fallback" THEN WithFallback(bs) \cup {m} ELSE WithFallback(bs)
  /\ Parsed(cs) = StateRec([j \in 1..(m - 1) |-> RouteOf(bs[j])], <<RouteOf(Append(bs[m], l))>>,
                           FallbackAt(cs), FALSE)

(***************************************************************************)
(* A line that starts no block extends the last one.                       *)
(***************************************************************************)
LEMMA ExtendBlock ==
  ASSUME NEW D, NEW W, NEW bs \in Seq(Seq(Lines(D, W)) \ {<<>>}) \ {<<>>}, NEW l \in Lines(D, W),
         NEW cs, cs = Extend(bs, l), NEW m, m = Len(bs)
  PROVE  BlockExtends(bs, cs, l, m)
  <1> DEFINE B == Seq(Lines(D, W)) \ {<<>>}
             b == bs[m]
             x == Append(b, l)
  <1>1. m \in Nat /\ m \in 1..m /\ DOMAIN bs = 1..m /\ b \in B
    <2>1. bs \in Seq(B) /\ bs # <<>>
          BY Zenon
    <2> HIDE DEF B
    <2> QED
          BY <2>1
  <1>2. b \in Seq(Lines(D, W))
        BY <1>1, Zenon
  <1> HIDE DEF b, x, B
  <1>3. cs = [j \in 1..m |-> IF j = m THEN Append(bs[j], l) ELSE bs[j]]
        BY <1>1, Zenon DEF Extend
  <1>4. DOMAIN cs = 1..m /\ cs[m] = x /\ \A j \in 1..m : j # m => cs[j] = bs[j]
        BY <1>1, <1>3, Zenon DEF x, b
  <1>5. Len(cs) = m
        BY <1>1, <1>4, LenDomain
  <1>6. cs # <<>>
    <2>1. DOMAIN <<>> = {}
          OBVIOUS
    <2> QED
          BY <1>1, <1>4, <2>1, Zenon
  <1>7. StaysGood(b, l)
    <2>1. b \in Seq(Lines(D, W)) \ {<<>>}
          BY <1>1, Zenon DEF B
    <2> QED
          BY <2>1, GoodAppend, Zenon
  <1>8. GoodLines(x) <=> GoodLines(b) /\ Fits(RouteOf(b), l)
        BY <1>7, Zenon DEF StaysGood, x
  <1>9. Allowed(cs) <=> Allowed(bs) /\ Fits(RouteOf(b), l)
    <2>1. Allowed(cs) <=> GoodLines(x) /\ (\A j \in 1..m : j # m => GoodLines(bs[j]) /\ Complete(bs[j]))
          BY <1>1, <1>4, <1>5, Zenon DEF Allowed
    <2>2. Allowed(bs) <=> GoodLines(b) /\ (\A j \in 1..m : j # m => GoodLines(bs[j]) /\ Complete(bs[j]))
          BY <1>1, Zenon DEF Allowed, b
    <2> QED
          BY <1>8, <2>1, <2>2, Zenon
  <1>10. WithFallback(cs) = IF l.directive = "fallback" THEN WithFallback(bs) \cup {m} ELSE WithFallback(bs)
    <2>1. /\ ArgsOf(b, "fallback") \in Seq(Seq(W)) /\ l.args \in Seq(W)
          /\ ArgsOf(x, "fallback") = IF l.directive = "fallback" THEN Append(ArgsOf(b, "fallback"), l.args)
                                     ELSE ArgsOf(b, "fallback")
      <3>1. l.args \in Seq(W)
            BY Zenon DEF Lines
      <3> QED
            BY <1>2, <3>1, ArgsAppend DEF x
    <2>2. ArgsOf(x, "fallback") # <<>> <=> l.directive = "fallback" \/ ArgsOf(b, "fallback") # <<>>
      <3> DEFINE a == ArgsOf(b, "fallback")
                 y == l.args
                 S == Seq(W)
      <3>1. a \in Seq(S) /\ y \in S
            BY <2>1, Zenon
      <3> HIDE DEF a, y, S
      <3>2. Append(a, y) # <<>>
            BY <3>1, AppendNotEmpty, Zenon
      <3> QED
            BY <2>1, <3>2, Zenon DEF a, y
    <2>3. \A j \in 1..m : ArgsOf(cs[j], "fallback") # <<>>
                            <=> (j = m /\ l.directive = "fallback") \/ ArgsOf(bs[j], "fallback") # <<>>
          BY <1>4, <2>2, Zenon DEF b
    <2>4. WithFallback(cs) = {j \in 1..m : ArgsOf(cs[j], "fallback") # <<>>}
          BY <1>4, Zenon DEF WithFallback
    <2>5. WithFallback(bs) = {j \in 1..m : ArgsOf(bs[j], "fallback") # <<>>}
          BY <1>1, Zenon DEF WithFallback
    <2> QED
          BY <1>1, <2>3, <2>4, <2>5, Zenon
  <1>11. [j \in 1..(Len(cs) - 1) |-> RouteOf(cs[j])] = [j \in 1..(m - 1) |-> RouteOf(bs[j])]
    <2>1. \A j \in 1..(m - 1) : j \in 1..m /\ j # m
          BY <1>1
    <2>2. \A j \in 1..(m - 1) : RouteOf(cs[j]) = RouteOf(bs[j])
          BY <1>4, <2>1, Zenon
    <2> QED
          BY <1>5, <2>2, Zenon
  <1> QED
        BY <1>4, <1>5, <1>6, <1>9, <1>10, <1>11, Zenon DEF Parsed, x, b, BlockExtends

(***************************************************************************)
(* The end of the file adds the last route, or is an error if it has no    *)
(* upstream.                                                               *)
(***************************************************************************)
LEMMA FinishIs ==
  ASSUME NEW B, NEW bs \in Seq(B)
  PROVE  Finish(Parsed(bs)) = IF bs # <<>> /\ ~Complete(bs[Len(bs)]) THEN Refused
                              ELSE StateRec(BlockRoutes(bs), <<>>, FallbackAt(bs), FALSE)
  <1> DEFINE m == Len(bs)
             b == bs[m]
             rs == [j \in 1..(m - 1) |-> RouteOf(bs[j])]
             f == FallbackAt(bs)
             st == Parsed(bs)
             r == RouteOf(b)
             t == [j \in 1..m |-> RouteOf(bs[j])]
  <1>1. m \in Nat /\ DOMAIN bs = 1..m /\ (bs = <<>> <=> m = 0)
        OBVIOUS
  <1>2. BlockRoutes(bs) = t
        BY <1>1, Zenon DEF BlockRoutes
  <1>3. CASE bs = <<>>
    <2>1. st = StateRec(rs, <<>>, f, FALSE)
          BY <1>3, Zenon DEF Parsed
    <2>2. 1..(m - 1) = {} /\ 1..m = {}
          BY <1>1, <1>3
    <2>3. rs = t
          BY <2>2, Zenon
    <2> HIDE DEF rs, f, st, t
    <2>4. StateFields(st, rs, <<>>, f, FALSE)
          BY <2>1, StateIs, Zenon
    <2>5. st.current = <<>>
          BY <2>4, Zenon DEF StateFields
    <2>6. Finish(st) = st
          BY <2>5, Zenon DEF Finish
    <2> QED
          BY <1>2, <1>3, <2>1, <2>3, <2>6, Zenon DEF st, f
  <1>4. CASE bs # <<>>
    <2>1. st = StateRec(rs, <<r>>, f, FALSE)
          BY <1>4, Zenon DEF Parsed
    <2>2. rs \o <<r>> = t
      <3> DEFINE g(j) == RouteOf(bs[j])
      <3>1. m \in 1..m /\ m - 1 \in Nat /\ (m - 1) + 1 = m
            BY <1>1, <1>4
      <3>2. rs = [j \in 1..(m - 1) |-> g(j)] /\ t = [j \in 1..m |-> g(j)] /\ r = g(m)
            BY Zenon
      <3> HIDE DEF rs, t, g, r, m
      <3> QED
            BY <3>1, <3>2
    <2>3. r.upstreams = ArgsOf(b, "upstream")
      <3> HIDE DEF b
      <3> QED
            BY DEF RouteOf
    <2> HIDE DEF rs, f, st, t, r
    <2>4. StateFields(st, rs, <<r>>, f, FALSE)
          BY <2>1, StateIs, Zenon
    <2>5. st.routes = rs /\ st.current = <<r>> /\ Error(st) = Refused
          BY <2>4, Zenon DEF StateFields
    <2>6. <<r>> # <<>> /\ <<r>>[1] = r
          OBVIOUS
    <2>7. [st EXCEPT !.routes = st.routes \o st.current, !.current = <<>>] = StateRec(st.routes \o st.current, <<>>, f, FALSE)
          BY <2>4, Zenon DEF StateFields
    <2>8. Finish(st) = IF r.upstreams = <<>> THEN Refused ELSE StateRec(rs \o <<r>>, <<>>, f, FALSE)
          BY <2>5, <2>6, <2>7, Zenon DEF Finish
    <2> QED
          BY <1>2, <1>4, <2>2, <2>3, <2>8, Zenon DEF Complete, st, f
  <1> QED
        BY <1>3, <1>4, Zenon

-----------------------------------------------------------------------------

\* The line is a comment or empty.
Comment(l) == l.directive \in {"#", ""}

\* The line l adds its arguments to those of its directive in b.
ArgsGrow(b, l, d) ==
  ArgsOf(Append(b, l), d) = IF l.directive = d THEN Append(ArgsOf(b, d), l.args) ELSE ArgsOf(b, d)

(***************************************************************************)
(* A new last line adds its arguments to those of its directive.           *)
(***************************************************************************)
LEMMA ArgsGrowing ==
  ASSUME NEW D, NEW W, NEW b \in Seq(Lines(D, W)), NEW l \in Lines(D, W), NEW d
  PROVE  ArgsGrow(b, l, d)
  BY ArgsAppend DEF ArgsGrow

(***************************************************************************)
(* A comment changes no route and fits everywhere.                         *)
(***************************************************************************)
LEMMA CommentLine ==
  ASSUME NEW D, NEW W, NEW b \in Seq(Lines(D, W)) \ {<<>>}, NEW l \in Lines(D, W), Comment(l)
  PROVE  /\ RouteOf(Append(b, l)) = RouteOf(b)
         /\ \A r : Fits(r, l)
  <1> DEFINE x == Append(b, l)
  <1>1. \A d \in Known \ {"#", ""} : l.directive # d
        BY Zenon DEF Comment
  <1>2. x[1] = b[1]
    <2> DEFINE L == Lines(D, W)
    <2>1. b \in Seq(L) /\ b # <<>> /\ l \in L
          BY Zenon
    <2> HIDE DEF L
    <2> QED
          BY <2>1
  <1>3. ASSUME NEW d \in Known \ {"#", ""} PROVE ArgsOf(x, d) = ArgsOf(b, d)
    <2>1. ArgsOf(Append(b, l), d) = IF l.directive = d THEN Append(ArgsOf(b, d), l.args) ELSE ArgsOf(b, d)
      <3>1. ArgsGrow(b, l, d)
            BY ArgsGrowing, Zenon
      <3> QED
            BY <3>1, Zenon DEF ArgsGrow
    <2> QED
          BY <1>1, <2>1, Zenon
  <1> HIDE DEF x
  <1>4. /\ ArgsOf(x, "upstream") = ArgsOf(b, "upstream") /\ ArgsOf(x, "header") = ArgsOf(b, "header")
        /\ ArgsOf(x, "on_error") = ArgsOf(b, "on_error") /\ ArgsOf(x, "provider") = ArgsOf(b, "provider")
        /\ ArgsOf(x, "redirect-to-primary") = ArgsOf(b, "redirect-to-primary")
        /\ ArgsOf(x, "subject") = ArgsOf(b, "subject")
        BY <1>3, Zenon DEF Known
  <1>5. RouteOf(x) = RouteOf(b)
    <2>1. RouteOf(x) = RouteRec(b[1].args, ArgsOf(b, "upstream"), ParsedRules(ArgsOf(b, "header")),
                                Mappings(ArgsOf(b, "on_error")), Final(ArgsOf(b, "provider")),
                                ArgsOf(b, "redirect-to-primary") # <<>>, Flatten(ArgsOf(b, "subject")))
          BY <1>2, <1>4, RouteOfIs, Zenon
    <2> QED
          BY <2>1, RouteOfIs, Zenon
  <1>6. \A r : Fits(r, l)
        BY <1>1, Zenon DEF Fits, Known
  <1> QED
        BY <1>5, <1>6, Zenon DEF x

-----------------------------------------------------------------------------
(***************************************************************************)
(* The files that the pass has read without an error.                      *)
(***************************************************************************)
Fallbacks(f) == ArgsOf(f, "fallback")

\* The lines so far are without an error.
Fine(f) ==
  /\ \A i \in DOMAIN f : Placed(f, i)
  /\ Allowed(Blocks(f))
  /\ Len(Fallbacks(f)) <= 1

\* The file f stays without an error with the line l.
Accepts(f, l) ==
  LET bs == Blocks(f) IN
  /\ l.directive \in Known
  /\ Comment(l) \/ IsHead(l) \/ bs # <<>>
  /\ IsHead(l) => l.args # <<>> /\ (bs # <<>> => Complete(bs[Len(bs)]))
  /\ ~IsHead(l) /\ bs # <<>> => Fits(RouteOf(bs[Len(bs)]), l)
  /\ l.directive = "fallback" => Fallbacks(f) = <<>>

(***************************************************************************)
(* A new fallback line is one more, any other line leaves their number.    *)
(***************************************************************************)
LEMMA FallbackCount ==
  ASSUME NEW D, NEW W, NEW f \in Seq(Lines(D, W)), NEW l \in Lines(D, W)
  PROVE  LET u == Append(f, l) IN
         /\ Len(Fallbacks(u)) <= 1 <=> IF l.directive = "fallback" THEN Fallbacks(f) = <<>> ELSE Len(Fallbacks(f)) <= 1
         /\ Fallbacks(u) = <<>> <=> l.directive # "fallback" /\ Fallbacks(f) = <<>>
         /\ Fallbacks(f) = <<>> => Len(Fallbacks(f)) <= 1
  <1> DEFINE u == Append(f, l)
             F == Fallbacks(f)
             G == Fallbacks(u)
             S == Seq(W)
             a == l.args
  <1>1. a \in S
        BY Zenon DEF Lines
  <1>2. F \in Seq(S) /\ G = IF l.directive = "fallback" THEN Append(F, a) ELSE F
        BY ArgsAppend DEF Fallbacks
  <1> HIDE DEF F, G, S, a, u
  <1>3. Append(F, a) # <<>> /\ Len(Append(F, a)) = Len(F) + 1 /\ Len(F) \in Nat /\ (F = <<>> <=> Len(F) = 0)
        BY <1>1, <1>2, SeqParts, AppendParts
  <1>4. Len(F) + 1 <= 1 <=> Len(F) = 0
        BY <1>3
  <1>5. F = <<>> => Len(F) <= 1
        BY <1>3
  <1>6. Len(G) <= 1 <=> IF l.directive = "fallback" THEN F = <<>> ELSE Len(F) <= 1
        BY <1>2, <1>3, <1>4, Zenon
  <1>7. G = <<>> <=> l.directive # "fallback" /\ F = <<>>
        BY <1>2, <1>3, Zenon
  <1> QED
        BY <1>5, <1>6, <1>7, Zenon DEF F, G, u

(***************************************************************************)
(* Without a block there is none to extend.                                *)
(***************************************************************************)
LEMMA NoExtension == \A l : Extend(<<>>, l) = <<>>
  <1>1. DOMAIN <<>> = {}
        OBVIOUS
  <1>2. ASSUME NEW l PROVE [j \in {} |-> IF j = Len(<<>>) THEN Append(<<>>[j], l) ELSE <<>>[j]] = <<>>
        OBVIOUS
  <1> QED
        BY <1>1, <1>2, Zenon DEF Extend

(***************************************************************************)
(* No blocks are allowed, and none of them has a fallback line.            *)
(***************************************************************************)
LEMMA NoneStarted == Allowed(<<>>) /\ WithFallback(<<>>) = {}
  <1>1. DOMAIN <<>> = {}
        OBVIOUS
  <1> QED
        BY <1>1, Zenon DEF Allowed, WithFallback

\* How the line l changes the blocks bs into cs.
BlockStep(D, W, l, bs, cs) ==
  /\ bs \in Seq(Seq(Lines(D, W)) \ {<<>>})
  /\ IsHead(l) => cs = Append(bs, <<l>>)
  /\ ~IsHead(l) => cs = Extend(bs, l)

(***************************************************************************)
(* A new last line starts a block or extends the last one.                 *)
(***************************************************************************)
LEMMA BlockFacts ==
  ASSUME NEW D, NEW W, NEW f \in Seq(Lines(D, W)), NEW l \in Lines(D, W)
  PROVE  BlockStep(D, W, l, Blocks(f), Blocks(Append(f, l))) /\ (Blocks(f) = <<>> <=> Heads(f) = {})
  <1> DEFINE L == Lines(D, W)
  <1>1. f \in Seq(L) /\ l \in L
        BY Zenon
  <1> HIDE DEF L
  <1>2. /\ Blocks(f) \in Seq(Seq(L) \ {<<>>})
        /\ Blocks(f) = <<>> <=> Heads(f) = {}
        /\ IsHead(l) => Blocks(Append(f, l)) = Append(Blocks(f), <<l>>)
        /\ ~IsHead(l) => Blocks(Append(f, l)) = Extend(Blocks(f), l)
        BY <1>1, BlocksAppend
  <1> QED
        BY <1>2, Zenon DEF L, BlockStep

(***************************************************************************)
(* A file stays without an error with a new last line just when that line  *)
(* is accepted.                                                            *)
(***************************************************************************)
LEMMA FineAppend ==
  ASSUME NEW D, NEW W, NEW f \in Seq(Lines(D, W)), NEW l \in Lines(D, W)
  PROVE  Fine(Append(f, l)) <=> Fine(f) /\ Accepts(f, l)
  <1> DEFINE u == Append(f, l)
             bs == Blocks(f)
             cs == Blocks(u)
             m == Len(bs)
             All(g) == \A i \in DOMAIN g : Placed(g, i)
  <1>1. /\ bs \in Seq(Seq(Lines(D, W)) \ {<<>>})
        /\ bs = <<>> <=> Heads(f) = {}
        /\ IsHead(l) => cs = Append(bs, <<l>>)
        /\ ~IsHead(l) => cs = Extend(bs, l)
        BY BlockFacts, Zenon DEF BlockStep
  <1>2. All(u) <=> All(f) /\ l.directive \in Known /\ (Comment(l) \/ IsHead(l) \/ bs # <<>>)
    <2>1. All(u) <=> All(f) /\ l.directive \in Known /\ (l.directive \in {"#", ""} \/ IsHead(l) \/ Heads(f) # {})
          BY PlacedAppend, Zenon
    <2> QED
          BY <1>1, <2>1, Zenon DEF Comment
  <1>3. /\ Len(Fallbacks(u)) <= 1
             <=> IF l.directive = "fallback" THEN Fallbacks(f) = <<>> ELSE Len(Fallbacks(f)) <= 1
        /\ Fallbacks(f) = <<>> => Len(Fallbacks(f)) <= 1
        BY FallbackCount, Zenon
  <1> HIDE DEF All, u, bs, cs
  <1>4. IsHead(l) => (Allowed(cs) <=> Allowed(bs) /\ (bs # <<>> => Complete(bs[m])) /\ l.args # <<>>)
        BY <1>1, StartBlock, Zenon DEF BlockStarts
  <1>5. ~IsHead(l) /\ bs # <<>> => (Allowed(cs) <=> Allowed(bs) /\ Fits(RouteOf(bs[m]), l))
        BY <1>1, ExtendBlock, Zenon DEF BlockExtends
  <1>6. ~IsHead(l) /\ bs = <<>> => Allowed(cs) /\ Allowed(bs)
        BY <1>1, NoExtension, NoneStarted, Zenon
  <1>7. Fine(u) <=> All(u) /\ Allowed(cs) /\ Len(Fallbacks(u)) <= 1
        BY Zenon DEF Fine, All, cs
  <1>8. Fine(f) <=> All(f) /\ Allowed(bs) /\ Len(Fallbacks(f)) <= 1
        BY Zenon DEF Fine, All, bs
  <1>9. Accepts(f, l) <=> /\ l.directive \in Known
                          /\ Comment(l) \/ IsHead(l) \/ bs # <<>>
                          /\ IsHead(l) => l.args # <<>> /\ (bs # <<>> => Complete(bs[m]))
                          /\ ~IsHead(l) /\ bs # <<>> => Fits(RouteOf(bs[m]), l)
                          /\ l.directive = "fallback" => Fallbacks(f) = <<>>
        BY Zenon DEF Accepts, bs
  <1>10. Allowed(cs) <=> /\ Allowed(bs)
                         /\ IsHead(l) => l.args # <<>> /\ (bs # <<>> => Complete(bs[m]))
                         /\ ~IsHead(l) /\ bs # <<>> => Fits(RouteOf(bs[m]), l)
        BY <1>4, <1>5, <1>6, Zenon
  <1>11. Fine(u) <=> Fine(f) /\ Accepts(f, l)
        BY <1>2, <1>3, <1>7, <1>8, <1>9, <1>10, Zenon
  <1> QED
        BY <1>11, Zenon DEF u

(***************************************************************************)
(* Reading a line in the state of the blocks so far leads to the state of  *)
(* the blocks with it, or to an error.                                     *)
(***************************************************************************)
LEMMA ReadStep ==
  ASSUME NEW D, NEW W, NEW f \in Seq(Lines(D, W)), NEW l \in Lines(D, W), NEW bs, bs = Blocks(f),
         NEW cs, cs = Blocks(Append(f, l)), Fallbacks(f) = <<>> <=> WithFallback(bs) = {}
  PROVE  ReadLine(Parsed(bs), l) = IF Accepts(f, l) THEN Parsed(cs) ELSE Refused
  <1> DEFINE B == Seq(Lines(D, W)) \ {<<>>}
             m == Len(bs)
             b == bs[m]
             rs == [j \in 1..(m - 1) |-> RouteOf(bs[j])]
             fb == FallbackAt(bs)
             st == Parsed(bs)
  <1>1. /\ bs \in Seq(B)
        /\ IsHead(l) => cs = Append(bs, <<l>>)
        /\ ~IsHead(l) => cs = Extend(bs, l)
        BY BlockFacts, Zenon DEF BlockStep
  <1>2. m \in Nat /\ (bs # <<>> => b \in B)
    <2>1. bs \in Seq(B)
          BY <1>1, Zenon
    <2> HIDE DEF B
    <2> QED
          BY <2>1
  <1>3. st = StateRec(rs, IF bs = <<>> THEN <<>> ELSE <<RouteOf(b)>>, fb, FALSE)
        BY Zenon DEF Parsed
  <1>4. Accepts(f, l) <=> /\ l.directive \in Known
                          /\ Comment(l) \/ IsHead(l) \/ bs # <<>>
                          /\ IsHead(l) => l.args # <<>> /\ (bs # <<>> => Complete(b))
                          /\ ~IsHead(l) /\ bs # <<>> => Fits(RouteOf(b), l)
                          /\ l.directive = "fallback" => Fallbacks(f) = <<>>
        BY Zenon DEF Accepts
  <1> HIDE DEF st, rs, fb
  <1>5. /\ st.current = (IF bs = <<>> THEN <<>> ELSE <<RouteOf(b)>>) /\ st.error = FALSE
        /\ Error(st) = Refused
    <2>1. StateFields(st, rs, IF bs = <<>> THEN <<>> ELSE <<RouteOf(b)>>, fb, FALSE)
          BY <1>3, StateIs, Zenon
    <2> QED
          BY <2>1, Zenon DEF StateFields
  <1>6. /\ bs # <<>> /\ ~IsHead(l) =>
             /\ WithFallback(cs) = IF l.directive = "fallback" THEN WithFallback(bs) \cup {m} ELSE WithFallback(bs)
             /\ Parsed(cs) = StateRec(rs, <<RouteOf(Append(b, l))>>, FallbackAt(cs), FALSE)
    <2>1. bs # <<>> /\ ~IsHead(l) => BlockExtends(bs, cs, l, m)
          BY <1>1, ExtendBlock, Zenon
    <2> QED
          BY <2>1, Zenon DEF BlockExtends, rs
  <1>7. CASE Comment(l)
    <2>1. ReadLine(st, l) = st
          BY <1>5, <1>7, Zenon DEF ReadLine, Comment
    <2>2. l.directive \in Known /\ ~IsHead(l) /\ l.directive # "fallback"
          BY <1>7, Zenon DEF Comment, Known, IsHead
    <2>3. CASE bs = <<>>
      <3>1. cs = <<>>
            BY <1>1, <2>2, <2>3, NoExtension, Zenon
      <3>2. Accepts(f, l)
            BY <1>4, <1>7, <2>2, <2>3, Zenon
      <3> QED
            BY <2>1, <2>3, <3>1, <3>2, Zenon DEF st
    <2>4. CASE bs # <<>>
      <3>1. RouteOf(Append(b, l)) = RouteOf(b) /\ Fits(RouteOf(b), l)
            BY <1>2, <1>7, <2>4, CommentLine
      <3>2. FallbackAt(cs) = FallbackAt(bs)
            BY <1>6, <2>2, <2>4, Zenon DEF FallbackAt, WithFallback
      <3>3. Parsed(cs) = st
            BY <1>3, <1>6, <2>2, <2>4, <3>1, <3>2, Zenon DEF fb
      <3>4. Accepts(f, l)
            BY <1>4, <1>7, <2>2, <2>4, <3>1, Zenon
      <3> QED
            BY <2>1, <3>3, <3>4, Zenon DEF st
    <2> QED
          BY <2>3, <2>4, Zenon
  <1>8. CASE IsHead(l)
    <2>1. l.directive \in Known /\ l.directive = "route" /\ l.directive \notin {"#", ""} /\ l.directive # "fallback"
          BY <1>8, Zenon DEF Comment, Known, IsHead
    <2>2. ReadLine(st, l) = IF l.args = <<>> \/ Finish(st).error THEN Refused
                            ELSE Change(Finish(st), NewRoute(l.args))
          BY <1>5, <2>1, Zenon DEF ReadLine
    <2>3. Finish(st) = IF bs # <<>> /\ ~Complete(b) THEN Refused
                       ELSE StateRec(BlockRoutes(bs), <<>>, fb, FALSE)
          BY <1>1, FinishIs, Zenon DEF st, fb
    <2>4. Accepts(f, l) <=> l.args # <<>> /\ (bs # <<>> => Complete(b))
          BY <1>4, <1>8, <2>1, Zenon
    <2>5. Parsed(cs) = StateRec(BlockRoutes(bs), <<NewRoute(l.args)>>, fb, FALSE)
      <3>1. DOMAIN bs = 1..Len(bs)
            BY <1>1, SeqParts, Zenon
      <3>2. Parsed(cs) = StateRec([j \in 1..Len(bs) |-> RouteOf(bs[j])], <<NewRoute(l.args)>>, FallbackAt(bs), FALSE)
        <4>1. BlockStarts(bs, cs, l)
              BY <1>1, <1>8, StartBlock, Zenon
        <4> QED
              BY <4>1, Zenon DEF BlockStarts
      <3> QED
            BY <3>1, <3>2, Zenon DEF BlockRoutes, fb
    <2>6. CASE bs # <<>> /\ ~Complete(b)
      <3>1. Finish(st).error = TRUE
        <4>1. StateFields(Refused, <<>>, <<>>, 0, TRUE)
              BY StateIs, Zenon DEF Refused
        <4> QED
              BY <2>3, <2>6, <4>1, Zenon DEF StateFields
      <3> QED
            BY <2>2, <2>4, <2>6, <3>1, Zenon DEF st
    <2>7. CASE ~(bs # <<>> /\ ~Complete(b))
      <3> DEFINE done == Finish(st)
                 t == BlockRoutes(bs)
      <3>1. done = StateRec(t, <<>>, fb, FALSE)
            BY <2>3, <2>7, Zenon
      <3> HIDE DEF done, t
      <3>2. StateFields(done, t, <<>>, fb, FALSE)
            BY <3>1, StateIs, Zenon
      <3>3. done.error = FALSE /\ Change(done, NewRoute(l.args)) = StateRec(t, <<NewRoute(l.args)>>, fb, FALSE)
            BY <3>2, Zenon DEF StateFields
      <3> QED
            BY <2>2, <2>4, <2>5, <2>7, <3>3, Zenon DEF done, t, st
    <2> QED
          BY <2>6, <2>7, Zenon
  <1>9. CASE ~Comment(l) /\ ~IsHead(l) /\ bs = <<>>
    <2>1. ReadLine(st, l) = Refused
          BY <1>5, <1>9, Zenon DEF ReadLine, Comment, IsHead
    <2> QED
          BY <1>4, <1>9, <2>1, Zenon DEF st
  <1>10. CASE ~Comment(l) /\ ~IsHead(l) /\ bs # <<>>
    <2> DEFINE r == RouteOf(b)
    <2>1. <<r>> # <<>> /\ <<r>>[1] = r
      <3> HIDE DEF r
      <3> QED
          OBVIOUS
    <2>2. ReadLine(st, l) = Directive(st, r, l)
          BY <1>5, <1>10, <2>1, Zenon DEF ReadLine, Comment, IsHead
    <2>3. Accepts(f, l) <=> /\ l.directive \in Known /\ Fits(r, l)
                            /\ l.directive = "fallback" => Fallbacks(f) = <<>>
          BY <1>4, <1>10, Zenon
    <2>4. st = StateRec(rs, <<RouteOf(b)>>, fb, FALSE)
          BY <1>3, <1>10, Zenon
    <2>5. /\ l.directive \notin Known => Directive(st, r, l) = Refused
          /\ l.directive \in Known \ {"fallback"} =>
               Directive(st, r, l) = IF Fits(r, l) THEN StateRec(rs, <<RouteOf(Append(b, l))>>, fb, FALSE) ELSE Refused
          /\ l.directive = "fallback" =>
               /\ Fits(r, l) /\ RouteOf(Append(b, l)) = r
               /\ Directive(st, r, l) = IF fb # 0 THEN Refused ELSE StateRec(rs, <<r>>, Len(rs) + 1, FALSE)
      <3>1. b \in Seq(Lines(D, W)) \ {<<>>} /\ l.directive \notin {"route", "#", ""}
            BY <1>2, <1>10, Zenon DEF Comment, IsHead
      <3>2. DirectiveGives(b, l, rs, fb, st)
        <4> HIDE DEF b
        <4> QED
            BY <2>4, <3>1, DirectiveIs, Zenon
      <3> QED
            BY <3>2, Zenon DEF DirectiveGives
    <2>6. CASE l.directive # "fallback"
      <3>1. FallbackAt(cs) = fb
            BY <1>6, <1>10, <2>6, Zenon DEF FallbackAt, WithFallback, fb
      <3>2. Parsed(cs) = StateRec(rs, <<RouteOf(Append(b, l))>>, fb, FALSE)
            BY <1>6, <1>10, <3>1, Zenon
      <3> QED
            BY <2>2, <2>3, <2>5, <2>6, <3>2, Zenon DEF st
    <2>7. CASE l.directive = "fallback"
      <3>1. fb = 0 <=> Fallbacks(f) = <<>>
            BY <1>1, FallbackIs, Zenon DEF fb
      <3>2. l.directive \in Known
            BY <2>7, Zenon DEF Known
      <3>3. fb = 0 => FallbackAt(cs) = m
        <4>1. fb = 0 => WithFallback(cs) = {m}
              BY <1>6, <1>10, <2>7, <3>1, Zenon
        <4>2. Min({m}) = m
              BY <1>2, MinUnique
        <4> QED
              BY <4>1, <4>2, Zenon DEF FallbackAt, WithFallback
      <3>4. Len(rs) + 1 = m
        <4>1. m # 0
              BY <1>1, <1>10, SeqParts, AppendParts
        <4>2. DOMAIN rs = 1..(m - 1)
              BY Zenon DEF rs
        <4> HIDE DEF m
        <4>3. Len(rs) = m - 1
              BY <1>2, <4>1, <4>2, LenDomain
        <4> QED
              BY <1>2, <4>3
      <3>5. fb = 0 => Parsed(cs) = StateRec(rs, <<r>>, m, FALSE)
            BY <1>6, <1>10, <2>5, <2>7, <3>3, Zenon
      <3> QED
            BY <2>2, <2>3, <2>5, <2>7, <3>1, <3>2, <3>4, <3>5, Zenon DEF st
    <2> QED
          BY <2>6, <2>7, Zenon
  <1> QED
        BY <1>7, <1>8, <1>9, <1>10, Zenon

-----------------------------------------------------------------------------
\* The fallback lines of the file are those of its blocks.
Linked(f) == Fallbacks(f) = <<>> <=> WithFallback(Blocks(f)) = {}

(***************************************************************************)
(* An accepted line keeps that: a fallback line is in a block.             *)
(***************************************************************************)
LEMMA LinkAppend ==
  ASSUME NEW D, NEW W, NEW f \in Seq(Lines(D, W)), NEW l \in Lines(D, W), Linked(f), Accepts(f, l)
  PROVE  Linked(Append(f, l))
  <1> DEFINE u == Append(f, l)
             bs == Blocks(f)
             cs == Blocks(u)
             m == Len(bs)
  <1>1. BlockStep(D, W, l, bs, cs)
        BY BlockFacts, Zenon
  <1>2. Fallbacks(u) = <<>> <=> l.directive # "fallback" /\ Fallbacks(f) = <<>>
        BY FallbackCount, Zenon
  <1>3. Fallbacks(f) = <<>> <=> WithFallback(bs) = {}
        BY Zenon DEF Linked
  <1>4. Comment(l) \/ IsHead(l) \/ bs # <<>>
        BY Zenon DEF Accepts
  <1> HIDE DEF u, bs, cs
  <1>5. CASE IsHead(l)
    <2>1. BlockStarts(bs, cs, l)
          BY <1>1, <1>5, StartBlock, Zenon DEF BlockStep
    <2>2. WithFallback(cs) = WithFallback(bs) /\ l.directive # "fallback"
          BY <1>5, <2>1, Zenon DEF BlockStarts, IsHead
    <2> QED
          BY <1>2, <1>3, <2>2, Zenon DEF Linked, u, cs
  <1>6. CASE ~IsHead(l) /\ bs # <<>>
    <2>1. BlockExtends(bs, cs, l, m)
          BY <1>1, <1>6, ExtendBlock, Zenon DEF BlockStep
    <2>2. WithFallback(cs) = IF l.directive = "fallback" THEN WithFallback(bs) \cup {m} ELSE WithFallback(bs)
          BY <2>1, Zenon DEF BlockExtends
    <2> QED
          BY <1>2, <1>3, <2>2, Zenon DEF Linked, u, cs
  <1>7. CASE ~IsHead(l) /\ bs = <<>>
    <2>1. cs = bs
          BY <1>1, <1>7, NoExtension, Zenon DEF BlockStep
    <2>2. l.directive # "fallback"
          BY <1>4, <1>7, Zenon DEF Comment
    <2> QED
          BY <1>2, <1>3, <2>1, <2>2, Zenon DEF Linked, u, cs
  <1> QED
        BY <1>5, <1>6, <1>7, Zenon

(***************************************************************************)
(* After an error nothing changes any more.                                *)
(***************************************************************************)
LEMMA FailedStays == (\A l : ReadLine(Refused, l) = Refused) /\ Finish(Refused) = Refused
  <1>1. StateFields(Refused, <<>>, <<>>, 0, TRUE)
        BY StateIs, Zenon DEF Refused
  <1>2. Refused.error = TRUE /\ Refused.current = <<>>
        BY <1>1, Zenon DEF StateFields
  <1> QED
        BY <1>2, Zenon DEF ReadLine, Finish

(***************************************************************************)
(* An empty file is without an error and read as no blocks.                *)
(***************************************************************************)
LEMMA EmptyFile ==
  /\ Fine(<<>>) /\ Linked(<<>>)
  /\ ReadLines(<<>>) = Parsed(Blocks(<<>>))
  <1> DEFINE e == <<>>
  <1>1. DOMAIN e = {} /\ Len(e) = 0 /\ Len(e) <= 1
        OBVIOUS
  <1>2. Blocks(e) = e /\ Fallbacks(e) = e
        BY NoBlocks, ArgsEmpty, Zenon DEF Fallbacks
  <1>3. Allowed(e) /\ WithFallback(e) = {}
        BY NoneStarted, Zenon
  <1>4. FallbackAt(e) = 0
        BY <1>3, Zenon DEF FallbackAt, WithFallback
  <1>5. [j \in 1..(Len(e) - 1) |-> RouteOf(e[j])] = e
    <2>1. 1..(Len(e) - 1) = {}
          BY <1>1
    <2>2. [j \in {} |-> RouteOf(e[j])] = e
          OBVIOUS
    <2> QED
          BY <2>1, <2>2, Zenon
  <1>6. Parsed(e) = StateRec(e, e, 0, FALSE)
        BY <1>4, <1>5, Zenon DEF Parsed
  <1>7. ReadLines(e) = StateRec(e, e, 0, FALSE)
        BY ReadEmpty, ErrorIs, Zenon
  <1>8. Linked(e)
        BY <1>2, <1>3, Zenon DEF Linked
  <1> HIDE DEF e
  <1>9. Fine(e)
        BY <1>1, <1>2, <1>3, Zenon DEF Fine
  <1>10. ReadLines(e) = Parsed(Blocks(e))
        BY <1>2, <1>6, <1>7, Zenon
  <1> QED
        BY <1>8, <1>9, <1>10, Zenon DEF e

\* The pass over f is where its blocks lead.
ReadSoFar(f) ==
  /\ ReadLines(f) = IF Fine(f) THEN Parsed(Blocks(f)) ELSE Refused
  /\ Fine(f) => Linked(f)

(***************************************************************************)
(* After any lines the pass is where their blocks lead.                    *)
(***************************************************************************)
LEMMA AllRead ==
  ASSUME NEW D, NEW W
  PROVE  \A f \in Seq(Lines(D, W)) : ReadSoFar(f)
  <1> DEFINE L == Lines(D, W)
             P == {f \in Seq(L) : ReadSoFar(f)}
  <1>1. <<>> \in P
    <2>1. <<>> \in Seq(L)
      <3> HIDE DEF L
      <3> QED
          OBVIOUS
    <2>2. ReadSoFar(<<>>)
          BY EmptyFile, Zenon DEF ReadSoFar
    <2> QED
          BY <2>1, <2>2, Zenon
  <1>2. ASSUME NEW f \in Seq(L), NEW l \in L, f \in P
        PROVE  Append(f, l) \in P
    <2> DEFINE u == Append(f, l)
               bs == Blocks(f)
               cs == Blocks(u)
    <2>1. ReadSoFar(f)
          BY <1>2, Zenon
    <2>2. u \in Seq(L)
      <3> HIDE DEF L
      <3> QED
          OBVIOUS
    <2>3. ReadLines(u) = ReadLine(ReadLines(f), l)
          BY ReadAppend
    <2>4. Fine(u) <=> Fine(f) /\ Accepts(f, l)
          BY FineAppend, Zenon
    <2>5. Fine(f) => ReadLine(Parsed(bs), l) = IF Accepts(f, l) THEN Parsed(cs) ELSE Refused
      <3>1. Fine(f) => (Fallbacks(f) = <<>> <=> WithFallback(bs) = {})
            BY <2>1, Zenon DEF ReadSoFar, Linked
      <3> QED
            BY <3>1, ReadStep, Zenon
    <2>6. Fine(u) => Linked(u)
          BY <2>1, <2>4, LinkAppend, Zenon DEF ReadSoFar
    <2> HIDE DEF u, bs, cs
    <2>7. ReadLines(u) = IF Fine(u) THEN Parsed(cs) ELSE Refused
      <3>1. CASE Fine(f)
        <4>1. ReadLines(f) = Parsed(bs)
              BY <2>1, <3>1, Zenon DEF ReadSoFar, bs
        <4> QED
              BY <2>3, <2>4, <2>5, <3>1, <4>1, Zenon
      <3>2. CASE ~Fine(f)
        <4>1. ReadLines(f) = Refused
              BY <2>1, <3>2, Zenon DEF ReadSoFar
        <4> QED
              BY <2>3, <2>4, <3>2, <4>1, FailedStays, Zenon
      <3> QED
            BY <3>1, <3>2, Zenon
    <2>8. ReadSoFar(u)
          BY <2>6, <2>7, Zenon DEF ReadSoFar, cs
    <2> QED
          BY <2>2, <2>8, Zenon DEF u
  <1>3. \A f \in Seq(L) : f \in P
    <2> HIDE DEF L, P
    <2> QED
          BY <1>1, <1>2, SeqInduction
  <1> QED
        BY <1>3, Zenon

(***************************************************************************)
(* Blocks are lists of lines that are not empty.                           *)
(***************************************************************************)
LEMMA BlocksTyped ==
  ASSUME NEW D, NEW W, NEW f \in Seq(Lines(D, W))
  PROVE  Blocks(f) \in Seq(Seq(Lines(D, W)) \ {<<>>})
  <1> DEFINE L == Lines(D, W)
             S == Seq(L) \ {<<>>}
  <1>1. CASE L = {}
    <2>1. f = <<>>
      <3>1. f \in Seq(L)
            BY Zenon
      <3> HIDE DEF L
      <3> QED
            BY <1>1, <3>1
    <2>2. <<>> \in Seq(S)
      <3> HIDE DEF S
      <3> QED
            OBVIOUS
    <2> QED
          BY <2>1, <2>2, NoBlocks, Zenon
  <1>2. CASE \E l : l \in L
          BY <1>2, BlockFacts, Zenon DEF BlockStep
  <1> QED
        BY <1>1, <1>2, Zenon

(***************************************************************************)
(* A good file is one without an error whose last route has an upstream.   *)
(***************************************************************************)
LEMMA GoodIsFine ==
  ASSUME NEW D, NEW W, NEW f \in Seq(Lines(D, W)), NEW bs, bs = Blocks(f)
  PROVE  GoodFile(f) <=> Fine(f) /\ (bs # <<>> => Complete(bs[Len(bs)]))
  <1> DEFINE m == Len(bs)
  <1>1. bs \in Seq(Seq(Lines(D, W)) \ {<<>>})
        BY BlocksTyped, Zenon
  <1>2. m \in Nat /\ DOMAIN bs = 1..m /\ (bs # <<>> => m \in 1..m) /\ (bs = <<>> => 1..m = {})
    <2> DEFINE B == Seq(Lines(D, W)) \ {<<>>}
    <2>1. bs \in Seq(B)
          BY <1>1, Zenon
    <2> HIDE DEF B
    <2> QED
          BY <2>1
  <1>3. (\A x \in ToSet(bs) : GoodLines(x) /\ Complete(x)) <=> \A j \in 1..m : GoodLines(bs[j]) /\ Complete(bs[j])
        BY <1>2, Zenon DEF ToSet
  <1>4. Allowed(bs) <=> \A j \in 1..m : GoodLines(bs[j]) /\ (j # m => Complete(bs[j]))
        BY <1>2, Zenon DEF Allowed
  <1>5. (\A j \in 1..m : GoodLines(bs[j]) /\ Complete(bs[j])) <=> Allowed(bs) /\ (bs # <<>> => Complete(bs[m]))
        BY <1>2, <1>4, Zenon
  <1> QED
        BY <1>3, <1>5, Zenon DEF GoodFile, Fine, Complete, Fallbacks

(***************************************************************************)
(* Parse, which keeps one current route and stops at the first error,      *)
(* accepts the files that are made of good blocks and returns their routes *)
(* in order with the one that has the fallback line, for files of any      *)
(* length and any words (config.Parse).                                    *)
(***************************************************************************)
THEOREM ParsedByBlocks ==
  ASSUME NEW D, NEW W, NEW f \in Seq(Lines(D, W))
  PROVE  Parse(f) = ByBlocks(f)
  <1> DEFINE bs == Blocks(f)
             good == bs # <<>> => Complete(bs[Len(bs)])
             out == StateRec(BlockRoutes(bs), <<>>, FallbackAt(bs), FALSE)
  <1>1. ReadSoFar(f)
        BY AllRead, Zenon
  <1>2. Parse(f) = Finish(ReadLines(f))
        BY Zenon DEF Parse, ReadLines
  <1>3. bs \in Seq(Seq(Lines(D, W)) \ {<<>>}) /\ (GoodFile(f) <=> Fine(f) /\ good)
        BY BlocksTyped, GoodIsFine, Zenon
  <1>4. ByBlocks(f) = IF GoodFile(f) THEN out ELSE Refused
        BY ErrorIs, Zenon DEF ByBlocks, StateRec, BlockRoutes
  <1>5. Finish(Parsed(bs)) = IF good THEN out ELSE Refused
        BY <1>3, FinishIs, Zenon
  <1> HIDE DEF bs, good, out
  <1>6. CASE Fine(f)
    <2>1. ReadLines(f) = Parsed(bs)
          BY <1>1, <1>6, Zenon DEF ReadSoFar, bs
    <2> QED
          BY <1>2, <1>3, <1>4, <1>5, <1>6, <2>1, Zenon
  <1>7. CASE ~Fine(f)
    <2>1. ReadLines(f) = Refused
          BY <1>1, <1>7, Zenon DEF ReadSoFar
    <2> QED
          BY <1>2, <1>3, <1>4, <1>7, <2>1, FailedStays, Zenon
  <1> QED
        BY <1>6, <1>7, Zenon

-----------------------------------------------------------------------------
(***************************************************************************)
(* Lists of at most three words are lists of words.                        *)
(***************************************************************************)
LEMMA ShortLists ==
  ASSUME NEW W
  PROVE  /\ <<>> \in Seq(W)
         /\ \A x \in W : <<x>> \in Seq(W)
         /\ \A x, y \in W : <<x, y>> \in Seq(W)
         /\ \A x, y, z \in W : <<x, y, z>> \in Seq(W)
  OBVIOUS

(***************************************************************************)
(* A line is what its directive and its arguments make it.                 *)
(***************************************************************************)
LEMMA LineTyped ==
  ASSUME NEW D, NEW W, NEW d \in D, NEW ws \in Seq(W)
  PROVE  Line(d, ws) \in Lines(D, W)
  BY Zenon DEF Line, Lines

(***************************************************************************)
(* Parse reads every file of the instance by its blocks.                   *)
(***************************************************************************)
THEOREM FilesChecked == StartupSpec => []ParsesBlocks
  <1> DEFINE D == {"route", "upstream", "header", "on_error", "provider", "fallback", "redirect-to-primary",
                   "subject", "#", "#fallback"}
             W == {"a", "b", "c", "u1", "u2", "add", "delete", "h", "x", "p", "s", "t", "fallback",
                   400, 404, 599, 600, Target("e", "plain"), Target("e", "none"), Hostless,
                   Target("e", "invalid")}
             S == Lines(D, W)
  <1>1. "a" \in W /\ "b" \in W /\ "c" \in W /\ "u1" \in W /\ "u2" \in W /\ "add" \in W /\ "delete" \in W
        /\ "h" \in W /\ "x" \in W /\ "p" \in W /\ "s" \in W /\ "t" \in W /\ "fallback" \in W
        OBVIOUS
  <1>2. 400 \in W /\ 404 \in W /\ 599 \in W /\ 600 \in W /\ Target("e", "plain") \in W
        /\ Target("e", "none") \in W /\ Hostless \in W /\ Target("e", "invalid") \in W
        OBVIOUS
  <1>3. "route" \in D /\ "upstream" \in D /\ "header" \in D /\ "on_error" \in D /\ "provider" \in D
        /\ "fallback" \in D /\ "redirect-to-primary" \in D /\ "subject" \in D /\ "#" \in D /\ "#fallback" \in D
        BY Zenon
  <1> HIDE DEF D, W, S
  <1>4. /\ \A d \in D : Line(d, <<>>) \in S
        /\ \A d \in D, x \in W : Line(d, <<x>>) \in S
        /\ \A d \in D, x, y \in W : Line(d, <<x, y>>) \in S
        /\ \A d \in D, x, y, z \in W : Line(d, <<x, y, z>>) \in S
        BY ShortLists, LineTyped, Zenon DEF S
  <1>5. RouteAB \in S /\ RouteC \in S /\ Line("route", <<>>) \in S /\ To("u1") \in S /\ To("u2") \in S
        BY <1>1, <1>3, <1>4, Zenon DEF RouteAB, RouteC, To
  <1>6. InRoute \subseteq S
    <2>1. HeaderLines \subseteq S
      <3>1. Line("header", <<"add", "h", "x">>) \in S /\ Line("header", <<"delete", "h", "x">>) \in S
            /\ Line("header", <<"delete", "h">>) \in S
            BY <1>1, <1>3, <1>4, Zenon
      <3> QED
            BY <3>1, Zenon DEF HeaderLines
    <2>2. ErrorLines \subseteq S
      <3>1. "on_error" \in D /\ \A k, x \in W : OnError(k, x) \in S
            BY <1>3, <1>4, Zenon DEF OnError
      <3>2. \A x \in W : Line("on_error", <<x>>) \in S
            BY <1>4, <3>1, Zenon
      <3> QED
            BY <1>2, <3>1, <3>2 DEF ErrorLines
    <2>3. OtherLines \subseteq S
      <3>1. Line("provider", <<"p">>) \in S /\ Line("provider", <<>>) \in S /\ Line("fallback", <<>>) \in S
            /\ Line("redirect-to-primary", <<>>) \in S
            BY <1>1, <1>3, <1>4, Zenon
      <3>2. Line("subject", <<"s", "t">>) \in S /\ Line("subject", <<>>) \in S /\ Line("#", <<"fallback">>) \in S
            /\ Line("#fallback", <<>>) \in S
            BY <1>1, <1>3, <1>4, Zenon
      <3> QED
            BY <3>1, <3>2, Zenon DEF OtherLines
    <2> QED
          BY <1>5, <2>1, <2>2, <2>3, Zenon DEF InRoute
  <1>7. AnyLines \subseteq S
        BY <1>5, <1>6, Zenon DEF AnyLines
  <1>8. UpTo(2, InRoute) \subseteq Seq(S) /\ UpTo(3, AnyLines) \subseteq Seq(S)
    <2>1. 2 \in Nat /\ 3 \in Nat
          OBVIOUS
    <2> QED
          BY <1>6, <1>7, <2>1, BoundedAreSeqs, WiderSeq, Zenon
  <1>9. ASSUME NEW f \in Files PROVE f \in Seq(S)
    <2>1. <<RouteAB, To("u1")>> \in Seq(S) /\ <<RouteC>> \in Seq(S)
          BY <1>5, ShortLists, Zenon
    <2>2. \A a, b \in Seq(S) : a \o b \in Seq(S)
          OBVIOUS
    <2>3. \A more \in Seq(S) \X Seq(S) : TwoRoutes(more) \in Seq(S)
          BY <2>1, <2>2, Zenon DEF TwoRoutes
    <2> DEFINE U == UpTo(2, InRoute)
               A == UpTo(3, AnyLines)
    <2>4. f \in A \/ \E more \in U \X U : f = TwoRoutes(more)
          BY Zenon DEF Files
    <2>5. U \subseteq Seq(S) /\ A \subseteq Seq(S)
          BY <1>8, Zenon
    <2> HIDE DEF U, A
    <2>6. \A more \in U \X U : more \in Seq(S) \X Seq(S)
          BY <2>5
    <2> QED
          BY <2>3, <2>4, <2>5, <2>6, Zenon
  <1>10. FilesParse
        BY <1>9, ParsedByBlocks, Zenon DEF FilesParse, S
  <1>11. ParsesBlocks
        BY <1>10, Zenon DEF ParsesBlocks
  <1> QED
        BY <1>11, PTL
=============================================================================
