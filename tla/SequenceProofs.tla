--------------------------- MODULE SequenceProofs ---------------------------
(***************************************************************************)
(* Facts about numbers, sequences and folds over them that the proofs of   *)
(* several components need.  Induction is stated for a set of numbers, and *)
(* what a fold computes for the results after each of its steps.           *)
(***************************************************************************)
EXTENDS Lists, WellFoundedInduction, TLAPS

(***************************************************************************)
(* Sequences are functions, and equal when their elements are.             *)
(***************************************************************************)
LEMMA SeqParts ==
  ASSUME NEW S, NEW s \in Seq(S)
  PROVE  Len(s) \in Nat /\ DOMAIN s = 1..Len(s) /\ s \in [1..Len(s) -> S] /\ (s = <<>> <=> Len(s) = 0)
  OBVIOUS

(***************************************************************************)
(* Sequences of the same length with the same members are equal.           *)
(***************************************************************************)
LEMMA SameSeq ==
  ASSUME NEW S, NEW s \in Seq(S), NEW t \in Seq(S), Len(s) = Len(t), \A i \in 1..Len(s) : s[i] = t[i]
  PROVE  s = t
  OBVIOUS

(***************************************************************************)
(* Sequences over a set are sequences over any larger one.                 *)
(***************************************************************************)
LEMMA WiderSeq ==
  ASSUME NEW S, NEW T, S \subseteq T
  PROVE  Seq(S) \subseteq Seq(T)
  OBVIOUS

(***************************************************************************)
(* The sequences of bounded length are sequences.                          *)
(***************************************************************************)
LEMMA BoundedAreSeqs ==
  ASSUME NEW S, NEW n \in Nat
  PROVE  UpTo(n, S) \subseteq Seq(S)
  <1>1. ASSUME NEW k \in 0..n, NEW s \in [1..k -> S] PROVE s \in Seq(S)
        OBVIOUS
  <1> QED
        BY <1>1, Zenon DEF UpTo

(***************************************************************************)
(* The length of a function on 1..m is m.                                  *)
(***************************************************************************)
LEMMA LenDomain ==
  ASSUME NEW m \in Nat, NEW s, DOMAIN s = 1..m
  PROVE  Len(s) = m
  OBVIOUS

(***************************************************************************)
(* What Append returns.                                                    *)
(***************************************************************************)
LEMMA AppendParts ==
  ASSUME NEW S, NEW s \in Seq(S), NEW x \in S
  PROVE  /\ Append(s, x) \in Seq(S) /\ Append(s, x) # <<>>
         /\ Len(Append(s, x)) = Len(s) + 1 /\ DOMAIN Append(s, x) = 1..(Len(s) + 1)
         /\ Append(s, x)[Len(s) + 1] = x
         /\ \A j \in 1..Len(s) : Append(s, x)[j] = s[j]
  OBVIOUS

(***************************************************************************)
(* Append never returns the empty sequence.                                *)
(***************************************************************************)
LEMMA AppendNotEmpty ==
  ASSUME NEW S, NEW s \in Seq(S), NEW x \in S
  PROVE  Append(s, x) # <<>>
  BY AppendParts

(***************************************************************************)
(* What SubSeq returns.                                                    *)
(***************************************************************************)
LEMMA SubSeqParts ==
  ASSUME NEW S, NEW s \in Seq(S), NEW h \in 1..Len(s), NEW e \in h..Len(s)
  PROVE  /\ SubSeq(s, h, e) \in Seq(S) /\ SubSeq(s, h, e) # <<>> /\ Len(SubSeq(s, h, e)) = e - h + 1
         /\ \A i \in 1..(e - h + 1) : SubSeq(s, h, e)[i] = s[h + i - 1]
  <1>1. Len(SubSeq(s, h, e)) = e - h + 1 /\ SubSeq(s, h, e) # <<>>
        OBVIOUS
  <1>2. \A i \in 1..(e - h + 1) : SubSeq(s, h, e)[i] = s[h + i - 1]
        OBVIOUS
  <1>3. SubSeq(s, h, e) \in Seq(S)
        OBVIOUS
  <1> QED
        BY <1>1, <1>2, <1>3, Zenon

(***************************************************************************)
(* The same two facts as one formula each, which the provers find easier   *)
(* to cite.                                                                *)
(***************************************************************************)
Extends(u, s, x, S) ==
  /\ Len(s) \in Nat /\ Len(u) = Len(s) + 1
  /\ u \in Seq(S)
  /\ u[Len(s) + 1] = x
  /\ \A j \in 1..Len(s) : u[j] = s[j]

\* b is what s has from h to e.
IsPart(b, s, h, e, S) ==
  /\ b \in Seq(S) /\ b # <<>> /\ Len(b) = e - h + 1
  /\ \A i \in 1..(e - h + 1) : b[i] = s[h + i - 1]

(***************************************************************************)
(* Append(s, x) is s with x behind it.                                     *)
(***************************************************************************)
LEMMA AppendExtends ==
  ASSUME NEW S, NEW s \in Seq(S), NEW x \in S
  PROVE  Extends(Append(s, x), s, x, S)
  BY AppendParts DEF Extends

(***************************************************************************)
(* SubSeq(s, h, e) is what s has from h to e.                              *)
(***************************************************************************)
LEMMA SubSeqIsPart ==
  ASSUME NEW S, NEW s \in Seq(S), NEW n, n = Len(s), NEW h \in 1..n, NEW e \in h..n
  PROVE  IsPart(SubSeq(s, h, e), s, h, e, S)
  BY SubSeqParts, Zenon DEF IsPart

(***************************************************************************)
(* A sequence that is not empty is an Append.                              *)
(***************************************************************************)
LEMMA LastAppended ==
  ASSUME NEW S, NEW s \in Seq(S), s # <<>>
  PROVE  \E t \in Seq(S), x \in S : s = Append(t, x)
  <1> DEFINE n == Len(s) - 1
             t == [i \in 1..n |-> s[i]]
             x == s[Len(s)]
  <1>1. n \in Nat /\ Len(s) = n + 1 /\ x \in S /\ \A i \in 1..n : s[i] \in S
        OBVIOUS
  <1> HIDE DEF n, x
  <1>2. t \in Seq(S) /\ Len(t) = n /\ \A i \in 1..n : t[i] = s[i]
        BY <1>1
  <1> HIDE DEF t
  <1>3. Append(t, x) \in Seq(S) /\ Len(Append(t, x)) = Len(s)
        BY <1>1, <1>2, AppendParts
  <1>4. \A i \in 1..Len(s) : Append(t, x)[i] = s[i]
    <2>1. \A i \in 1..(n + 1) : i = n + 1 \/ i \in 1..n
          BY <1>1
    <2>2. Append(t, x)[n + 1] = x /\ \A i \in 1..n : Append(t, x)[i] = t[i]
          BY <1>1, <1>2, AppendParts
    <2> QED
          BY <1>1, <1>2, <2>1, <2>2, Zenon DEF x
  <1>5. s = Append(t, x)
    <2> DEFINE u == Append(t, x)
    <2>1. u \in Seq(S) /\ Len(s) = Len(u) /\ \A i \in 1..Len(s) : s[i] = u[i]
          BY <1>3, <1>4, Zenon
    <2> HIDE DEF u
    <2>2. s = u
          BY <2>1, SameSeq, Zenon
    <2> QED
          BY <2>2, Zenon DEF u
  <1> QED
        BY <1>1, <1>2, <1>5, Zenon

(***************************************************************************)
(* The least-number principle: a set of numbers has a least member.        *)
(***************************************************************************)
LEMMA Least ==
  ASSUME NEW S \in SUBSET Nat, S # {}
  PROVE  \E m \in S : \A j \in S : m <= j
  <1> DEFINE R == OpToRel(<, Nat)
  <1>1. PICK m \in S : \A j \in S : ~(<<j, m>> \in R)
    <2>1. IsWellFoundedOn(R, Nat)
          BY NatLessThanWellFounded, Zenon
    <2> HIDE DEF R
    <2> QED
          BY <2>1, WFMin, Zenon
  <1>2. ASSUME NEW j \in S PROVE ~(j < m)
        BY <1>1, <1>2, Zenon DEF OpToRel
  <1> QED
        BY <1>2

(***************************************************************************)
(* A set of numbers that has a bound has a greatest member.                *)
(***************************************************************************)
LEMMA Greatest ==
  ASSUME NEW n \in Nat, NEW S \in SUBSET (0..n), S # {}
  PROVE  \E m \in S : \A j \in S : j <= m
  <1> DEFINE T == {n - i : i \in S}
  <1>1. T \in SUBSET Nat
    <2>1. \A i \in S : n - i \in Nat
          OBVIOUS
    <2> QED
          BY <2>1, Zenon
  <1>2. T # {}
        BY Zenon
  <1>3. PICK m \in T : \A j \in T : m <= j
        BY <1>1, <1>2, Least, Zenon
  <1>4. PICK i \in S : m = n - i
        BY Zenon
  <1>5. ASSUME NEW j \in S PROVE j <= i
    <2>1. n - j \in T
          BY Zenon
    <2>2. n - i <= n - j
          BY <1>3, <1>4, <2>1, Zenon
    <2> QED
          BY <2>2
  <1> QED
        BY <1>5, Zenon

(***************************************************************************)
(* Min and Max of the community modules are those members.                 *)
(***************************************************************************)
LEMMA MinIs ==
  ASSUME NEW S \in SUBSET Nat, S # {}
  PROVE  Min(S) \in S /\ \A j \in S : Min(S) <= j
  BY Least, Zenon DEF Min

(***************************************************************************)
(* Max is a greatest member of a bounded set of numbers.                   *)
(***************************************************************************)
LEMMA MaxIs ==
  ASSUME NEW n \in Nat, NEW S \in SUBSET (0..n), S # {}
  PROVE  Max(S) \in S /\ \A j \in S : j <= Max(S)
  <1>1. \A x, y \in S : y <= x <=> x >= y
        OBVIOUS
  <1>2. \E m \in S : \A j \in S : m >= j
        BY <1>1, Greatest, Zenon
  <1>3. Max(S) \in S /\ \A j \in S : Max(S) >= j
        BY <1>2, Zenon DEF Max
  <1> QED
        BY <1>1, <1>3, Zenon

(***************************************************************************)
(* Induction up to n: a set that has 0 and, with a number, the next one.   *)
(***************************************************************************)
LEMMA Induction ==
  ASSUME NEW n \in Nat, NEW P, 0 \in P, \A i \in 1..n : i - 1 \in P => i \in P
  PROVE  \A i \in 0..n : i \in P
  <1> SUFFICES ASSUME (0..n) \ P # {} PROVE FALSE
      BY Zenon
  <1> DEFINE S == (0..n) \ P
  <1>0. S \in SUBSET Nat
        OBVIOUS
  <1>1. PICK m \in S : \A j \in S : m <= j
    <2> HIDE DEF S
    <2> QED
        BY <1>0, Least, Zenon DEF S
  <1>2. m # 0 /\ m \in 1..n /\ m - 1 \in 0..n /\ ~(m <= m - 1)
        BY <1>1
  <1> QED
        BY <1>1, <1>2, Zenon

(***************************************************************************)
(* The numbers up to i have i as their greatest, and without it are those  *)
(* up to the one before.                                                   *)
(***************************************************************************)
LEMMA MaxOfPrefix ==
  ASSUME NEW i \in Nat \ {0}
  PROVE  1..i # {} /\ Max(1..i) = i /\ (1..i) \ {Max(1..i)} = 1..(i - 1)
  <1>1. i \in 1..i /\ 1..i \in SUBSET (0..i)
        OBVIOUS
  <1>2. Max(1..i) \in 1..i /\ \A j \in 1..i : j <= Max(1..i)
        BY <1>1, MaxIs, Zenon
  <1>3. Max(1..i) = i
    <2> DEFINE m == Max(1..i)
    <2>1. m \in 1..i /\ i <= m
          BY <1>1, <1>2, Zenon
    <2> HIDE DEF m
    <2>2. m = i
          BY <2>1
    <2> QED
          BY <2>2, Zenon DEF m
  <1>4. (1..i) \ {i} = 1..(i - 1)
        OBVIOUS
  <1> QED
        BY <1>1, <1>3, <1>4, Zenon

(***************************************************************************)
(* The function on sets of positions that FoldLeft computes with exists:   *)
(* step gives the next result from the last one and a position.            *)
(***************************************************************************)
Folds(F, n, b, step) ==
  \A t \in SUBSET (1..n) : F[t] = IF t = {} THEN b ELSE step[Max(t)][F[t \ {Max(t)}]]

(***************************************************************************)
(* There is a function that folds every set of positions, one position at  *)
(* a time.                                                                 *)
(***************************************************************************)
LEMMA FoldExists ==
  ASSUME NEW n \in Nat, NEW T, NEW b \in T, NEW step \in [1..n -> [T -> T]]
  PROVE  \E F \in [SUBSET (1..n) -> T] : Folds(F, n, b, step)
  <1> DEFINE P == {k \in 0..n : \E F \in [SUBSET (1..k) -> T] : Folds(F, k, b, step)}
  <1>1. 0 \in P
    <2>1. 1..0 = {} /\ 0 \in 0..n
          OBVIOUS
    <2>2. [t \in SUBSET (1..0) |-> b] \in [SUBSET (1..0) -> T]
          OBVIOUS
    <2>3. Folds([t \in SUBSET (1..0) |-> b], 0, b, step)
          BY <2>1, Zenon DEF Folds
    <2> QED
          BY <2>1, <2>2, <2>3, Zenon
  <1>2. ASSUME NEW k \in 1..n, k - 1 \in P PROVE k \in P
    <2>1. PICK F \in [SUBSET (1..(k - 1)) -> T] : Folds(F, k - 1, b, step)
          BY <1>2, Zenon
    <2> DEFINE G == [t \in SUBSET (1..k) |-> IF k \in t THEN step[k][F[t \ {k}]] ELSE F[t]]
    <2>2. ASSUME NEW t \in SUBSET (1..k) PROVE t \ {k} \in SUBSET (1..(k - 1)) /\ (k \notin t => t = t \ {k})
          OBVIOUS
    <2>3. G \in [SUBSET (1..k) -> T]
          BY <2>2
    <2>4. ASSUME NEW t \in SUBSET (1..k), t # {}
          PROVE  /\ Max(t) \in t /\ t \ {Max(t)} \in SUBSET (1..k)
                 /\ k \in t => Max(t) = k
      <3>1. t \in SUBSET (0..k) /\ k \in Nat
            OBVIOUS
      <3>2. Max(t) \in t /\ \A j \in t : j <= Max(t)
            BY <3>1, <2>4, MaxIs, Zenon
      <3> DEFINE m == Max(t)
      <3>3. m \in 1..k /\ (k \in t => k <= m)
            BY <3>2, Zenon
      <3> HIDE DEF m
      <3>4. k \in t => m = k
            BY <3>3
      <3> QED
            BY <3>2, <3>4, Zenon DEF m
    <2>5. Folds(G, k, b, step)
      <3> SUFFICES ASSUME NEW t \in SUBSET (1..k)
                   PROVE  G[t] = IF t = {} THEN b ELSE step[Max(t)][G[t \ {Max(t)}]]
          BY Zenon DEF Folds
      <3>1. CASE t = {}
        <4>1. {} \in SUBSET (1..(k - 1)) /\ k \notin {}
              OBVIOUS
        <4>2. F[{}] = b
              BY <2>1, <4>1, Zenon DEF Folds
        <4> QED
              BY <3>1, <4>1, <4>2, Zenon
      <3>2. CASE t # {} /\ k \in t
        <4>1. Max(t) = k /\ t \ {k} \in SUBSET (1..k) /\ k \notin t \ {k}
              BY <3>2, <2>4, Zenon
        <4>2. G[t] = step[k][F[t \ {k}]] /\ G[t \ {k}] = F[t \ {k}]
              BY <3>2, <4>1, Zenon
        <4> QED
              BY <3>2, <4>1, <4>2, Zenon
      <3>3. CASE t # {} /\ k \notin t
        <4>1. t \in SUBSET (1..(k - 1)) /\ Max(t) \in t /\ t \ {Max(t)} \in SUBSET (1..k) /\ k \notin t \ {Max(t)}
              BY <3>3, <2>2, <2>4, Zenon
        <4>2. G[t] = F[t] /\ G[t \ {Max(t)}] = F[t \ {Max(t)}]
              BY <3>3, <4>1, Zenon
        <4>3. F[t] = step[Max(t)][F[t \ {Max(t)}]]
              BY <3>3, <4>1, <2>1, Zenon DEF Folds
        <4> QED
              BY <3>3, <4>2, <4>3, Zenon
      <3> QED
          BY <3>1, <3>2, <3>3, Zenon
    <2>6. k \in 0..n
          OBVIOUS
    <2> HIDE DEF G
    <2> QED
          BY <2>3, <2>5, <2>6, Zenon
  <1>3. \A i \in 0..n : i \in P
    <2> HIDE DEF P
    <2> QED
        BY <1>1, <1>2, Induction, Zenon
  <1>4. n \in 0..n
        OBVIOUS
  <1> QED
        BY <1>3, <1>4, Zenon

(***************************************************************************)
(* What a fold has computed after each position.                           *)
(***************************************************************************)
Runs(run, T, n, b, step) ==
  /\ run \in [0..n -> T]
  /\ run[0] = b
  /\ \A i \in 1..n : run[i] = step[i][run[i - 1]]

\* The fold ends with v.
Reaches(T, n, b, step, v) == \E run : Runs(run, T, n, b, step) /\ run[n] = v

\* What the recursive function of a fold satisfies, wherever its results are
\* in T.
FoldsIn(iter, T, n, b, step) ==
  /\ iter[{}] = b
  /\ \A t \in SUBSET (1..n) :
       t # {} /\ iter[t \ {Max(t)}] \in T => iter[t] = step[Max(t)][iter[t \ {Max(t)}]]

(***************************************************************************)
(* A function that computes with sets of positions as FoldLeft does, as    *)
(* long as its results have the type of the steps, has them.               *)
(***************************************************************************)
LEMMA FoldRuns ==
  ASSUME NEW n \in Nat, NEW T, NEW b \in T, NEW step \in [1..n -> [T -> T]], NEW iter,
         FoldsIn(iter, T, n, b, step)
  PROVE  Reaches(T, n, b, step, iter[1..n])
  <1> DEFINE P == {k \in 0..n : iter[1..k] \in T}
             run == [i \in 0..n |-> iter[1..i]]
  <1>1. 0 \in 0..n /\ n \in 0..n /\ 1..0 = {}
        OBVIOUS
  <1>2. 0 \in P
        BY <1>1, Zenon DEF FoldsIn
  <1>3. ASSUME NEW i \in 1..n, iter[1..(i - 1)] \in T
        PROVE  iter[1..i] = step[i][iter[1..(i - 1)]] /\ iter[1..i] \in T
    <2>1. 1..i \in SUBSET (1..n) /\ i \in Nat \ {0}
          OBVIOUS
    <2>2. 1..i # {} /\ Max(1..i) = i /\ (1..i) \ {Max(1..i)} = 1..(i - 1)
          BY <2>1, MaxOfPrefix, Zenon
    <2>3. iter[1..i] = step[i][iter[1..(i - 1)]]
          BY <1>3, <2>1, <2>2, Zenon DEF FoldsIn
    <2>4. step[i] \in [T -> T]
          BY Zenon
    <2> QED
          BY <1>3, <2>3, <2>4, Zenon
  <1>4. ASSUME NEW i \in 1..n, i - 1 \in P PROVE i \in P
    <2>1. i \in 0..n
          OBVIOUS
    <2> QED
          BY <1>3, <1>4, <2>1, Zenon
  <1>5. \A i \in 0..n : i \in P
    <2> HIDE DEF P
    <2> QED
        BY <1>2, <1>4, Induction, Zenon
  <1>6. run \in [0..n -> T] /\ run[0] = b /\ run[n] = iter[1..n]
        BY <1>1, <1>5, Zenon DEF FoldsIn
  <1>7. ASSUME NEW i \in 1..n PROVE run[i] = step[i][run[i - 1]]
    <2>1. i \in 0..n /\ i - 1 \in 0..n
          OBVIOUS
    <2> QED
          BY <1>3, <1>5, <2>1, Zenon
  <1> HIDE DEF run
  <1> QED
        BY <1>6, <1>7, Zenon DEF Runs, Reaches

(***************************************************************************)
(* Two folds that take the same steps up to n agree up to n.               *)
(***************************************************************************)
LEMMA RunsAgree ==
  ASSUME NEW n \in Nat, NEW m \in Nat, n <= m, NEW T, NEW b, NEW step, NEW other,
         \A i \in 1..n : step[i] = other[i],
         NEW run, NEW more, Runs(run, T, n, b, step), Runs(more, T, m, b, other)
  PROVE  \A i \in 0..n : run[i] = more[i]
  <1> DEFINE P == {i \in 0..n : run[i] = more[i]}
  <1>1. 0 \in P
    <2>1. 0 \in 0..n
          OBVIOUS
    <2> QED
          BY <2>1, Zenon DEF Runs
  <1>2. ASSUME NEW i \in 1..n, i - 1 \in P PROVE i \in P
    <2>1. i \in 0..n /\ i \in 1..m
          OBVIOUS
    <2>2. run[i] = step[i][run[i - 1]] /\ more[i] = other[i][more[i - 1]]
          BY <2>1, Zenon DEF Runs
    <2> QED
          BY <1>2, <2>1, <2>2, Zenon
  <1>3. \A i \in 0..n : i \in P
    <2> HIDE DEF P
    <2> QED
        BY <1>1, <1>2, Induction, Zenon
  <1> QED
        BY <1>3, Zenon

(***************************************************************************)
(* Induction over sequences.                                               *)
(***************************************************************************)
LEMMA SeqInduction ==
  ASSUME NEW S, NEW P, <<>> \in P, \A s \in Seq(S), x \in S : s \in P => Append(s, x) \in P
  PROVE  \A s \in Seq(S) : s \in P
  <1> DEFINE Q == {n \in Nat : \A s \in Seq(S) : Len(s) = n => s \in P}
  <1>1. 0 \in Q
    <2>1. \A s \in Seq(S) : Len(s) = 0 => s = <<>>
          OBVIOUS
    <2>2. 0 \in Nat
          OBVIOUS
    <2> QED
          BY <2>1, <2>2, Zenon
  <1>2. ASSUME NEW s \in Seq(S) PROVE s \in P
    <2>1. Len(s) \in Nat
          OBVIOUS
    <2> DEFINE n == Len(s)
    <2> HIDE DEF n
    <2>2. ASSUME NEW i \in 1..n, i - 1 \in Q PROVE i \in Q
      <3>1. ASSUME NEW u \in Seq(S), Len(u) = i PROVE u \in P
        <4>1. u # <<>>
              BY <3>1
        <4>2. PICK v \in Seq(S), x \in S : u = Append(v, x)
              BY <4>1, LastAppended, Zenon
        <4>3. Len(v) = i - 1
              BY <3>1, <4>2
        <4> QED
              BY <2>2, <4>2, <4>3, Zenon
      <3>2. i \in Nat
            OBVIOUS
      <3> QED
            BY <3>1, <3>2, Zenon
    <2>3. n \in Nat
          BY <2>1, Zenon DEF n
    <2>4. \A i \in 0..n : i \in Q
      <3> HIDE DEF Q
      <3> QED
          BY <1>1, <2>2, <2>3, Induction, Zenon
    <2>5. n \in 0..n
          BY <2>3
    <2> QED
          BY <2>4, <2>5, Zenon DEF n
  <1> QED
        BY <1>2, Zenon

-----------------------------------------------------------------------------
(***************************************************************************)
(* Keep, step by step.                                                     *)
(***************************************************************************)
KeepStep(V, s, K) ==
  [i \in 1..Len(s) |-> [kept \in Seq(V) |-> IF s[i] \in K THEN Append(kept, s[i]) ELSE kept]]

(***************************************************************************)
(* Keep is a fold, one step for each member.                               *)
(***************************************************************************)
LEMMA KeepRuns ==
  ASSUME NEW V, NEW K, NEW s \in Seq(V)
  PROVE  Reaches(Seq(V), Len(s), <<>>, KeepStep(V, s, K), Keep(s, K))
  <1> DEFINE n == Len(s)
             step == KeepStep(V, s, K)
             Iter(F) == F = [t \in SUBSET DOMAIN s |->
                               IF t = {} THEN <<>>
                               ELSE IF s[Max(t)] \in K THEN Append(F[t \ {Max(t)}], s[Max(t)])
                               ELSE F[t \ {Max(t)}]]
             iter == CHOOSE F : Iter(F)
  <1>1. n \in Nat /\ DOMAIN s = 1..n /\ <<>> \in Seq(V)
        OBVIOUS
  <1>2. step \in [1..n -> [Seq(V) -> Seq(V)]]
    <2>1. \A i \in 1..n : \A kept \in Seq(V) : Append(kept, s[i]) \in Seq(V)
          OBVIOUS
    <2> QED
        BY <2>1, Zenon DEF KeepStep
  <1>3. ASSUME NEW i \in 1..n, NEW kept \in Seq(V)
        PROVE  step[i][kept] = IF s[i] \in K THEN Append(kept, s[i]) ELSE kept
        BY Zenon DEF KeepStep
  <1> HIDE DEF n, step
  <1>4. ASSUME NEW t \in SUBSET (1..n), t # {} PROVE Max(t) \in 1..n
    <2>1. t \in SUBSET (0..n)
          BY <1>1
    <2> QED
          BY <1>1, <1>4, <2>1, MaxIs, Zenon
  <1>5. PICK F \in [SUBSET (1..n) -> Seq(V)] : Folds(F, n, <<>>, step)
        BY <1>1, <1>2, FoldExists, Zenon
  <1>6. Iter(F)
    <2>1. ASSUME NEW t \in SUBSET (1..n)
          PROVE  F[t] = IF t = {} THEN <<>>
                        ELSE IF s[Max(t)] \in K THEN Append(F[t \ {Max(t)}], s[Max(t)])
                        ELSE F[t \ {Max(t)}]
      <3>1. CASE t = {}
            BY <1>5, <3>1, Zenon DEF Folds
      <3>2. CASE t # {}
        <4>1. F[t] = step[Max(t)][F[t \ {Max(t)}]]
              BY <1>5, <3>2, Zenon DEF Folds
        <4>2. t \ {Max(t)} \in SUBSET (1..n)
              BY Zenon
        <4> QED
              BY <1>3, <1>4, <3>2, <4>1, <4>2, Zenon
      <3> QED
          BY <3>1, <3>2, Zenon
    <2> QED
        BY <1>1, <2>1, Zenon
  <1>7. Iter(iter)
    <2> HIDE DEF Iter
    <2> QED
        BY <1>6, Zenon
  <1>8. Keep(s, K) = iter[1..n]
        BY <1>1, Zenon DEF Keep, FoldLeft, MapThenFoldSet
  <1>9. iter[{}] = <<>>
        BY <1>7, Zenon
  <1>10. ASSUME NEW t \in SUBSET (1..n), t # {}, iter[t \ {Max(t)}] \in Seq(V)
         PROVE  iter[t] = step[Max(t)][iter[t \ {Max(t)}]]
    <2>1. iter[t] = IF s[Max(t)] \in K THEN Append(iter[t \ {Max(t)}], s[Max(t)]) ELSE iter[t \ {Max(t)}]
          BY <1>1, <1>7, <1>10, Zenon
    <2> HIDE DEF iter
    <2> QED
          BY <1>3, <1>4, <1>10, <2>1, Zenon
  <1> HIDE DEF iter
  <1>11. FoldsIn(iter, Seq(V), n, <<>>, step)
         BY <1>9, <1>10, Zenon DEF FoldsIn
  <1>12. Reaches(Seq(V), n, <<>>, step, iter[1..n])
         BY <1>1, <1>2, <1>11, FoldRuns, Zenon
  <1> QED
        BY <1>8, <1>12, Zenon DEF n, step

(***************************************************************************)
(* Keep by the last member of the sequence.                                *)
(***************************************************************************)
LEMMA KeepEmpty == \A K : Keep(<<>>, K) = <<>>
  <1> SUFFICES ASSUME NEW K PROVE Keep(<<>>, K) = <<>>
      BY Zenon
  <1>1. <<>> \in Seq({}) /\ Len(<<>>) = 0
        OBVIOUS
  <1>2. PICK run : Runs(run, Seq({}), Len(<<>>), <<>>, KeepStep({}, <<>>, K)) /\ Keep(<<>>, K) = run[Len(<<>>)]
        BY <1>1, KeepRuns, Zenon DEF Reaches
  <1> QED
        BY <1>1, <1>2, Zenon DEF Runs

(***************************************************************************)
(* Keep appends a new last member if it is one to keep.                    *)
(***************************************************************************)
LEMMA KeepAppend ==
  ASSUME NEW V, NEW K, NEW s \in Seq(V), NEW x \in V
  PROVE  /\ Keep(s, K) \in Seq(V)
         /\ Keep(Append(s, x), K) = IF x \in K THEN Append(Keep(s, K), x) ELSE Keep(s, K)
  <1> DEFINE n == Len(s)
             u == Append(s, x)
             step == KeepStep(V, s, K)
             other == KeepStep(V, u, K)
  <1>1. /\ u \in Seq(V) /\ Len(u) = n + 1 /\ n \in Nat /\ n + 1 \in Nat /\ n <= n + 1 /\ n \in 0..n
        /\ n + 1 \in 1..(n + 1) /\ (n + 1) - 1 = n
        OBVIOUS
  <1>2. u[n + 1] = x /\ \A i \in 1..n : i \in 1..(n + 1) /\ u[i] = s[i]
        OBVIOUS
  <1> HIDE DEF u
  <1>3. PICK run : Runs(run, Seq(V), n, <<>>, step) /\ Keep(s, K) = run[n]
        BY KeepRuns, Zenon DEF Reaches
  <1>4. PICK more : Runs(more, Seq(V), n + 1, <<>>, other) /\ Keep(u, K) = more[n + 1]
        BY <1>1, KeepRuns, Zenon DEF Reaches
  <1>5. \A i \in 1..n : step[i] = other[i]
        BY <1>1, <1>2, Zenon DEF KeepStep
  <1>6. other[n + 1] = [kept \in Seq(V) |-> IF x \in K THEN Append(kept, x) ELSE kept]
        BY <1>1, <1>2, Zenon DEF KeepStep
  <1> HIDE DEF n, step, other
  <1>7. run[n] = more[n]
    <2>1. \A i \in 0..n : run[i] = more[i]
          BY <1>1, <1>3, <1>4, <1>5, RunsAgree
    <2> QED
          BY <1>1, <2>1, Zenon
  <1>8. run[n] \in Seq(V)
        BY <1>1, <1>3, Zenon DEF Runs
  <1>9. more[n + 1] = other[n + 1][more[n]]
        BY <1>1, <1>4, Zenon DEF Runs
  <1> QED
        BY <1>3, <1>4, <1>6, <1>7, <1>8, <1>9, Zenon DEF u

(***************************************************************************)
(* What it keeps is what it should.                                        *)
(***************************************************************************)
LEMMA SetOfAppend ==
  ASSUME NEW V, NEW s \in Seq(V), NEW x \in V
  PROVE  ToSet(Append(s, x)) = ToSet(s) \cup {x}
  <1> DEFINE n == Len(s)
             u == Append(s, x)
  <1>1. n \in Nat /\ DOMAIN s = 1..n /\ DOMAIN u = 1..(n + 1) /\ u[n + 1] = x /\ \A i \in 1..n : u[i] = s[i]
        OBVIOUS
  <1> HIDE DEF n, u
  <1>2. 1..(n + 1) = (1..n) \cup {n + 1}
        BY <1>1
  <1> QED
        BY <1>1, <1>2, Zenon DEF ToSet, u

(***************************************************************************)
(* Keep keeps the members that are in K and no others.                     *)
(***************************************************************************)
LEMMA KeepSet ==
  ASSUME NEW V, NEW K, NEW s \in Seq(V)
  PROVE  Keep(s, K) \in Seq(V) /\ ToSet(Keep(s, K)) = ToSet(s) \cap K
  <1> DEFINE P == {u \in Seq(V) : Keep(u, K) \in Seq(V) /\ ToSet(Keep(u, K)) = ToSet(u) \cap K}
  <1>1. <<>> \in P
    <2>1. <<>> \in Seq(V) /\ DOMAIN <<>> = {}
          OBVIOUS
    <2>2. ToSet(<<>>) = {}
          BY <2>1, Zenon DEF ToSet
    <2> QED
        BY <2>1, <2>2, KeepEmpty, Zenon
  <1>2. ASSUME NEW u \in Seq(V), NEW x \in V, u \in P PROVE Append(u, x) \in P
    <2>1. Append(u, x) \in Seq(V)
          OBVIOUS
    <2>2. ToSet(Append(u, x)) = ToSet(u) \cup {x}
          BY SetOfAppend
    <2>3. CASE x \in K
      <3>1. Keep(Append(u, x), K) = Append(Keep(u, K), x) /\ Keep(u, K) \in Seq(V)
            BY <2>3, KeepAppend, Zenon
      <3>2. ToSet(Append(Keep(u, K), x)) = ToSet(Keep(u, K)) \cup {x}
            BY <3>1, SetOfAppend
      <3>3. Append(Keep(u, K), x) \in Seq(V)
            BY <3>1, AppendParts, Zenon
      <3> QED
            BY <1>2, <2>1, <2>2, <2>3, <3>1, <3>2, <3>3, Zenon
    <2>4. CASE x \notin K
      <3>1. Keep(Append(u, x), K) = Keep(u, K)
            BY <2>4, KeepAppend
      <3> QED
            BY <1>2, <2>1, <2>2, <2>4, <3>1, Zenon
    <2> QED
        BY <2>3, <2>4, Zenon
  <1>3. \A u \in Seq(V) : u \in P
    <2> HIDE DEF P
    <2> QED
        BY <1>1, <1>2, SeqInduction, Zenon
  <1> QED
        BY <1>3, Zenon

(***************************************************************************)
(* Keep only depends on which of the members are to be kept.               *)
(***************************************************************************)
LEMMA KeepSame ==
  ASSUME NEW V, NEW K, NEW M, NEW s \in Seq(V), \A x \in ToSet(s) : x \in K <=> x \in M
  PROVE  Keep(s, K) = Keep(s, M)
  <1> DEFINE P == {u \in Seq(V) : (\A x \in ToSet(u) : x \in K <=> x \in M) => Keep(u, K) = Keep(u, M)}
  <1>1. <<>> \in P
    <2>1. <<>> \in Seq(V)
          OBVIOUS
    <2> QED
        BY <2>1, KeepEmpty, Zenon
  <1>2. ASSUME NEW u \in Seq(V), NEW x \in V, u \in P PROVE Append(u, x) \in P
    <2>1. Append(u, x) \in Seq(V) /\ ToSet(Append(u, x)) = ToSet(u) \cup {x}
          BY SetOfAppend
    <2>2. Keep(Append(u, x), K) = IF x \in K THEN Append(Keep(u, K), x) ELSE Keep(u, K)
          BY KeepAppend
    <2>3. Keep(Append(u, x), M) = IF x \in M THEN Append(Keep(u, M), x) ELSE Keep(u, M)
          BY KeepAppend
    <2>4. ASSUME \A y \in ToSet(Append(u, x)) : y \in K <=> y \in M
          PROVE  Keep(Append(u, x), K) = Keep(Append(u, x), M)
      <3>1. (x \in K <=> x \in M) /\ Keep(u, K) = Keep(u, M)
            BY <1>2, <2>1, <2>4, Zenon
      <3>2. CASE x \in K
            BY <2>2, <2>3, <3>1, <3>2, Zenon
      <3>3. CASE x \notin K
            BY <2>2, <2>3, <3>1, <3>3, Zenon
      <3> QED
          BY <3>2, <3>3, Zenon
    <2> QED
        BY <2>1, <2>4, Zenon
  <1>3. \A u \in Seq(V) : u \in P
    <2> HIDE DEF P
    <2> QED
        BY <1>1, <1>2, SeqInduction, Zenon
  <1> QED
        BY <1>3, Zenon

(***************************************************************************)
(* A greatest member of a bounded set of numbers is its Max.               *)
(***************************************************************************)
LEMMA MaxUnique ==
  ASSUME NEW n \in Nat, NEW S \in SUBSET (0..n), NEW m \in S, \A j \in S : j <= m
  PROVE  Max(S) = m
  <1>1. Max(S) \in S /\ \A j \in S : j <= Max(S)
        BY MaxIs, Zenon
  <1> DEFINE k == Max(S)
  <1> HIDE DEF k
  <1>2. k \in 0..n /\ m \in 0..n /\ k <= m /\ m <= k
        BY <1>1, Zenon DEF k
  <1>3. k = m
        BY <1>2
  <1> QED
        BY <1>3, Zenon DEF k

(***************************************************************************)
(* A least member of a set of numbers is its Min.                          *)
(***************************************************************************)
LEMMA MinUnique ==
  ASSUME NEW S \in SUBSET Nat, NEW m \in S, \A j \in S : m <= j
  PROVE  Min(S) = m
  <1>1. Min(S) \in S /\ \A j \in S : Min(S) <= j
        BY MinIs, Zenon
  <1> DEFINE k == Min(S)
  <1> HIDE DEF k
  <1>2. k \in Nat /\ m \in Nat /\ k <= m /\ m <= k
        BY <1>1, Zenon DEF k
  <1>3. k = m
        BY <1>2
  <1> QED
        BY <1>3, Zenon DEF k

(***************************************************************************)
(* A suffix of Append(u, x) is Append of the suffix of u.                  *)
(***************************************************************************)
LEMMA SuffixAppend ==
  ASSUME NEW S, NEW u \in Seq(S), NEW x \in S, NEW k \in 0..Len(u)
  PROVE  SubSeq(Append(u, x), k + 1, Len(u) + 1) = Append(SubSeq(u, k + 1, Len(u)), x)
  <1> DEFINE n == Len(u)
             v == Append(u, x)
             a == SubSeq(v, k + 1, n + 1)
             c == SubSeq(u, k + 1, n)
             b == Append(c, x)
  <1>1. n \in Nat /\ k \in 0..n /\ v \in Seq(S) /\ Len(v) = n + 1 /\ v[n + 1] = x /\ \A i \in 1..n : v[i] = u[i]
        OBVIOUS
  <1> HIDE DEF v
  <1>2. a \in Seq(S) /\ Len(a) = n + 1 - k /\ \A i \in 1..(n + 1 - k) : a[i] = v[k + i]
        BY <1>1
  <1>3. c \in Seq(S) /\ Len(c) = n - k /\ \A i \in 1..(n - k) : c[i] = u[k + i]
        OBVIOUS
  <1> HIDE DEF a, c
  <1>4. b \in Seq(S) /\ Len(b) = n - k + 1 /\ b[n - k + 1] = x /\ \A i \in 1..(n - k) : b[i] = c[i]
        BY <1>3
  <1> HIDE DEF b, n
  <1>5. \A i \in 1..Len(a) : a[i] = b[i]
    <2> TAKE i \in 1..Len(a)
    <2>1. CASE i = n + 1 - k
      <3>1. k + i = n + 1 /\ i = n - k + 1 /\ i \in 1..(n + 1 - k)
            BY <1>1, <2>1
      <3> QED
            BY <1>1, <1>2, <1>4, <3>1, Zenon
    <2>2. CASE i # n + 1 - k
      <3>1. i \in 1..(n - k) /\ i \in 1..(n + 1 - k) /\ k + i \in 1..n
            BY <1>1, <1>2, <2>2
      <3> QED
            BY <1>1, <1>2, <1>3, <1>4, <3>1, Zenon
    <2> QED
        BY <2>1, <2>2, Zenon
  <1>6. Len(a) = Len(b)
        BY <1>1, <1>2, <1>4
  <1>7. a = b
        BY <1>2, <1>4, <1>5, <1>6, SameSeq
  <1> QED
        BY <1>7, Zenon DEF a, b, c, n, v

(***************************************************************************)
(* A sequence without members is empty.                                    *)
(***************************************************************************)
LEMMA NoMembers ==
  ASSUME NEW S, NEW s \in Seq(S), ToSet(s) = {}
  PROVE  s = <<>>
  <1>1. CASE Len(s) = 0
        BY <1>1
  <1>2. CASE Len(s) # 0
    <2>1. 1 \in DOMAIN s
          BY <1>2
    <2> QED
        BY <2>1, Zenon DEF ToSet
  <1> QED
      BY <1>1, <1>2, Zenon

=============================================================================
