-------------------------------- MODULE Lists --------------------------------
(***************************************************************************)
(* Loops over lists as the code writes them: a fold, a search for the      *)
(* first match and a filter that appends what it keeps.  They agree with   *)
(* the operators of SequencesExt that have their names; the provers handle *)
(* a module several times faster when it does not extend that one.         *)
(***************************************************************************)
EXTENDS Naturals, Sequences, FiniteSetsExt

\* The lists of at most n members of S.
UpTo(n, S) == UNION {[1..k -> S] : k \in 0..n}

ToSet(s) == {s[i] : i \in DOMAIN s}

\* op applied to the result so far and each member in turn.
FoldLeft(op(_, _), base, s) ==
  MapThenFoldSet(LAMBDA x, acc : op(acc, x), base, LAMBDA i : s[i], LAMBDA S : Max(S), DOMAIN s)

\* The first position whose member passes, 0 if none does.
SelectInSeq(s, Test(_)) ==
  LET I == {i \in 1..Len(s) : Test(s[i])} IN IF I # {} THEN Min(I) ELSE 0

\* The list without the member at i.
RemoveAt(s, i) == SubSeq(s, 1, i - 1) \o SubSeq(s, i + 1, Len(s))

\* The members of s that are in K, in their order.
Keep(s, K) == FoldLeft(LAMBDA kept, x : IF x \in K THEN Append(kept, x) ELSE kept, <<>>, s)

\* The members of the members of ss.
Flatten(ss) == FoldLeft(LAMBDA joined, s : joined \o s, <<>>, ss)
=============================================================================
