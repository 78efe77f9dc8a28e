----------------------------- MODULE DomainNames -----------------------------
(***************************************************************************)
(* Names of routes and certificates: isDomainName (proxy/domains.go) and   *)
(* the wildcards of certificate.WildcardResolver (certificate/wildcards.go)*)
(*                                                                         *)
(* isDomainName works on characters, of which only the class matters:      *)
(* letter (or underscore), digit, dash, dot and other.  The limits of 63   *)
(* and 253 characters are the constants MaxLabel and MaxName.  Wildcards   *)
(* work on names as sequences of labels.                                   *)
(***************************************************************************)
EXTENDS Lists

CONSTANTS
  MaxLabel,  \* the longest label
  MaxName    \* the longest name, without a final dot

ASSUME NameAssumption == MaxLabel \in Nat \ {0} /\ MaxName \in Nat \ {0}

Classes == {"letter", "digit", "dash", "dot", "other"}

Unread == [ok |-> TRUE, last |-> "dot", nonNumeric |-> FALSE, partlen |-> 0]

\* The loop returns false at character c ...
Rejects(st, c) ==
  \/ c = "other"
  \/ c = "dash" /\ st.last = "dot"
  \/ c = "dot" /\ (st.last \in {"dot", "dash"} \/ st.partlen > MaxLabel \/ st.partlen = 0)

\* ... or goes on.
ReadChar(st, c) ==
  IF ~st.ok \/ Rejects(st, c) THEN [st EXCEPT !.ok = FALSE]
  ELSE [ok |-> TRUE, last |-> c, nonNumeric |-> st.nonNumeric \/ c \in {"letter", "dash"},
        partlen |-> IF c = "dot" THEN 0 ELSE st.partlen + 1]

\* Mutant: the last label may have any length.
AnyLastLabel(s) ==
  LET end == FoldLeft(ReadChar, Unread, s) IN
  /\ s # <<>> /\ Len(s) <= MaxName + 1
  /\ Len(s) = MaxName + 1 => s[Len(s)] = "dot"
  /\ end.ok /\ end.nonNumeric /\ end.last # "dash"

IsDomainName(s) ==
  LET end == FoldLeft(ReadChar, Unread, s) IN
  /\ s # <<>> /\ Len(s) <= MaxName + 1
  /\ Len(s) = MaxName + 1 => s[Len(s)] = "dot"
  /\ end.ok /\ end.nonNumeric
  /\ end.last # "dash" /\ end.partlen <= MaxLabel

(***************************************************************************)
(* The same by labels: an optional final dot is dropped, the rest is not   *)
(* too long, and between its dots are labels of the right length and       *)
(* characters that neither begin nor end with a dash; not all of it is     *)
(* numbers.                                                                *)
(***************************************************************************)
ByLabels(s) ==
  LET n == IF s # <<>> /\ s[Len(s)] = "dot" THEN Len(s) - 1 ELSE Len(s)
      Edges == {0, n + 1} \cup {i \in 1..n : s[i] = "dot"}
  IN /\ n \in 1..MaxName
     /\ \A i \in 1..n : s[i] # "other"
     /\ \E i \in 1..n : s[i] \in {"letter", "dash"}
     /\ \A i, j \in Edges :
          i < j /\ (\A k \in Edges : k <= i \/ k >= j) =>
            /\ j - i - 1 \in 1..MaxLabel
            /\ s[i + 1] # "dash" /\ s[j - 1] # "dash"

-----------------------------------------------------------------------------
(***************************************************************************)
(* Wildcards.  An option is a name, with a dot before it or not, or empty. *)
(***************************************************************************)
NewWildcards(options) == Keep(options, ToSet(options) \ {<<>>})

\* Mutant: any number of labels may stand before the wildcard domain.
ApplyDeepWildcard(ws, d) ==
  LET hit == SelectInSeq(ws, LAMBDA w : Len(d) > Len(w) /\ SubSeq(d, Len(d) - Len(w) + 1, Len(d)) = w)
  IN IF hit = 0 THEN d ELSE <<"*">> \o ws[hit]

\* The first wildcard domain that leaves exactly one label.
ApplyWildcard(ws, d) ==
  LET hit == SelectInSeq(ws, LAMBDA w : Len(d) = Len(w) + 1 /\ Tail(d) = w)
  IN IF hit = 0 THEN d ELSE <<"*">> \o ws[hit]

ApplyWildcards(ws, ds) == [i \in DOMAIN ds |-> ApplyWildcard(ws, ds[i])]

\* What a certificate for a name is good for.
Covers(name, d) == name = d \/ (name # <<>> /\ d # <<>> /\ name[1] = "*" /\ Tail(name) = Tail(d))

\* The wildcard of d if d is one level below a configured domain, else d.
NameFor(options, d) ==
  IF \E w \in ToSet(options) : w # <<>> /\ d = <<Head(d)>> \o w THEN <<"*">> \o Tail(d) ELSE d
=============================================================================
