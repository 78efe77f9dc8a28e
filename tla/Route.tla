-------------------------------- MODULE Route --------------------------------
(***************************************************************************)
(* proxy.Route (proxy/route.go) as the parser fills it in and the request  *)
(* path reads it: a record of domains, upstreams, header rules, error      *)
(* mappings, provider, redirect and subject.  The lists are sequences.     *)
(* Headers of a response are a function from names to lists of values; a   *)
(* value is a sequence of words.                                           *)
(***************************************************************************)
EXTENDS Lists

\* The position of the first mapping for a status, 0 if there is none.
ErrorMappingForStatus(route, status) ==
  SelectInSeq(route.errors, LAMBDA m : m.status = status)

\* Mutant: a default overrides what the upstream sent.
OverridingRule(values, rule) ==
  IF rule.op = "delete" THEN <<>> ELSE IF rule.op = "add" THEN Append(values, rule.value) ELSE <<rule.value>>

\* One header rule on the values of its header; a header whose first value
\* is empty counts as not set.
ApplyRule(values, rule) ==
  CASE rule.op = "delete"  -> <<>>
    [] rule.op = "add"     -> Append(values, rule.value)
    [] rule.op = "replace" -> <<rule.value>>
    [] rule.op = "default" -> IF values = <<>> \/ Head(values) = <<>> THEN <<rule.value>> ELSE values

\* Rewriter.rewriteHeaders: the rules of the route in order.
RewriteHeader(headers, rule) == [headers EXCEPT ![rule.name] = ApplyRule(@, rule)]

RewriteHeaders(rules, headers) == FoldLeft(RewriteHeader, headers, rules)

(***************************************************************************)
(* What is left of a header: the last rule that deletes or replaces it     *)
(* makes all before it irrelevant; after it a default counts only if       *)
(* nothing is set, and what is added later comes behind.                   *)
(***************************************************************************)
RulesFor(rules, name) == Keep(rules, {r \in ToSet(rules) : r.name = name})

LastReset(rules) == Max({0} \cup {i \in DOMAIN rules : rules[i].op \in {"delete", "replace"}})

Base(rules, values) ==
  LET k == LastReset(rules)
  IN IF k = 0 THEN values ELSE IF rules[k].op = "delete" THEN <<>> ELSE <<rules[k].value>>

\* The rules that set the header if the base does not.
Setters(rules, base) ==
  {i \in DOMAIN rules : i > LastReset(rules) /\ (rules[i].op = "default" \/ (rules[i].op = "add" /\ base = <<>>))}

AddedAfter(rules, j) ==
  LET adds == Keep(SubSeq(rules, j + 1, Len(rules)), {r \in ToSet(rules) : r.op = "add"})
  IN [i \in DOMAIN adds |-> adds[i].value]

HeaderAfter(rules, values) ==
  LET base    == Base(rules, values)
      setters == Setters(rules, base)
  IN IF (base # <<>> /\ Head(base) # <<>>) \/ setters = {} THEN base \o AddedAfter(rules, LastReset(rules))
     ELSE <<rules[Min(setters)].value>> \o AddedAfter(rules, Min(setters))
=============================================================================
