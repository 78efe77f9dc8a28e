---------------------------- MODULE ConfigParser ----------------------------
(***************************************************************************)
(* config.Parse (config/parser.go): one pass over the lines of a file that *)
(* stops at the first error.                                               *)
(*                                                                         *)
(* A line is a directive in lower case with its arguments, as words.  The  *)
(* arguments of on_error are a status, 0 if it is no number, and a target  *)
(* of host and path: "none", "plain", or "invalid" if it is refused.       *)
(***************************************************************************)
EXTENDS Route

Line(directive, args) == [directive |-> directive, args |-> args]

NewRoute(ds) ==
  [domains |-> ds, upstreams |-> <<>>, headers |-> <<>>, errors |-> <<>>,
   provider |-> <<>>, redirect |-> FALSE, subject |-> <<>>]

(***************************************************************************)
(* The state of the pass: the finished routes, the current one (in a       *)
(* sequence, empty before the first route line), the position of the       *)
(* fallback, 0 for none, and whether there was an error.                   *)
(***************************************************************************)
Initial == [routes |-> <<>>, current |-> <<>>, fallback |-> 0, error |-> FALSE]

Error(st) == [Initial EXCEPT !.error = TRUE]

\* The line belongs to the current route, which it changes to route.
Change(st, route) == [st EXCEPT !.current = <<route>>]

\* The current route is complete.
Finish(st) ==
  IF st.current = <<>> THEN st
  ELSE IF st.current[1].upstreams = <<>> THEN Error(st)
  ELSE [st EXCEPT !.routes = @ \o st.current, !.current = <<>>]

\* parseHeader: an operation, a name and, but for delete, a value of any
\* number of words.
ParseHeader(st, route, args) ==
  IF \/ Len(args) = 2 /\ args[1] = "delete"
     \/ Len(args) >= 3 /\ args[1] \in {"add", "replace", "default"}
  THEN Change(st, [route EXCEPT !.headers =
                     Append(@, [op |-> args[1], name |-> args[2], value |-> SubSeq(args, 3, Len(args))])])
  ELSE Error(st)

\* parseOnError
ParseOnError(st, route, args) ==
  IF /\ Len(args) = 2
     /\ args[1] \in 400..599
     /\ args[2].host # ""
     /\ args[2].path # "invalid"
  THEN Change(st, [route EXCEPT !.errors =
                     Append(@, [status |-> args[1], upstream |-> args[2].host, path |-> args[2].path])])
  ELSE Error(st)

\* Mutant: the latest fallback counts.
SetLastFallback(st) == [st EXCEPT !.fallback = Len(st.routes) + 1]

SetFallback(st) ==
  IF st.fallback # 0 THEN Error(st) ELSE [st EXCEPT !.fallback = Len(st.routes) + 1]

\* A directive within a route.  A provider without argument sets nothing.
Directive(st, route, line) ==
  CASE line.directive = "upstream" ->
         Change(st, [route EXCEPT !.upstreams = Append(@, line.args)])
    [] line.directive = "header" ->
         ParseHeader(st, route, line.args)
    [] line.directive = "on_error" ->
         ParseOnError(st, route, line.args)
    [] line.directive = "provider" ->
         IF route.provider # <<>> THEN Error(st) ELSE Change(st, [route EXCEPT !.provider = line.args])
    [] line.directive = "fallback" ->
         SetFallback(st)
    [] line.directive = "redirect-to-primary" ->
         IF route.redirect \/ Len(route.domains) < 2 THEN Error(st)
         ELSE Change(st, [route EXCEPT !.redirect = TRUE])
    [] line.directive = "subject" ->
         IF line.args = <<>> THEN Error(st) ELSE Change(st, [route EXCEPT !.subject = @ \o line.args])
    [] OTHER -> Error(st)

ReadLine(st, line) ==
  IF st.error \/ line.directive \in {"#", ""} THEN st
  ELSE IF line.directive = "route"
  THEN LET done == Finish(st) IN
       IF line.args = <<>> \/ done.error THEN Error(st) ELSE Change(done, NewRoute(line.args))
  ELSE IF st.current = <<>> THEN Error(st)
  ELSE Directive(st, st.current[1], line)

Parse(file) == Finish(FoldLeft(ReadLine, Initial, file))

-----------------------------------------------------------------------------
(***************************************************************************)
(* The format by the blocks of a file, as docs/routes.md describes it: a   *)
(* block is a route line with the lines up to the next one.                *)
(***************************************************************************)
Heads(file) == {i \in DOMAIN file : file[i].directive = "route"}

Block(file, h) ==
  LET next == {k \in Heads(file) : k > h}
  IN SubSeq(file, h, IF next = {} THEN Len(file) ELSE Min(next) - 1)

Blocks(file) ==
  LET hs == Keep([i \in DOMAIN file |-> i], Heads(file)) IN [j \in DOMAIN hs |-> Block(file, hs[j])]

\* The arguments of the lines with a directive.
ArgsOf(lines, directive) ==
  LET ls == Keep(lines, {l \in ToSet(lines) : l.directive = directive}) IN [i \in DOMAIN ls |-> ls[i].args]

GoodHeader(args) ==
  /\ args # <<>>
  /\ args[1] \in {"add", "replace", "default", "delete"}
  /\ IF args[1] = "delete" THEN Len(args) = 2 ELSE Len(args) > 2

GoodOnError(args) ==
  /\ Len(args) = 2 /\ args[1] \in 400..599
  /\ args[2].host # "" /\ args[2].path # "invalid"

\* Only the last of the provider lines may name one.
GoodProviders(ps) == \A i \in DOMAIN ps : i < Len(ps) => ps[i] = <<>>

GoodLines(block) ==
  /\ block[1].args # <<>>
  /\ \A args \in ToSet(ArgsOf(block, "header"))   : GoodHeader(args)
  /\ \A args \in ToSet(ArgsOf(block, "on_error")) : GoodOnError(args)
  /\ \A args \in ToSet(ArgsOf(block, "subject"))  : args # <<>>
  /\ GoodProviders(ArgsOf(block, "provider"))
  /\ Len(ArgsOf(block, "redirect-to-primary")) \in (IF Len(block[1].args) > 1 THEN {0, 1} ELSE {0})

Known == {"route", "upstream", "header", "on_error", "provider", "fallback",
          "redirect-to-primary", "subject", "#", ""}

\* A line has a known directive and, unless it is a comment, is in a block.
Placed(file, i) ==
  /\ file[i].directive \in Known
  /\ file[i].directive \in {"#", ""} \/ \E h \in Heads(file) : h <= i

GoodFile(file) ==
  /\ \A i \in DOMAIN file : Placed(file, i)
  /\ \A b \in ToSet(Blocks(file)) : GoodLines(b) /\ ArgsOf(b, "upstream") # <<>>
  /\ Len(ArgsOf(file, "fallback")) <= 1

Rule(args) == [op |-> args[1], name |-> args[2], value |-> SubSeq(args, 3, Len(args))]

Mapping(args) == [status |-> args[1], upstream |-> args[2].host, path |-> args[2].path]

RouteOf(block) ==
  LET hs == ArgsOf(block, "header")
      es == ArgsOf(block, "on_error")
      ps == ArgsOf(block, "provider")
  IN [domains   |-> block[1].args,
      upstreams |-> ArgsOf(block, "upstream"),
      headers   |-> [i \in DOMAIN hs |-> Rule(hs[i])],
      errors    |-> [i \in DOMAIN es |-> Mapping(es[i])],
      provider  |-> IF ps = <<>> THEN <<>> ELSE ps[Len(ps)],
      redirect  |-> ArgsOf(block, "redirect-to-primary") # <<>>,
      subject   |-> Flatten(ArgsOf(block, "subject"))]

FallbackAt(blocks) ==
  LET fs == {j \in DOMAIN blocks : ArgsOf(blocks[j], "fallback") # <<>>}
  IN IF fs = {} THEN 0 ELSE Min(fs)

ByBlocks(file) ==
  LET bs == Blocks(file)
  IN IF GoodFile(file)
     THEN [routes   |-> [j \in DOMAIN bs |-> RouteOf(bs[j])],
           current  |-> <<>>,
           fallback |-> FallbackAt(bs),
           error    |-> FALSE]
     ELSE Error(Initial)
=============================================================================
