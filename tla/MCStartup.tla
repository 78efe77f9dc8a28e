------------------------------ MODULE MCStartup ------------------------------
(***************************************************************************)
(* Startup for TLC, and the pure functions a process that has started uses *)
(* on its configuration (Route, ConfigParser, DomainNames) over all inputs *)
(* of bounded size.  Each is stated for the running process; the part that *)
(* does not depend on the state is a definition of its own, which TLC      *)
(* evaluates once.                                                         *)
(***************************************************************************)
EXTENDS Startup, ConfigParser, DomainNames

PreferenceSet == {<<"lego", "selfsigned">>, <<"selfsigned">>, <<"lego">>}

-----------------------------------------------------------------------------
Target(host, path) == [host |-> host, path |-> path]
Hostless == Target("", "none")
OnError(status, target) == Line("on_error", <<status, target>>)

RouteAB == Line("route", <<"a", "b">>)
RouteC  == Line("route", <<"c">>)
To(u)   == Line("upstream", <<u>>)

\* Lines that may follow a route line, good and bad ones.
HeaderLines ==
  {Line("header", <<"add", "h", "x">>), Line("header", <<"delete", "h", "x">>), Line("header", <<"delete", "h">>)}
ErrorLines ==
  {OnError(404, Target("e", "plain")), OnError(600, Target("e", "none")), Line("on_error", <<404>>),
   OnError(400, Hostless), OnError(599, Target("e", "invalid"))}
OtherLines ==
  {Line("provider", <<"p">>), Line("provider", <<>>), Line("fallback", <<>>), Line("redirect-to-primary", <<>>),
   Line("subject", <<"s", "t">>), Line("subject", <<>>), Line("#", <<"fallback">>), Line("#fallback", <<>>)}
InRoute  == {To("u1"), To("u2")} \cup HeaderLines \cup ErrorLines \cup OtherLines
AnyLines == InRoute \cup {RouteAB, RouteC, Line("route", <<>>)}

\* All short files, and two complete routes with more lines in both.
TwoRoutes(more) == <<RouteAB, To("u1")>> \o more[1] \o <<RouteC>> \o more[2]

Files == UpTo(3, AnyLines) \cup {TwoRoutes(more) : more \in UpTo(2, InRoute) \X UpTo(2, InRoute)}

FilesParse == \A file \in Files : Parse(file) = ByBlocks(file)

(***************************************************************************)
(* Parse, which keeps one current route and stops at the first error,      *)
(* accepts the files that are made of good blocks and returns their        *)
(* routes in order, with the one that has the fallback line.               *)
(***************************************************************************)
ParsesBlocks == step = "ready" => FilesParse

-----------------------------------------------------------------------------
WordsSplit == \A s \in UpTo(MaxName + 2, Classes) : IsDomainName(s) <=> ByLabels(s)

(***************************************************************************)
(* isDomainName, which only looks at one character and the one before it,  *)
(* accepts what consists of good labels, up to one character beyond the    *)
(* limits of a label and a name.                                           *)
(***************************************************************************)
NamesHaveLabels == step = "ready" => WordsSplit

-----------------------------------------------------------------------------
ShortNames == UpTo(2, {"x", "y"})
LongNames  == UpTo(4, {"x", "y"}) \ {<<>>}

DomainsCovered ==
  \A options \in UpTo(2, ShortNames), ds \in UpTo(2, LongNames) :
    LET names == ApplyWildcards(NewWildcards(options), ds)
    IN \A i \in DOMAIN ds : Covers(names[i], ds[i]) /\ names[i] = NameFor(options, ds[i])

(***************************************************************************)
(* With wildcards the names of a certificate still cover the domains it    *)
(* was asked for, and no wildcard is used but for the domains one level    *)
(* below a configured one, and for all of those ("example.com" and         *)
(* "a.b.example.com" stay, says the comment on WildcardResolver).          *)
(***************************************************************************)
WildcardsCover == step = "ready" => DomainsCovered

-----------------------------------------------------------------------------
Rules ==
  [op : {"add", "replace", "default", "delete"}, name : {"h"}, value : {<<"x">>, <<"y">>}]
    \cup [op : {"add", "delete"}, name : {"g"}, value : {<<"x">>}]
Values == {<<>>, <<<<"up">>>>, <<<<>>, <<"up">>>>}

HeadersRewritten ==
  \A rules \in UpTo(4, Rules), values \in Values :
    LET after == RewriteHeaders(rules, [n \in {"g", "h", "other"} |-> values])
    IN \A n \in {"g", "h", "other"} : after[n] = HeaderAfter(RulesFor(rules, n), values)

(***************************************************************************)
(* rewriteHeaders, rule after rule on what the upstream sent, leaves of a  *)
(* header what the last rules for it say, whatever the others do.          *)
(***************************************************************************)
RulesInOrder == step = "ready" => HeadersRewritten
=============================================================================
