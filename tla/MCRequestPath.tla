--------------------------- MODULE MCRequestPath ---------------------------
(***************************************************************************)
(* RequestPath for TLC: names a, b and c, a in two spellings, and one that *)
(* is no domain name.  The configurations are what the parser makes of     *)
(* files.                                                                  *)
(***************************************************************************)
EXTENDS RequestPath, ConfigParser

NameSet == {"a", "A", "b", "c", "?"}
LowerCase == [n \in NameSet |-> IF n = "A" THEN "a" ELSE n]

Host(name, port) == [name |-> name, port |-> port]

AskedHosts ==
  {Host("a", FALSE), Host("b", TRUE), Host("c", FALSE), Host("?", FALSE)}

ClientSet ==
  {[forwarded |-> Host("c", FALSE), login |-> "client", agent |-> "none", trusted |-> FALSE, known |-> TRUE],
   [forwarded |-> Host("c", FALSE), login |-> "client", agent |-> "client", trusted |-> TRUE, known |-> FALSE]}

-----------------------------------------------------------------------------
Config(routes, default, valid) == [routes |-> routes, fallback |-> default, valid |-> valid]

Redirecting(ds, u, rules, pages) ==
  [NewRoute(ds) EXCEPT !.redirect = TRUE, !.upstreams = <<<<u>>>>, !.headers = rules, !.errors = pages]

HeaderRule(op, value)    == [op |-> op, name |-> "h", value |-> <<value>>]
Page(status, host) == [status |-> status, upstream |-> host, path |-> "none"]

\* Two mappings for one status; one domain is not in lower case.
OneRoute == Config(
  <<Redirecting(<<"b", "A">>, "u1", <<HeaderRule("default", "x")>>, <<Page(404, "e1"), Page(404, "e2")>>)>>, 0, TRUE)

\* The second route takes the first one's primary domain, and is the fallback.
TwoRoutes == Config(
  <<Redirecting(<<"b", "c">>, "u2", <<HeaderRule("add", "y")>>, <<Page(502, "e1")>>),
    Redirecting(<<"a", "b">>, "u3", <<HeaderRule("replace", "z")>>, <<Page(502, "e3")>>)>>, 2, TRUE)

\* Requests for this route are redirected to it for ever.
Capitals == Config(<<Redirecting(<<"A", "c">>, "u1", <<>>, <<>>)>>, 0, TRUE)

Refused == Config(<<[NewRoute(<<"?">>) EXCEPT !.upstreams = <<<<"u1">>>>]>>, 0, FALSE)

RequestConfigs == {OneRoute, TwoRoutes, Capitals, Refused}

-----------------------------------------------------------------------------
To(u)                 == Line("upstream", <<u>>)
OnError(status, host) == Line("on_error", <<status, [host |-> host, path |-> "none"]>>)
Redirect              == Line("redirect-to-primary", <<>>)

Files ==
  {<<Line("route", <<"b", "A">>), Redirect, To("u1"), OnError(404, "e1"), OnError(404, "e2"),
     Line("header", <<"default", "h", "x">>)>>,
   <<Line("route", <<"b", "c">>), Redirect, To("u2"), OnError(502, "e1"), Line("header", <<"add", "h", "y">>),
     Line("route", <<"a", "b">>), Redirect, To("u3"), OnError(502, "e3"), Line("header", <<"replace", "h", "z">>),
     Line("fallback", <<>>)>>,
   <<Line("route", <<"A", "c">>), Redirect, To("u1")>>,
   <<Line("route", <<"?">>), To("u1")>>}

\* The files parse, into these configurations, and SetRoutes refuses those
\* with a domain that is no domain name.
ASSUME FilesAssumption ==
  /\ \A file \in Files : ~Parse(file).error
  /\ RequestConfigs =
       {LET parsed == Parse(file) IN
        Config(parsed.routes, parsed.fallback,
               \A i \in DOMAIN parsed.routes : ToSet(parsed.routes[i].domains) \cap Garbage = {})
        : file \in Files}
=============================================================================
