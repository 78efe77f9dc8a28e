--------------------------- MODULE MCProxyManager ---------------------------
(***************************************************************************)
(* ProxyManager for TLC: a route that is loaded again or refused, with and *)
(* without fallback, and two routes with a certificate each.               *)
(***************************************************************************)
EXTENDS ProxyManager

CONSTANTS d1, d2, n1, n2

RouteTo(n, ds) == [name |-> n, domains |-> ds]
Conf(rs, f) == [routes |-> rs, fallback |-> f, valid |-> TRUE]

\* A route, to be loaded again, and a configuration that is rejected.
CertConfigs ==
  {Conf(<<RouteTo(n1, {d1, d2})>>, 1),
   [Conf(<<RouteTo(n1, {d1})>>, 0) EXCEPT !.valid = FALSE]}

TwoRoutes == {Conf(<<RouteTo(n1, {d1}), RouteTo(n2, {d2})>>, 0)}
=============================================================================
