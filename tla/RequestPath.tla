----------------------------- MODULE RequestPath -----------------------------
(***************************************************************************)
(* One request on its way through Centauri: the handlers of the frontends  *)
(* (frontend/frontend.go), redirects (proxy/redirector.go), the rewriting  *)
(* of request and response (proxy/rewriter.go, proxy/decorator.go), error  *)
(* pages (proxy/errors.go) and what is counted (metrics/recorder.go).      *)
(* Every handler looks the route up for itself, in the two steps of        *)
(* Manager.routeFor, while RouteTable changes underneath.                  *)
(*                                                                         *)
(* httputil.ReverseProxy, the upstreams and the client are external: it    *)
(* calls Rewrite, then the upstream, then ModifyResponse or ErrorHandler.  *)
(* Protocol upgrades are left out.  Of the X-Forwarded headers the one     *)
(* with the host stands for all three.                                     *)
(***************************************************************************)
EXTENDS RouteTable, Route

CONSTANTS
  Names,      \* host names as clients and configurations spell them
  Lower,      \* strings.ToLower on them
  Garbage,    \* names that are no domain names
  Frontends,  \* subset of "tcp", "http" and "https", the last two on tailscale
  Asked,      \* hosts that clients ask for, with and without a port
  Clients,    \* what clients send along (forwarded, login, agent), whether they
              \* are trusted downstreams, and whether tailscale knows them
  Statuses,   \* status codes that upstreams answer with
  None        \* a name, host or upstream that is not there

Hosts == [name : Names, port : BOOLEAN]

ASSUME RequestAssumption ==
  /\ Lower \in [Names -> Names] /\ \A n \in Names : Lower[Lower[n]] = Lower[n]
  /\ Garbage \subseteq Names /\ None \notin Names
  /\ Frontends \subseteq {"tcp", "http", "https"}
  /\ Asked \subseteq Hosts
  /\ \A c \in Clients : c.forwarded \in Hosts \cup {None}
  /\ Statuses \subseteq 100..599
  /\ \A c \in Configs :
       /\ c.fallback \in {0} \cup DOMAIN c.routes
       /\ \A i \in DOMAIN c.routes : c.routes[i].domains \in Seq(Names) \ {<<>>}
  /\ MaxLoads \in Nat

VARIABLES
  frontend,  \* the frontend in use
  req        \* the request: pc and what the handlers know of it

vars == <<tableVars, frontend, req>>

\* Steps that begin with a lookup, and how a request ends.
Looking == {"hello", "redirector", "rewrite", "count", "page", "headers"}
Ended   == {"answered", "refused", "closed"}

\* The header that rules are about, on responses of Centauri, upstreams and
\* error upstreams.  An error page comes with hop-by-hop headers.
Header(values) == [h |-> values]
Response(status, body, values) ==
  [status |-> status, body |-> body, headers |-> Header(values), hop |-> FALSE]

NoResponse == Response(0, "none", <<>>)
NoLocation == [name |-> None, tls |-> FALSE]

NewRequest(pc, host, tls, client) ==
  [pc |-> pc, host |-> host, tls |-> tls, client |-> client,
   missed |-> FALSE,           \* routeFor has not found the host in the map
   since |-> 0,                \* the configuration in place then (history)
   route |-> NoRoute,          \* what the last lookup has found
   out |-> <<>>,               \* its decorated headers, once it has an upstream
   upstream |-> None,          \* the upstream that was chosen
   mapping |-> None,           \* the error upstream that is asked
   told |-> <<>>,              \* what it was told about the request
   got |-> NoResponse,         \* the response before error pages (history)
   resp |-> NoResponse,        \* the response
   counted |-> <<>>,           \* labels counted for it
   location |-> NoLocation,    \* where it is redirected to
   steady |-> ~Publishing]     \* the table has not changed since (history)

NoRequest == [NewRequest("idle", None, FALSE, None) EXCEPT !.steady = TRUE]

TypeOK ==
  /\ TableTypeOK
  /\ frontend \in Frontends
  /\ req.pc \in {"idle", "plain", "upstream", "fetch", "redirected"} \cup Looking \cup Ended
  /\ req.pc \in Looking \/ ~req.missed
  /\ req.upstream # None => req.out # <<>>
  /\ req.pc \in {"count", "page", "fetch", "headers", "answered"} <=> req.resp # NoResponse
  /\ IF req.pc = "redirected" THEN req.location.name \in Names ELSE req.location = NoLocation

Init == TableInit /\ frontend \in Frontends /\ req = NoRequest

-----------------------------------------------------------------------------
(***************************************************************************)
(* Lookups.  routeMap.Get ignores case, and the last route that lists a    *)
(* domain has it.                                                          *)
(***************************************************************************)
Conf(r) == config[r[1]].routes[r[2]]

Listing(rs, name) ==
  {i \in DOMAIN rs : \E j \in DOMAIN rs[i].domains : Lower[rs[i].domains[j]] = Lower[name]}

Get(v, name) ==
  IF v = 0 \/ name = None THEN NoRoute
  ELSE LET S == Listing(config[v].routes, name) IN IF S = {} THEN NoRoute ELSE <<v, Max(S)>>

FallbackOf(v) == IF v = 0 \/ config[v].fallback = 0 THEN NoRoute ELSE <<v, config[v].fallback>>

\* Mutant: steps after the request was decorated ask for the forwarded host.
ForwardedKey ==
  IF req.out = <<>> THEN req.host.name ELSE req.out[1].host.name

\* The counters are asked for the X-Forwarded-Host header as it is.
CountKey == IF req.out = <<>> \/ req.out[1].host.port THEN None ELSE req.out[1].host.name

\* The host the current step asks for, without its port.
Key == IF req.pc = "count" THEN CountKey ELSE req.host.name

RouteFor == IF req.missed THEN FallbackOf(fallback) ELSE Get(domains, Key)

\* routeFor finds no match and goes on to the fallback.
Miss ==
  /\ req.pc \in Looking
  /\ ~req.missed
  /\ Get(domains, Key) = NoRoute
  /\ req' = [req EXCEPT !.missed = TRUE, !.since = installed]
  /\ UNCHANGED <<tableVars, frontend>>

\* routeFor returns within step pc.
At(pc) == req.pc = pc /\ (req.missed \/ RouteFor # NoRoute)

Looked == [req EXCEPT !.missed = FALSE, !.since = 0, !.route = RouteFor]

\* RouteForDomain holds back a route whose status is Missing or NotChecked.
RouteForDomain(r) == IF r \in serving THEN r ELSE NoRoute

-----------------------------------------------------------------------------
(***************************************************************************)
(* The client and the frontend.  The plain port of tailscale's http mode   *)
(* serves the proxy, all others redirect.  TLS begins with a hello.        *)
(***************************************************************************)
Entry(tls) ==
  IF tls THEN "hello" ELSE IF frontend = "http" THEN "redirector" ELSE "plain"

Arrive(host, tls, client) ==
  /\ req.pc = "idle"
  /\ tls => frontend # "http"
  /\ req' = NewRequest(Entry(tls), host, tls, client)
  /\ UNCHANGED <<tableVars, frontend>>

\* A client that is redirected asks again, with the name in lower case.
Follow ==
  /\ req.pc = "redirected"
  /\ req' = NewRequest(Entry(req.location.tls), [name |-> Lower[req.location.name], port |-> FALSE],
                       req.location.tls, req.client)
  /\ UNCHANGED <<tableVars, frontend>>

Leave ==
  /\ req.pc \in Ended
  /\ req' = NoRequest
  /\ UNCHANGED <<tableVars, frontend>>

\* CertificateForClient: without a route, or if it has no certificate, the
\* connection is closed.
Hello ==
  /\ At("hello")
  /\ \E pc \in {"closed"} \cup {p \in {"redirector"} : RouteFor # NoRoute} :
       req' = [Looked EXCEPT !.pc = pc]
  /\ UNCHANGED <<tableVars, frontend>>

RedirectTo(r, name, tls) == [r EXCEPT !.pc = "redirected", !.location = [name |-> name, tls |-> tls]]

\* HttpRedirector.ServeHTTP
HttpRedirect ==
  /\ req.pc = "plain"
  /\ req' = IF req.host.name \in Garbage THEN [req EXCEPT !.pc = "refused"]
            ELSE RedirectTo(req, req.host.name, TRUE)
  /\ UNCHANGED <<tableVars, frontend>>

\* Mutant: the primary domain is redirected as well.
MustRedirectAll(route, name) == route.redirect

MustRedirect(route, name) == route.redirect /\ route.domains[1] # name

\* DomainRedirector.ServeHTTP
DomainRedirect ==
  /\ At("redirector")
  /\ LET r == RouteForDomain(RouteFor) IN
       req' = IF r # NoRoute /\ MustRedirect(Conf(r), req.host.name)
              THEN RedirectTo(Looked, Conf(r).domains[1], req.tls)
              ELSE [Looked EXCEPT !.pc = "rewrite"]
  /\ UNCHANGED <<tableVars, frontend>>

-----------------------------------------------------------------------------
(***************************************************************************)
(* The request to the upstream.                                            *)
(***************************************************************************)
\* The decorators, on the headers of the outgoing request.
Forwarded(out) ==
  [out EXCEPT !.host = IF req.client.trusted /\ req.client.forwarded # None
                       THEN req.client.forwarded ELSE req.host]
Banned(out)    == [out EXCEPT !.login = "none"]
UserAgent(out) == [out EXCEPT !.agent = IF @ = "none" THEN "empty" ELSE @]
Tailscale(out) ==
  IF frontend # "tcp" /\ req.client.known THEN [out EXCEPT !.login = "whois"] ELSE out

\* Mutant: what a frontend adds comes first.
DecorateTailscaleFirst(out) == UserAgent(Banned(Forwarded(Tailscale(out))))

\* NewRewriter's decorators, then the one that tailscale has added.
Decorate(out) == Tailscale(UserAgent(Banned(Forwarded(out))))

\* ReverseProxy drops the X-Forwarded headers of the client.
Incoming == [host |-> None, login |-> req.client.login, agent |-> req.client.agent]

BadGateway == Response(502, "default", <<>>)

\* Without a route the request has no target, and the transport fails.
RewriteRequest ==
  /\ At("rewrite")
  /\ LET r == RouteForDomain(RouteFor) IN
       IF r = NoRoute \/ Conf(r).upstreams = <<>>
       THEN req' = [Looked EXCEPT !.pc = "count", !.got = BadGateway, !.resp = BadGateway]
       ELSE \E u \in ToSet(Conf(r).upstreams) :
              req' = [Looked EXCEPT !.pc = "upstream", !.out = <<Decorate(Incoming)>>, !.upstream = u]
  /\ UNCHANGED <<tableVars, frontend>>

\* The upstream answers, or cannot be reached.
RoundTrip ==
  /\ req.pc = "upstream"
  /\ \E r \in {Response(s, "upstream", <<<<"up">>>>) : s \in Statuses} \cup {BadGateway} :
       req' = [req EXCEPT !.pc = "count", !.got = r, !.resp = r]
  /\ UNCHANGED <<tableVars, frontend>>

-----------------------------------------------------------------------------
(***************************************************************************)
(* The response.  TrackResponse and TrackBadGateway count it first; then   *)
(* RewriteResponse and RewriteError replace errors by error pages and      *)
(* apply the header rules.                                                 *)
(***************************************************************************)
Track ==
  /\ At("count")
  /\ LET r == RouteForDomain(RouteFor) IN
       req' = [Looked EXCEPT
                 !.pc = IF req.resp.status >= 400 THEN "page" ELSE "headers",
                 !.counted = IF r = NoRoute THEN @
                             ELSE Append(@, <<Conf(r).domains[1], req.resp.status>>)]
  /\ UNCHANGED <<tableVars, frontend>>

\* fetchErrorPage up to the request to the error upstream.
FetchErrorPage ==
  /\ At("page")
  /\ LET r == RouteForDomain(RouteFor)
         m == IF r = NoRoute THEN 0 ELSE ErrorMappingForStatus(Conf(r), req.resp.status)
     IN req' = IF m = 0 THEN [Looked EXCEPT !.pc = "headers"]
               ELSE [Looked EXCEPT !.pc = "fetch", !.mapping = Conf(r).errors[m].upstream]
  /\ UNCHANGED <<tableVars, frontend>>

\* The error upstream's own status is of no interest.
ErrorPage == [Response(200, req.mapping, <<<<"page">>>>) EXCEPT !.hop = TRUE]

\* Mutant: the page replaces the whole response.
ReplaceWhole(resp, page) == [page EXCEPT !.hop = FALSE]

\* replaceWithUpstreamErrorPage and serveUpstreamErrorPage.
Replace(resp, page) == [page EXCEPT !.hop = FALSE, !.status = resp.status]

\* The error upstream answers or not; it is told what the upstream was.
ErrorRoundTrip ==
  /\ req.pc = "fetch"
  /\ \E resp \in {req.resp, Replace(req.resp, ErrorPage)} :
       req' = [req EXCEPT !.pc = "headers", !.resp = resp,
                          !.told = <<IF req.out = <<>> THEN None ELSE req.out[1].host>>]
  /\ UNCHANGED <<tableVars, frontend>>

\* rewriteHeaders, and the response is sent.
Answer ==
  /\ At("headers")
  /\ LET r == RouteForDomain(RouteFor) IN
       req' = [Looked EXCEPT !.pc = "answered",
                 !.resp.headers = IF r = NoRoute THEN @ ELSE RewriteHeaders(Conf(r).headers, @)]
  /\ UNCHANGED <<tableVars, frontend>>

-----------------------------------------------------------------------------
\* The table changes while the request is on its way.
TableStep ==
  /\ TableNext
  /\ req' = [req EXCEPT !.steady = req.pc = "idle"]
  /\ UNCHANGED frontend

RequestStep ==
  \/ Miss \/ Hello \/ HttpRedirect \/ DomainRedirect \/ RewriteRequest \/ RoundTrip
  \/ Track \/ FetchErrorPage \/ ErrorRoundTrip \/ Answer \/ Follow

Next ==
  \/ \E host \in Asked, tls \in BOOLEAN, client \in Clients : Arrive(host, tls, client)
  \/ RequestStep
  \/ Leave
  \/ TableStep

Spec == Init /\ [][Next]_vars

\* Handlers run to their end and clients follow redirects.
FairSpec == Spec /\ WF_req(RequestStep)

-----------------------------------------------------------------------------
(***************************************************************************)
(* Five lookups make one answer (RewriteRequest, the counters,             *)
(* fetchErrorPage, rewriteHeaders and the redirector look the route up on  *)
(* their own).  If the table did not change meanwhile, they act like one:  *)
(* upstream, error page, headers and redirect are those of the one route   *)
(* for the requested host, and the count is for the forwarded host.        *)
(***************************************************************************)
Resolve(name) ==
  RouteForDomain(IF Get(domains, name) # NoRoute THEN Get(domains, name) ELSE FallbackOf(fallback))

Unrouted ==
  /\ req.upstream = None
  /\ req.resp = BadGateway

\* An error page is that of the first mapping for the status.
PageFor(route, body) ==
  /\ req.got.status >= 400
  /\ \E i \in 1..Len(route.errors) :
       /\ route.errors[i].status = req.got.status /\ route.errors[i].upstream = body
       /\ \A j \in 1..i - 1 : route.errors[j].status # req.got.status

RoutedBy(route) ==
  /\ ~MustRedirect(route, req.host.name)
  /\ \/ req.upstream \in ToSet(route.upstreams)
     \/ route.upstreams = <<>> /\ req.got = BadGateway
  /\ \/ /\ req.resp.body = req.got.body
        /\ req.resp.headers = RewriteHeaders(route.headers, req.got.headers)
     \/ /\ PageFor(route, req.resp.body)
        /\ req.resp.headers = RewriteHeaders(route.headers, ErrorPage.headers)
  /\ ~req.resp.hop

HandledByOneRoute ==
  /\ req.steady /\ req.pc = "answered" =>
       LET r == Resolve(req.host.name)
           c == Resolve(IF req.out = <<>> \/ req.out[1].host.port THEN None ELSE req.out[1].host.name)
       IN /\ IF r = NoRoute THEN Unrouted ELSE RoutedBy(Conf(r))
          /\ req.counted = IF c = NoRoute THEN <<>> ELSE <<<<Conf(c).domains[1], req.got.status>>>>
  /\ req.steady /\ req.pc = "redirected" /\ Entry(req.tls) # "plain" =>
       LET r == Resolve(req.host.name) IN
       /\ r # NoRoute
       /\ Conf(r).redirect
       /\ req.location = [name |-> Conf(r).domains[1], tls |-> req.tls]

(***************************************************************************)
(* Whatever the table does, the client gets the status the upstream or the *)
(* proxy came up with, also with an error page (the comment on             *)
(* replaceWithUpstreamErrorPage), and nothing is counted but this, once.   *)
(***************************************************************************)
CountedAsSent ==
  req.pc = "answered" =>
    /\ req.resp.status = req.got.status
    /\ Len(req.counted) <= 1
    /\ \A i \in DOMAIN req.counted : req.counted[i][2] = req.resp.status

(***************************************************************************)
(* A lookup that falls back (routeFor) gets the fallback of a              *)
(* configuration in place between its two steps: no fallback outlives a    *)
(* reload.                                                                 *)
(***************************************************************************)
LookupIsCurrent ==
  [][req.missed /\ ~req'.missed =>
       \E v \in req.since..domains :
         /\ v = 0 \/ config[v].valid
         /\ req'.route = FallbackOf(v)]_vars

(***************************************************************************)
(* What upstreams are told about the client is what Centauri found out or  *)
(* a trusted downstream said, never what a client claims; error upstreams  *)
(* are told the same (the comment on forwardedHeaders), if the request was *)
(* routed at all.                                                          *)
(***************************************************************************)
UpstreamsInformed ==
  /\ req.out # <<>> =>
       /\ req.out[1].host = req.host \/ (req.client.trusted /\ req.out[1].host = req.client.forwarded)
       /\ req.out[1].login = IF frontend # "tcp" /\ req.client.known THEN "whois" ELSE "none"
       /\ req.out[1].agent # "none"
  /\ req.told # <<>> /\ req.upstream # None => req.told = <<req.out[1].host>>

(***************************************************************************)
(* Redirects end (docs/routes.md, redirect-to-primary: requests to the     *)
(* secondary domains are redirected, those to the primary "will be         *)
(* proxied"): a client that follows them is answered, though routes may    *)
(* claim the primary domains of each other and the table may change.       *)
(* Not so while the table has a redirecting route whose primary domain is  *)
(* not in lower case: DomainRedirector heeds case, so that such a route    *)
(* redirects the requests for its primary domain to itself.                *)
(***************************************************************************)
PrimaryInCapitals ==
  \E r \in RoutesOf(domains) \cup RoutesOf(fallback) :
    Conf(r).redirect /\ Lower[Conf(r).domains[1]] # Conf(r).domains[1]

RedirectsEnd == req.pc = "redirected" ~> (req.pc \in Ended \/ PrimaryInCapitals)
=============================================================================
