# A TLA+ verification of Centauri

Centauri is a reverse proxy. It reads a configuration of routes from a file or
from a network server, obtains certificates for them from ACME servers or signs
them itself, keeps the certificates in a JSON file or in Redis (shared by several
instances), and proxies requests. This directory models that program from its
start to the answer of a request, model-checks the models with TLC and proves
the safety properties that matter most with TLAPS.

## The system

| Part | State | Operations | Interacts with |
|---|---|---|---|
| Redis lock (`certificate/store_redis.go`) | one key with a lifetime in Redis; token and stop channel per process | Lock, Unlock, refresh goroutine | Redis, all instances |
| Redis store (`certificate/store_redis.go`) | a hash of certificates | GetCertificate, SaveCertificate (read, prune, set) | all instances |
| JSON store (`certificate/store.go`) | slice of certificates, map of mutexes, file | the same, NewStore | all checking goroutines of a process |
| Certificate manager (`certificate/manager.go`) | locals of a call | GetCertificate, GetExistingCertificate | store, suppliers |
| Suppliers (`certificate/supplier_*.go`, `provider.go`) | ACME account and its file | NewLegoSupplier, GetCertificate, UpdateStaple, UpdateRenewalInfo | ACME server |
| Wildcards (`certificate/wildcards.go`) | none | rewriting of names | proxy manager, certificate manager |
| Proxy manager (`proxy/manager.go`, `route.go`) | map of domains, list of routes, fallback; certificate and status per route | SetRoutes, CheckCertificates, MonitorCertificates, lookups | certificate manager, config source, requests |
| Request path (`proxy/rewriter.go`, `redirector.go`, `errors.go`, `decorator.go`) | none between requests | rewrite, redirect, decorate, map errors | proxy manager |
| File source (`config/source_file.go`) | update and stop channels | Start, Reload, Stop, run | main, proxy manager |
| Network source (`config/source_network.go`) | connection, second chance, deadline | Start, Stop, run, reconnect | config server, main |
| Parser (`config/parser.go`) | none | Parse | sources |
| Main and frontends (`cmd/centauri`, `frontend`) | signal and error channels, servers | run, Serve, Stop | all of the above |
| Metrics (`metrics/recorder.go`) | counters | observe | request path, main |

What is hard in it, and hard to test: leases that run out while their holder
works; replies that are lost after the operation was applied; goroutines that
share a lock object, a slice or a route without further synchronisation;
checks of one route that overlap; publication of a configuration in three
stores while requests read it; a request that looks its route up five times;
a crash between the registration of an account and its file; reload requests
that arrive during a reload; shutdown while somebody reports an error; a
connection that fails in the middle of anything. `PROJECT.json` lists each of
these hazards at its line, with the properties that cover it.

## Modules

| Module | Models |
|---|---|
| `LeaseLock` | abstract: a lock with a lease, exclusive until the lease is endangered |
| `RedisLock` | the lock in Redis, step by step, with time |
| `Details` | a certificate and the predicates on it |
| `CertRenewal` | `certificate.Manager.GetCertificate` on several instances over the Redis store |
| `JsonStore` | the JSON store under several goroutines of one process |
| `RouteTable` | abstract: what requests see of the proxy manager |
| `ProxyManager` | loads and certificate checks of the proxy manager |
| `Route` | header rules and error mappings of a route |
| `RequestPath` | a request through redirector, rewriter, decorators, error pages and counters, over `RouteTable` |
| `ConfigParser` | `config.Parse` |
| `DomainNames` | `isDomainName` and the wildcards |
| `Startup` | how successive processes get their suppliers and their ACME account |
| `Lifecycle` | `main.run`, the file source, the servers of a frontend and the metrics server |
| `NetworkSource` | the network source and an unreliable config server |
| `Lists` | loops over lists: fold, filter, first match |
| `RedisLockProofs`, `CertRenewalProofs`, `JsonStoreProofs`, `ProxyManagerProofs`, `RequestPathProofs` | theorems about the modules they are named after |
| `ProcessProofs` | theorems about `Lifecycle`, `Startup`, `DomainNames` and `Route` |
| `ConfigProofs` | theorems about `NetworkSource` and `ConfigParser` |
| `SequenceProofs` | lemmas on numbers, sequences and folds |

`MC*` modules hold the model values, functions and symmetry sets that a `.cfg`
cannot state. Definitions marked *Mutant* are plausible bugs; `PROJECT.json` says
which definition each one replaces and which property must then fail. The map in
`PROJECT.json` gives the source lines of every definition.

**RedisLock.** `key`, `ttl` are the Redis key. A goroutine's `pc` is the place in
Lock or Unlock; `lockTok` is `redisLock.token` of its process (its stop channel
goes with it); `rstate`, `timer`, `opLeft` are the refresh goroutine started for
a token. SETNX, the two scripts and their replies are separate steps, so a reply
can be lost after the operation was applied. Timers are relative. `Tick` waits
for steps that are due (`Prompt`): the Go scheduler is taken to be fast compared
with these units. Attempts of Lock that change nothing are not steps. Tokens are
random in the code and never reused here. `grantee`, `missed` and
`overdue` are history variables. The comment on the release script says more than the
code does; `ReleaseSparesOthers` states it and is violated.

**LeaseLock and its use.** `lease` is who has the lease, `inside` who is in the
critical section, `endangered` whether renewal ever lapsed. `RedisLock`
implements it (`ImplementsLease`: checked, and proved as `LockImplementsLease`);
`CertRenewal` uses one lease per name and `UsesLeases` checks that it does so
within the same rules. So the manager is checked over the abstract lock and the
lock is shown to be one. In the same way `ProxyManager` implements `RouteTable`
(`ImplementsTable`: checked, and proved as `TableImplemented`) and requests run over
`RouteTable`.

**CertRenewal.** A worker is the checking goroutine of one instance. Its `pc` runs
through lock, read, ARI update, decision, obtain or staple, the two halves of
SaveCertificate, unlock. Every call of Redis or of a supplier may fail, a failed
transaction may have been applied, and instances crash. The hash may start with
legacy or undecodable entries. One clock, one minimum validity for all suppliers.
JSON, PEM and key formats are left out; a key is the pair of provider and names.

**JsonStore.** `lockFor` is a lookup and an insertion, the append a read and a
store of the slice, and `os.WriteFile` a truncation and a write. These are the
finest steps; the copying inside removal and pruning is one step each, so a data
race has at least the outcomes of the model. Unlocking a mutex that nobody has
locked ends the process. A process whose file does not decode does not come up,
which is why deadlock is not checked.

**ProxyManager.** One SetRoutes at a time (the config source is one goroutine), a
checker per load plus the monitor. The three publications, and the two stores of
certificate and status, are separate steps. The certificate provider is abstract: per name a newest generation that
may come to need renewal or expire, calls that may fail, and with `ReadFaults`
reads that fail (exempted in two properties, see `unread`).

**RouteTable.** The map of domains and the fallback are published in two steps;
any route in them may be served or held back at any time, as checks decide. The
refinement mapping from `ProxyManager` hides the list of routes, the checks and
a configuration that is still being loaded.

**RequestPath.** One request at a time with its own record `req`; `pc` is the
handler it is in. Each handler makes its own lookup, and a lookup is two steps
(`Miss`, then the fallback), between which the table may change. The client, the
upstreams and `httputil.ReverseProxy` are external. The configurations of the run
are what `ConfigParser` makes of files (`FilesAssumption`). `steady`, `since` and `got` are history
variables. Left out: upgrades, bodies, paths and queries; X-Forwarded-Host stands
for the three forwarded headers, one login header for the banned ones.

**Startup.** The user data file outlives processes, whose options may differ. Each
call that may fail is a step with an error outcome; a registration may have
succeeded although it is reported to have failed; `os.WriteFile` is a truncation
and a write; a process may die anywhere. After the last start of the bound
nothing need happen, so deadlock is not checked.

**Route, ConfigParser, DomainNames.** Pure functions, written as the code computes
them (a fold over rules, lines or characters) and compared with a definition of
another shape (`HeaderAfter`, `ByBlocks`, `ByLabels`, `Covers`). The comparisons are
invariants of the run `startup`, stated for a process that is ready, and proved for
all inputs. `Lists` has the few list operators they need; those with names of
`SequencesExt` are the same operators, in a module small enough for the provers,
which slow down with every definition in scope.

**Lifecycle.** Channels have the capacities of the code (`signalChan` 1,
`updateChan` 1, `errChan` 0). `Order` is the order in which a frontend (TCP, or
Tailscale in its two modes) starts its servers; Serve may fail before each. The
process ends, so deadlock is not checked.

**NetworkSource.** A stream is a sequence of configurations or bad frames on one
connection. The server sends its newest configuration once per connection or
change. `MaxFaults` bounds how often it misbehaves. The source's goroutine ends, so
deadlock is not checked.

## Runs

Durations of the lock are those of the code (60, 20 and 5 s), in units of 20/3 s
with the 5 s rounded up in `lock`, and of 5 s in `lock_unlock_shared`.

| Run | Shows | Bounds |
|---|---|---|
| `lock` | mutual exclusion until a refresher misses two refreshes in a row; refreshers work for holders; a release never deletes another instance's key; refinement of `LeaseLock`; an abandoned key expires | 3 goroutines, 2 in one process; 2 tokens, i.e. one hand-over. Further acquisitions start from the same states; the proofs cover any number |
| `renewal` | a certificate handed out is the stored one; nothing is issued on a stale decision; a renewed certificate expires later; leases are used as `LeaseLock` says | 2 instances, an ACME and a self-signed supplier, 3 issues in 4 time units: first issue, renewal and a competing one |
| `store` | valid entries survive pruning; no certificate goes back to an older one while the lease was kept | 2 instances, 2 names, lapsing leases |
| `json` | a spelling with one mutex excludes; the file is the memory unless saves overlapped or failed | 2 goroutines, 3 spellings of 2 lists, 2 issues, 3 mutexes |
| `proxy_certs` | while checks of a route do not overlap, its status agrees with its certificate and a valid certificate is kept; a reload keeps serving; refinement of `RouteTable` | 2 loads, accepted or refused, monitor, 2 generations |
| `proxy_live` | every route becomes Good with the newest certificate | 2 routes, 2 overlapping checkers |
| `request` | unless the table changes meanwhile, all handlers of a request act on one route; the status sent is the one counted; upstreams learn what Centauri knows of the client; a fallback is one that was in place during the lookup; redirects end unless a primary domain is written with capitals | 2 loads out of 4 configurations: two routes that claim each other's domains, a primary domain in capitals, one that is refused; 4 hosts; a trusted and an unknown client; TCP and Tailscale in http mode (its https mode is TCP's handlers with the decorator of http mode) |
| `lifecycle` | a reload request during a reload is not lost; shutdown ends; only servers that exist are stopped | a frontend with two servers and one with one, 3 edits, 3 signals |
| `startup` | a process orders only with an account that is known and saved; an existing file is kept; every start ends with a supplier; parser, domain names, wildcards and header rules agree with their reference definitions | 3 starts, 2 directories, 3 preferences; files of up to 3 of 21 lines and two-route files of up to 7; words of 6 characters with labels of 2 and names of 4; names of 4 labels; 4 rules. The proofs cover any input |
| `network` | no deadline once configured; gives up only after two failed reads in a row or a failed dial; the newest configuration is applied; Stop ends the goroutine | 3 configurations, 4 faults |

Runs whose property is violated show where code and comments disagree:

| Run | Disagreement |
|---|---|
| `lock_unlock_shared` | after its lock expired, a goroutine can release the lock of another goroutine of its own process (`store_redis.go:286`; comment at 224) |
| `json_two_mutexes` | two first-time lockers get different mutexes (`store.go:99`; comment at 84) |

Other weaknesses show in the exemptions of properties that hold, each of them a
behaviour of the model:

* a refresher that lost the lock goes on trying to extend it, against the comment
  at `store_redis.go:303` (`ExtendLost`);
* an unreadable Redis looks like an empty store, so that a certificate is ordered
  and a reload may stop serving (`GetStored`, `unread`; comment at `store_redis.go:63`);
* of two overlapping saves of different certificates to the JSON store one may be
  lost, and a crash during a save leaves a file that does not load (`mixed`, `up`);
* an older check may remove the certificate that a newer one obtained, and two
  overlapping checks may leave a route Good without a certificate until the next
  one, against the comment at `route.go:68` (`overlap`);
* a request between the stores of map and fallback may find no route though both
  configurations have one (`LookupIsCurrent` allows it), and one that spans a
  reload may be answered by the routes of two configurations (`steady`);
* responses are counted by X-Forwarded-Host, port included: a request to a port
  is counted for the fallback or not at all, one through a trusted downstream for
  the host that names (`Key`; `docs/metrics.md:12`);
* what is left of an interrupted save of the ACME account keeps the ACME supplier
  off at every later start (`Load`), and a saved account is used with whatever
  directory is configured (`NewClient`);
* a route with `redirect-to-primary` whose primary domain is written with capitals
  redirects requests for that domain to itself for ever, as the comparison heeds
  case (`PrimaryInCapitals`; `redirector.go:58`, `docs/routes.md:134`).

Found while translating, and the subject of no property: a comment needs a space
after `#` (`parser.go:92`); wildcard domains heed case, and names that collapse into one
wildcard are not merged (`wildcards.go:58`); `-validate` parses a file but does not
check its domain names (`source_file.go:45`).

### Fairness

* `RedisLock`: time passes, replies arrive or time out, refreshers run. Nobody is
  assumed to call Unlock or to acquire the lock.
* `ProxyManager`: SetRoutes and the checkers are goroutines that are not starved
  (WF), and the monitor's ticker goes on. Strong fairness on the provider: asked
  again and again for one route, it answers at some time. Nothing can be promised
  without that, since the code only retries.
* `RequestPath`: handlers run to their end, calls of upstreams return, and clients
  follow redirects (WF); the table may change at any time or never.
* `Startup`: each step of a start ends, if only by a timeout or an error (WF).
  Starts and crashes are never assumed.
* `Lifecycle`: main and the source's goroutine are scheduled. Signals, edits and
  errors are never assumed.
* `NetworkSource`: its goroutines are scheduled and the server sends what it has
  published; dialling may fail, and faults are bounded by `MaxFaults`.

## Proofs

`RedisLockProofs` proves, for any instances, goroutines, tokens and durations that
satisfy `LockAssumption` (the timeout is shorter than the renewal interval and
`2*OpTimeout + 2*RenewInterval < TTL`, which 5, 20 and 60 s do):

* `TypeCorrect`: `Spec => []TypeOK`
* `Invariance`: `Spec => []IInv`
* `MutualExclusion`: `Spec => []MutexUnlessOverdue`
* `RefreshersWork`: `Spec => []RefresherHasHolder`
* `ReleaseIsLocal`: `Spec => ReleaseSparesOtherInstances`
* `LockImplementsLease`: `Spec => ImplementsLease`

Mutual exclusion is not inductive: it depends on how much life the key has left
when its refresher acts. `IInv` adds three things. *Ownership*: a token in use was
granted to its goroutine, and a process's token stays in that process.
*TickerPhase*: the ticker and the extension in flight started together, so one
determines the other. *Sound*, as long as no refresher missed twice: the key holds
the token of whoever is granted or inside, its refresher runs, and `ttl` is at
least `TTL` minus the time that one refresh period (two after a miss) and two
operations can have used. The assumption on the durations makes that positive,
so the key of a holder cannot expire; since a key holds one token and a token has
one owner, two goroutines are never inside. Each conjunct has its own step
lemma with one case per action. The refinement uses the invariant before and
after each step.

`CertRenewalProofs` proves, for any instances, names, suppliers, lifetimes, offsets
of renewal and bounds (`RenewalAssumption`: natural numbers, a suggested renewal
time lies within the lifetime):

* `ValidSpared`: `Spec => PruneSparesValid`
* `NeverOlder`: `Spec => NoRegression`
* `NothingNewerStored`: `Spec => NoStaleIssue`
* `RenewalProgress`: `Spec => RenewalGains`
* `HandedOutStored`: `Spec => []HandedOutIsStored`
* `LeasesUsed`: `Spec => UsesLeases`

They rest on `RenewalInv` (`RenewalInvariant`). None of the properties is inductive,
since they speak of the store while decisions are made on what a worker
read some steps before. `RenewalInv` says for each worker what it carries at each
step (`Carries`), that what it will delete has expired (`Prunes`) and, while its
lease is safe, that it has the lease (`Locked`), that the store holds nothing
newer than it read (`Fresh`) or carries (`Newest`), and that what it will hand out
is stored (`Kept`). The lease makes the last three stable: another worker of the
same name has none, and saves of other names touch other fields or expired
entries. First come the steps that leave the store alone, then the saves. Since
the lock is proved to implement `LeaseLock`, the results hold as long as no
refresher misses two refreshes.

`JsonStoreProofs` proves, for any goroutines, spellings and bounds
(`JsonAssumption`: each spelling has its names, `None` is no goroutine or spelling):

* `OneInsidePerSpelling`: `Spec => []ExcludesPerSpelling`
* `FileHoldsMemory`: `Spec => []FileMatchesMemory`
* `StoreTyped`: `Spec => []TypeOK`

`JsonInv` (`JsonInvariant`) says that no mutex is made for two spellings
(`Separate`), that a goroutine whose spelling has one mutex waits for it and has it
locked while inside (`Holding`), and that, unless saves overlapped, one goroutine
saves and writes what is in memory (`OneSaves`). The file property needs the last
two: between the truncation and the write memory must not change. The types need
`CertInv` (`CertInvariant`) on top: what a goroutine appends to may be another's
slice, so all slices, the file included, hold certificates (`Store`, `Local`), and the
spelling of a goroutine inside stays in the map. That pruning, a fold, yields a list
of certificates is `KeepSet`.

`ProxyManagerProofs` proves, for any configurations, loads and provider:

* `StatusMatches`: `Spec => []StatusMatchesCert`
* `ValidKept`: `Spec => ValidCertKept`
* `TableImplemented`: `Spec => ImplementsTable`
* `ReloadServes`: `Spec => ReloadKeepsServing`

`ProxyInv` (`ProxyInvariant`) adds that routes being loaded are unknown to all
checks (`Private`, `Unstarted`), that two checks meet on a route only if that was
noted (`Alone`), and that a check alone on its route holds a pair of certificate and
status that match (`Matching`) and a certificate not older than the route's unless
that expired (`Newer`). The last needs that no certificate of a route is newer than
the provider's newest (`Obtained`).

The refinement adds `Stored`: the stored fallback is that of the last load that
completed, and so is the map, except between their two stores. Then the mapping is
followed step by step: `RejectRoutes` is `Refuse`, `StoreDomains` is
`PublishDomains` of the routes not held back, `StoreFallback` is `PublishFallback`,
a status that a check stores for a visible route is `Check`, and all else, a load
that is under way included, is a stutter. `ReloadServes` adds `Reloading`: the
routes that list a domain to be kept want the valid certificate the domain has, and
those already loaded have found it or could not read the store. That the last
of them gets the domain needs a greatest element (`Greatest`), got from the
least-number principle.

`RequestPathProofs` proves, for any configurations, names, clients and statuses:

* `StatusCounted`: `Spec => []CountedAsSent`
* `LookupCurrent`: `Spec => LookupIsCurrent`
* `UpstreamsTold`: `Spec => []UpstreamsInformed`
* `OneRouteHandles`: `Spec => []HandledByOneRoute`
* `RequestTyped`: `Spec => []TypeOK`

`RequestInv` (`RequestInvariant`) says that the fallback lags behind the map by at
most one load and never goes back (`TableInv`), that a lookup remembers a
configuration not newer than the fallback it will read (`LookupInv`), and how
status and count relate from the count to the answer (`CountInv`). `InformInv` says
when the error upstream has been told, and that an upstream is chosen only for
decorated requests. `SteadyInv` is what makes five lookups one: while the table has
not changed, a lookup that missed would miss again, so that each lookup resolves its
name as any other would (`LookupResolves`), and at each step of the handlers the
request has so far got what this one route wants. That `ErrorMappingForStatus` finds
the first mapping again needs the least-number principle. What `RewriteHeaders`
does to the headers plays no part here; it has a theorem of its own below. The types
add that only routes in the table are served (`ServingInv`) and which part
of a request exists at which step (`PathInv`): a response has a status, and a
redirect goes to a name. That is why the configurations of `RequestAssumption` give
every route at least one domain, as the parser does.

`ProcessProofs` proves about `Startup`, for any directories, preferences and number
of starts:

* `OrdersWithSaved`: `StartupSpec => []OrdersWithSavedAccount`
* `KeepsAccount`: `StartupSpec => AccountKept`

`StartupInv` (`StartupInvariant`) says what a start knows at each step: that there is
no file until it opens it, and that the account it goes on with is registered.

and about `Lifecycle`, for any frontend and any number of edits and signals:

* `LifecycleTypes`: `Spec => []TypeOK`
* `ReloadNotLost`: `Spec => []ReloadPending`
* `StopIsSafe`: `Spec => []StopFindsServers`

`LifecycleInv` (`LifecycleInvariant`) adds that the source runs until shutdown
(`SourceRuns`), that what was read is between what is installed and the file
(`Ordered`), and that all servers exist once Serve has returned (`Started`).

`ConfigProofs` proves about `NetworkSource`, for any number of configurations, faults
and frames (`NetworkAssumption`: natural numbers, a malformed frame is no configuration):

* `NoLateTimeout`: `Spec => []NoTimeoutOnceConfigured`
* `SecondChanceGiven`: `Spec => []GivesUpAfterTwo`

`NetworkInv` (`NetworkInvariant`) says where the deadline may be set
(`DeadlineInv`), how the second chance counts failures (`ChanceInv`), and that only
Stop closes a connection that is in use (`CloseInv`), so that setting a deadline
cannot fail before.

The pure functions are proved for all inputs, in `ProcessProofs` and `ConfigProofs`:

* `NamesAreLabels`: `IsDomainName(s) <=> ByLabels(s)` for every sequence of classes of
  characters and all limits; hence `NamesChecked`: `StartupSpec => []NamesHaveLabels`
* `WildcardsFit`: every name that `ApplyWildcards` returns covers its domain and is the
  one `NameFor` wants; hence `WildcardsChecked`: `StartupSpec => []WildcardsCover`
* `HeadersByRules`: `RewriteHeaders` leaves in every header what `HeaderAfter` says, for
  all headers and all rules whose values are not empty unless they delete, which is
  what the parser makes; hence `RulesChecked`: `StartupSpec => []RulesInOrder`
* `ParsedByBlocks`: `Parse(f) = ByBlocks(f)` for every sequence of lines; hence
  `FilesChecked`: `StartupSpec => []ParsesBlocks`

They are folds, and the provers cannot instantiate an induction theorem that has an
operator as a parameter. `SequenceProofs` therefore does induction with a set in
place of the operator: a set of numbers that has 0 and is closed under successor has
all numbers (`Induction`), from the least-number principle; a set of sequences that
has the empty one and is closed under `Append` has all (`SeqInduction`). A fold is a
recursive function over the sets of positions. `FoldExists` builds it position by
position, without which nothing could be said about it; `FoldRuns` shows that its value is
the last of a run of results, one after each member, and `RunsAgree` that runs
with the same steps agree. From that follows, for each function, how its value changes when one
member is appended (`KeepAppend`, `FlattenAppend`, `RewriteAppend`, `ReadAppend`).

*Names.* After i characters the loop of isDomainName has found them all good in their
places, and knows the character before and where the label began (`Tracks`,
`NameLoop`). Every edge but the first ends a label (`LastEdge`), so good places and good
labels come to the same.

*Headers.* Both sides are followed while a rule is appended. On the right that changes
the last reset, the base, the rules that set and what is added (`ResetAppend`,
`BaseAppend`, `SettersAppend`, `AddedAppend`); rules for other headers change nothing.

*Parser.* Lines are appended to a file. A route line starts a block, any other one
extends the last (`BlocksAppend`), which changes the route of that block by one line
(`RouteAppend`) and keeps it good just when the line fits (`GoodAppend`). The state of
the pass is a function of the blocks so far (`Parsed`): all but the last are finished
routes, the last one is the current route. `ReadStep` is the heart of it: reading one
more line in the state of the blocks so far gives the state of the blocks with that line if it is
accepted, and an error otherwise. An error stays (`FailedStays`), and a file without
one so far (`Fine`) is a good file once its last route has an upstream (`GoodIsFine`).

Only model-checked: all liveness (`AbandonedKeyExpires`, `EventuallyFresh`,
`RedirectsEnd`, `StartCompletes`, `ReloadHappens`, `ShutdownCompletes`,
`EventuallyCurrent`, `StopEnds`), since TLAPS does not prove liveness under fairness.
All invariants and action properties of the passing runs are proved.

## Not modelled

* Flags, logging, profiling and constructors that only copy options, those of the
  Redis store and of disabled builds included: no state.
* Protocol upgrades, bodies, paths and queries of requests; the pool of buffers;
  TLS options; the counter of TLS hellos: no property is about them.
* The rate limiter, the DNS challenge and the protocol of the ACME library, the
  Tailscale library, the Prometheus registry: external.
* Keys, PEM, X.509 and JSON; splitting of lines and URLs into their parts: pure
  conversions, abstracted to what they yield.

Possible extensions: `CertRenewal` over `RedisLock` itself on a small instance.
