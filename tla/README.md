# A TLA+ model of prometheus-auth

prometheus-auth sits in front of a Prometheus server in a Kubernetes cluster and
makes it multi-tenant: it identifies who sends a request, finds the namespaces
that this principal may see, and rewrites the request so that Prometheus answers
from those namespaces only. This directory models the program in TLA+, checks the
models with TLC on small instances, and proves the central properties with TLAPS
for every instance.

## The system

| Part | Source | State | Operations |
|---|---|---|---|
| Query rewriting | `pkg/prom` | none; works on matcher lists in place | `FilterMatchers`, `FilterLabelMatchers`, `ModifyExpression`, `NewExprForCountAllLabels` |
| Namespace sets | `pkg/data` | a set of strings | `Values`, `NewSet` |
| HTTP backend, access control | `pkg/agent/http.go` | per request: user info, namespace set | two routers, the middleware |
| Hijack handlers | `pkg/agent/http_hijack.go` | per request: the parsed query | one handler per API, `modifyQuery`, `parseTime`, `parseDuration` |
| API context | `pkg/agent/http_api_context.go` | per request: a `sync.Once` around the response | responses, proxying, error translation |
| Cluster lookups | `pkg/kube` | informer caches, token index | `GetSA`, `CanList`, `QueryByUser` |
| Access store | vendored `steve/pkg/accesscontrol` | RBAC indexes, revisions, an expiring LRU cache | `AccessFor` |
| Agent lifecycle, listeners | `pkg/agent/entry.go`, `listener.go`, vendored `cmux`, `netutil` | registered matchers, connection slots, error channel | `createAgent`, `serve`, protocol matching |
| gRPC proxy | `pkg/agent/grpc.go` | none | one dial per stream |
| Test scenarios | `pkg/agent/samples`, `http_test.go` | tables of requests and responses | - |
| Command line | `cmd/main.go` | none | flags |

How the parts interact. `net/http` runs every request in a goroutine of its own.
The outer router answers `/_/metrics` itself and forwards a white list of GET
paths as they are; everything else goes through the middleware of `accessControl`.
It identifies the principal, from the Rancher headers or from a bearer token
through the token index of the secret informer (`GetSA`). The agent's own token,
and a principal that may list nodes, are forwarded unchanged. For everybody else
`QueryByUser` lists the namespace cache, asks the access store once, and keeps the
namespaces that are not terminating and that the principal may get or list; the
monitoring namespace also needs access to the pods of the cluster. The handler of
the path parses the query, answers an empty result by itself if there are no
namespaces, and otherwise rewrites the query and forwards it. The caches and the
access store are shared, and changed by watches at any time.

Below the requests, one TCP listener with a limit on open connections feeds a
multiplexer. For every connection it accepts, the multiplexer starts a goroutine
that reads the first bytes, asks the registered matchers in turn, and puts the
connection into the channel of the HTTP server or of the gRPC server. These two
servers and the multiplexer run in three goroutines of `serve`, which returns, and
ends the process, when the first of them fails.

What is hard here:

- the lookups of one request happen at different moments, with watch events in
  between, and the answer is composed of what each of them saw;
- the rewriting has to be neither too wide nor too narrow when the query already
  has namespace matchers, of four kinds, possibly several of them, and it runs
  twice on range selectors; it exists in two copies;
- a remote read carries what no parser has looked at: patterns that do not
  compile and unknown matcher types are passed on;
- errors, panics and upstream failures each take another way to the client;
- range queries are checked with `float64`, `int64` and `time.Time` in turn, which
  round, saturate and wrap in different places;
- the access store hashes one reading of the roles and caches another one; the
  bytes it hashes do not always tell which roles they come from, and its controller
  is not told of every deletion;
- a connection holds a slot from its accept on, through four places that can end
  it, and the matchers are registered while the multiplexer already runs.

`PROJECT.json` lists these as hazards, each at its line.

## The modules

| Module | Contents |
|---|---|
| `Matchers` | the rewriting of `pkg/prom`, `data.Set.Values` and `modifyQuery` as operators |
| `Rewriting` | every input of the rewriting, as a state machine that builds matcher lists; the properties of the rewriting |
| `Backend` | the request path: routers, middleware, lookups, handlers, responses, the watches and Prometheus; its properties |
| `Tenancy` | the abstract specification: a request is answered in one step, out of what was true while it was open |
| `BackendTenancy` | the refinement mapping from `Backend` to `Tenancy` |
| `QueryRange` | the arithmetic behind the pre checks of a range query |
| `AccessStore` | lookups in the caching access store, with its revision controller |
| `AccessStoreExpiry` | the access store with a clock: the ages of entries, and how old an answer can be |
| `Server` | start-up, connection limit, multiplexer, protocol matchers, servers and the gRPC proxy |
| `Dispatch` | the abstract specification of the listeners: each connection is let in, given to one server and answered by it, or turned away |
| `ServerDispatch` | the refinement mapping from `Server` to `Dispatch` |
| `Scenarios` | the test tables of the program, as inputs and expected answers of `Backend` |
| `MCRewriting`, `MCBackend`, `MCQueryRange`, `MCAccessStore`, `MCAccessStoreExpiry`, `MCServer` | instances for TLC (`Scenarios` is one itself) |
| `MatchersProofs`, `RewritingProofs`, `BackendProofs`, `TenancyProofs`, `QueryRangeProofs`, `AccessStoreProofs`, `ServerProofs`, `DispatchProofs` | theorems |

### Matchers and Rewriting

A matcher is a record of a label, a type and a value. The value of a regexp
matcher is the *set of values the pattern matches*: both copies of the code anchor
the pattern on both sides, and nothing else of a pattern matters. `BadPattern` is
a pattern that does not compile and `"?"` an enum value that is no matcher type;
only the prompb matchers of a remote read can have them (`LabelMatcher`). A bad
pattern is assumed to be no value and to hold none, so that it cannot be taken for
a set of values.
`join(namespaces)`, the string `a|b|c`, is then the set of the namespaces, since a
DNS label contains no regexp operator. A series is a total function from labels
to values, with `Blank` for a label it does not have. The in-place updates of the
Go code are functional updates. The nil guards of the `translate` functions are
left out: no caller passes nil.

`filteredMatchers` is a recursive function and no `RECURSIVE` operator is used
anywhere, so that the theorems can be proved.

### Backend

One action for each read of shared state, with everything the goroutine does up to
the next one, because only reads of shared state can be interleaved:

| Action | Code |
|---|---|
| `Route` | the outer router, `httpBackend` |
| `Authenticate` | the middleware up to the identity, with `GetSA` and the token index |
| `CanList` | `nodes.CanList`, and the proxying that follows |
| `ListNamespaces` | `namespaceCache.List` in `queryByUser`, with the check of `DeletionTimestamp` (on the objects listed, which are immutable snapshots) |
| `QueryByUser` | the access set and the rest of the loop |
| `hijackFederate` .. `hijackLabelName` | one action per handler, with all its exits, the error translation of `apiContextHandler.ServeHTTP` included |
| `otherLabelValues`, `catchAll` | the last two routes |
| `Proxied`, `RemoteAnswered` | the answer of Prometheus through the reverse proxy, and through `remoteAPI.Query` |
| `WatchEvent`, `Arrive`, `Finish` | the environment |

`pc[r]` is the place of request `r` in that chain; `principal`, `listed`,
`namespaceSet` and `sent` are its locals. An expression of the client is the list
of its selectors, with what `ParseMetricSelector` and `ParseExpr` say of it (they
disagree on `{}`). `malformed` is one Boolean for all the pre checks of a
handler's other parameters; all of them end in the same error. The error return of
`queryByUser` (`namespaces.go:59-62`, a nil set) has no branch in `ListNamespaces`: it
is taken when the list of the namespace cache fails, and the list of an informer's
indexer with an empty selector does not. The nil set that it would hand on would be
read as no namespaces.

`window[r]` is a history variable that no action reads: what was true of the
cluster at *some* moment since the request arrived. The properties are stated
against it. The program promises no snapshot, so the strongest thing that can be
true is that an answer is justified by states that really occurred while the
request was open; and `stable` tells the requests into which no event fell.

### Tenancy and BackendTenancy

`Tenancy` has no caches, queries or handlers. A request is open between `Arrive` and
`Answer`; the answer to a tenant is `Inside(in, S)`, what it asked for inside *one*
set `S` of namespaces that were active and granted while it was open, and `S` is all
of them if the cluster did not change. An operator (the agent's own token, or a
principal that may list nodes) may get the answer in full, and anybody may be
refused. The mapping of `BackendTenancy` takes all places between arrival and answer
to "open", hides the principal until the answer, and keeps of an answer whether it
is a 200, its series and its label values. What the refinement adds to `TenantScope`
is *one* and *exactly*: a handler that looked at the caches a second time, or lost a
selector, would stay inside the scope and still break the promise.

### QueryRange

The pre checks of `hijackQueryRange` in their order, over texts that stand for what
the parsers make of them: a number, NaN, an infinity, an RFC 3339 time, a number of
units. Integers run from `-Half` to `Half - 1` (`Half` is 2^63 in the program), a
tick stands for a nanosecond, and a float is a multiple of `1/Part` tick,
with `Part` as large as it takes. The products with `float64(time.Second)`, in
`parseTime` of the fraction and in `parseDuration` of the whole number, are not exact:
`Round` takes the exact product to the float64 that the program goes on with. It is a
constant operator, of which the proofs assume only that it gives a number, and no
more than a second for what is no more than a second. The properties are stated on
the ticks that these rounded products name: the float64 of 0.3 is a little less than
0.3, its exact product would be cut to 299999999 ns, and the program, like the model,
makes 300000000 ns of it. (Other decimals lose a nanosecond; no property says by how
much the ticks differ from what was written.) The model also keeps what differs
between the types: the
check against `float64(MaxInt64)`, which is one too large; the conversion of a float
out of range, which is up to the processor (`saturating`: arm64, otherwise amd64);
the wrapping of seconds at the offset of year 1 and of durations with units; and the
saturation of `Sub`. `Sub` follows its documented contract.

### AccessStore

`AccessFor` in the steps between which another goroutine can run: list the cluster
role bindings, hash one role after the other with the revision that the store's own
controller has recorded, hash the role bindings, look the hash up, on a miss list the
cluster role bindings again, read the rules of one role after the other, and cache
what was read under the hash.

What goes into the hash is a sequence of records that end in a null byte, and the
model has the set of them: their order and their repetition tell nothing more about
the roles. A record is a role's name, its namespace and its revision with nothing in
between (`Written` of a cluster role and its revision, `Scoped` for role bindings), so
different roles can write the same one: `view` bound in a namespace `12345`, and `view`
bound in the cluster at version 12345. `Written` is a constant operator about which the
proofs assume nothing, and `Scoped` any set of records: they may coincide as they like.
`Plain(w)` says that only one role at one version, or only role bindings, write the
record `w`; a hash of plain records tells the roles that it comes from. Where it does
not, two users with different roles share an entry, and either is served what was
cached for the other. The properties below are stated for hashes of plain records,
or, as `BoundedStaleness`, for whatever the hash does tell.

A role that changes is queued for the controller, but a deletion may not be: the
informer hands on a deletion that it has missed and found out from a new list as a
`DeletedFinalStateUnknown`, of which lasso's `enqueue` gets no key. The revision of
the deleted role then stays where it is (`RoleChanged`).

Versions are numbers from one clock, like resource versions, and version 0 is a role
that is gone or not recorded yet. When the cache
is full any other entry may be evicted, the least recently used one included.

`quiet[p]` is a history variable that no action's guard reads: the controller had
the versions of the user's roles when the lookup began and no change has fallen into
it since. An
entry remembers whether the lookup that filled it was quiet, and a lookup that is
answered from an entry is only as quiet as the entry.

### AccessStoreExpiry

`AccessStore` lets an entry expire at any time, which is enough for what lookups do
to each other. This module says when: `Add` starts the 24 hours (`TTL`) of an entry,
also of one it replaces; `Get` compares with the clock, serves what is not too old and
removes what is; a hit does not touch the time. It reuses the actions of
`AccessStore`, one by one, and adds four timers: the age of each entry, how long each
lookup has been on its way, and two histories that no guard reads, how long ago each
role was last bound to each user and each version of a role last in force. `Tick` makes all
of them older by one; it is the only step that takes time, so everything else may
happen between two ticks, in any number and order. A timer stops at a value above
every bound it is compared with.

`MaxRun` bounds the ticks of one lookup, and is an assumption: a lookup works in
memory, without waiting for anything but the scheduler. A stalled one makes the
answer older by as long as it was stalled, and the bound of `BoundedStaleness` says so.

### Server

One action for each step that another goroutine can fall between.

| Action | Code |
|---|---|
| `Listen`, `createAgent`, `serve`, `serveReturns`, `Fatal` | `Run`, `createAgent`, `serve` of `entry.go` |
| `MatchRead`, `MatchWrite`, `TornRead` | `m.sls = append(m.sls, ...)` of the two server goroutines, without a lock; a slice header has three words, and a reader that sees half of a write ends the process |
| `Acquire`, `Accept`, `AcceptFails`, `SniffersDone`, `Drain` | `cMux.Serve` over the `LimitListener` |
| `StartSniffing`, `Sniff`, `HandOver` | `cMux.serve`, with the matchers of `listener.go` |
| `ServerAccepts`, `ServerReturns`, `Handle`, `CloseServed` | the two servers, `grpcBackend` |
| `InformersSync`, `Connect`, `Send`, `HangUp` | the environment |

A connection's bytes are chunks that arrive one by one; a matcher looks at what has
arrived and says yes, no, or not yet. The loop of the gRPC matcher ends at the first
HEADERS frame that announces a call in its last field or has END_HEADERS, and at
whatever `ReadFrame` refuses: a broken frame, or one that is out of order
(`checkFrameOrder`: CONTINUATION follows unfinished headers, and nothing else does).
It skips every other frame, CONTINUATION and the fields in it included. What a server
reads again of the bytes that a matcher has read, cmux's buffer, is not modelled. A
client may be polite, and send no headers
before it has seen the server's SETTINGS. The branch of `serve` for `ctx.Done()` has
no action: the context is cancelled by a `defer` of `Run`, after `serve` has
returned, so it is never taken.

### Dispatch and ServerDispatch

`Dispatch` has no slots, channels, matchers or goroutines. A connection waits, is let
in when the agent is ready and fewer than `Limit` are inside, and is then turned away,
or given to one server that speaks what the client has sent so far; that server
answers the call at most once, and closes the connection. What the client has sent
only grows, and a closed connection stays as it is. The mapping takes the whole way
through the multiplexer, from the accept to the channel of a listener, to "admitted",
and a connection has an owner from the moment a server has taken it out of the
channel. What the refinement adds to `SlotsExact` and `RightServer` is *once*: the
drain of a channel and the server that reads from it compete for the same
connections, and a connection that both of them get would still be counted and still
be of the right kind.

### Scenarios

The rows of `pkg/agent/samples` as inputs of `Backend`, on the series that
`Test_accessControl` loads and with the namespaces that its fakes hand out. The same
operators that the proofs are about have to give the answers that the program's
authors wrote down.

## The runs

| Run | Checks |
|---|---|
| `rewriting` | `SelectorExact`, `VisitedTwice`, `ReadConfined`, `CopiesAgree` |
| `backend` | `TypeOK`, `PrincipalGenuine`, `TenantScope`, `StableAnswerExact`, `Promise`, `EveryRequestAnswered` |
| `unknown_token` | `UnknownTokenRefused`, violated |
| `scenarios` | `ScenariosPass` |
| `query_range` | `RangeDecision`, `StepGenuine`, `ShortStepsLimited` |
| `resolution` | `ResolutionLimited`, violated |
| `access_store` | `TypeOK`, `NeverOlderThanHash`, `QuietAnswersCurrent`, `EventuallyCurrent` |
| `expiry` | `BoundedStaleness`, `QuietAnswersCurrent` |
| `revoked_access` | `MetricsUserCanAccess`, violated |
| `server` | `TypeOK`, `SlotsExact`, `CachesFirst`, `RightServer`, `RefusedOnlyUnregistered`, `OnlyThroughBackend`, `Dispatches` |
| `server_live` | `EveryConnectionSettled`, `FailureEndsProcess` |
| `idle_connection` | `ReadTimeoutClosesIdle`, violated |

**rewriting.** Every list of up to two matchers from the pool of `MCRewriting`, for
every namespace set and every set of dropped labels. `SelectorExact` says that a
rewritten selector reads exactly what the raw one reads inside the namespaces.
`VisitedTwice` says that the second visit of a range selector changes nothing.
`ReadConfined` says that a remote read that Prometheus can decode after
`modifyQuery` stays inside. `CopiesAgree` compares the two copies of the code. Two
matchers are enough for every pair of a rewritten matcher and one that is left
alone, and for the interplay of dropped labels and the namespace matcher; longer
lists are covered by the proofs. The run ends when the lists are at their bound,
so deadlock is not checked.

**backend.** One request slot, which is used again after every request, all
handlers with inputs for every branch as a user, a selection of them with every
other kind of credential (which is decided before the handlers), and up to
`MaxChanges = 2` watch events that may change any namespace, grant or secret. Two
events suffice for a state that changes and changes back between two lookups.
`TenantScope` is the promise of the program; `PrincipalGenuine` says who a request
may act as; `StableAnswerExact` says that the answer is also *complete* if nothing
changed meanwhile, and `Promise` that every behaviour of the request path is one of
`Tenancy`. The state of the cluster is shared but never written by a
request, so one slot shows what requests can do to each other: nothing but leave
something behind in the slot. The proofs cover any number of slots.

`EveryRequestAnswered` is the liveness of the path, in every handler: a request ends,
and with a status. The one exception is written into it: a bearer token for which
`GetSA` returns neither a service account nor an error makes the middleware panic, and
the connection is closed without an answer (`unknown_token`). Requests hold no
lock, so none waits for another, and one slot is enough here too. `FairSpec` assumes weak
fairness of the steps of every request: the goroutine is scheduled, and Prometheus
answers or the connection to it fails. The program sets no timeout on the upstream
connection, so the second half is an assumption on the environment.

**unknown_token.** Expected to fail, and it does: `GetSA` wraps a nil error when the
index does not hold exactly one secret for a token, so it returns neither a service
account nor an error, and the middleware dereferences nil. The connection is closed
without an answer instead of the intended 401. See `findings` in `PROJECT.json`.

**scenarios.** One request at a time from the tables, in a cluster that does not
change. Besides the answer of its row a request may get a 502, or for the values of
`__name__` a 422 or 500, when the connection to Prometheus fails, which it does not
in the test.

**query_range, resolution.** Integers of 4 bits (`Half = 8`), three ticks to a second and
floats of 3 significant bits, rounded to nearest and even (`NearestEven`). As in the
program, a second is no power of 2 ticks, so products have to be rounded: 5/8 seconds are
1.875 ticks and become 2, and 3 seconds are 9 ticks and become 8, one more than the
largest integer. Times and durations are all such floats, down to an eighth of a
second, from below the smallest to above the largest value, and the ticks of RFC 3339
times, so that every rounding, saturation and wrap-around happens, in combination.
`RangeDecision` compares the decision with a count of the points in ticks, for all
requests whose numbers are in range. `StepGenuine` says that no NaN, infinity or overflow of
a number gets through as a step, on either kind of processor. `resolution` shows
what gets through: a range longer than the largest `Duration` (292 years) with a
long step has more points than the error message allows. `ShortStepsLimited` says
how far that goes: with a step of which `Limit + 1` fit into a `Duration`, about 9
days, the limit holds for ranges of any length. The handler returns, so
deadlock is not checked in these runs. A time that is NaN or infinite also passes
`parseTime`, as some time, and so does one whose seconds do not fit into `int64`
(`RangeDecision` leaves these out, see the hazards); and a step with a unit, such as `600y`, wraps around to
another one; Prometheus parses the original text again.

**access_store, revoked_access.** `access_store` has one lookup after the other, for
two users, because users with the same roles, or with the same records, share a hash;
a cache of one entry, so that entries are evicted; one cluster role `r1`, and a role
binding whose record is that of `r1` at version 2 (`MCScoped`), so that the hash of one
user can be that of the other with other roles; changes up to version 4, enough for a
binding that comes and goes between two reads and for a deletion after it, lost or not.
`NeverOlderThanHash` is what the order of the code guarantees: the hash is computed
before the rules are read, so an entry is never older than its key tells. It can be
newer, and that is what `revoked_access` shows, with two lookups and without role
bindings: a binding is added after the hash and removed after the set was read, and the
entry is then served under a hash that is valid again.

`QuietAnswersCurrent` says what else it takes to go wrong: a lookup that raced with no
change and whose hash tells its roles, answered from an entry (if it is) whose filling
raced with none, gives exactly the user's present access, however many changes lie
between the two and whichever user filled the entry. So only three things give a wrong
answer: a race, records that coincide, and a deletion that the controller was not told
of. Without the premise on the hash TLC finds a violation in this run: the collision
happens. `EventuallyCurrent` says that the expiry heals races and lost deletions when
changes stop; it does not heal coinciding records, with which two users keep filling
one entry for each other. It assumes weak fairness of the controller's workers, of the
expiry of each entry (24 hours) and of the steps of a lookup that has begun. One role is
enough for these: `NeverOlderThanHash` speaks of one role at a time, and the proofs
cover any number. Two concurrent lookups are in `expiry`, which checks
`QuietAnswersCurrent` too; both in one run are too many states.

**expiry.** Two lookups, interchangeable, one user, one role and the same role binding, a
cache of one entry and changes up to version 3, with `TTL = 1` and `MaxRun = 1`: enough
for a lookup that takes a tick to fill an entry, for an entry that lives through its
whole time and one tick more, and for a lookup that takes a tick to return from it.
`BoundedStaleness` says that an answer was somebody's access at most `TTL + MaxRun` ticks
before the lookup it answers began, role by role: the same user had every role that the
hash tells or that was read, and each role had the rules that were read, at some moment
within that time. Who that user is it cannot say: where records coincide, it need not be
one with the roles of the user asked for. With a bound that is one tick smaller TLC finds
a violation, so it is attained. Several users matter only in that they share entries; the
proof covers them.

**server, server_live.** `server` has two connections and two slots, so that one can be
queued while the other is sniffed, served or drained, and none is left for the accept
loop. Each is of any of five kinds of client (see `MCServer`): HTTP/1 with a long and a
very short request, gRPC in its first HEADERS frame and in one after headers that are
continued in a second frame, and HTTP/2 that is not gRPC.
Their chunks arrive one by one, while the matchers are being registered, and a client
may stop or hang up after any of them. What else a client may send is left to the proofs,
which cover any. The code's 1024 places in a listener's channel
are `connBuffer = 1`, so that a channel can be full when a sniffer wants to hand over.
`Dispatches` says that all of this is a behaviour of `Dispatch`. `server_live` has one
slot, so that one connection has to wait for the other, and clients that say nothing
or speak gRPC, the two kinds that only end when the client hangs up. Both liveness properties assume that every goroutine that can
run does, that a waiting connection is accepted if accepts keep being tried (strong
fairness, the queue of the kernel is fair), and, as assumptions on the environment
(`EnvironmentMoves`), that the first lists of the informers arrive and that clients
hang up in the end. `FailureEndsProcess` says that nothing but a silent client can hold
back the end of the process: `Serve` waits for every sniffer before it reports its
error, so a client that neither speaks nor hangs up holds it back for ever. That hazard
is assumed away here, and `idle_connection` shows it.

**idle_connection.** Leaves out the assumption that clients hang up, which is what a
read timeout is for: a silent connection, and a polite HTTP/2 client that waits for
SETTINGS, stay in the multiplexer for ever and keep their slots, since `ReadTimeout`
starts only with the HTTP server.

The model of the listeners has two more behaviours that a reader should know of, and
for which the repository states no promise that could be checked. The matchers are
registered by the goroutines of the servers, without a lock, while the multiplexer
may already run: a connection that comes early is refused, and when both read
`m.sls` at the same time one registration is lost for the life of the process
(`RefusedOnlyUnregistered` says that an HTTP/1 connection is refused for no other
reason). And the callback of the gRPC matcher overwrites its result on every header
field, so that only a call whose `content-type` comes last is recognised; the
vendored gRPC client sends it earlier. `RefusedOnlyUnregistered` is therefore stated
for the calls whose `content-type` ends a HEADERS frame, after frames in an order that
HTTP/2 allows: they are refused only if the gRPC matcher was not there, however their
bytes are cut into such frames and whenever they arrive.

Every property of a passing run has a mutant, a plausible bug in one definition of
the model that makes TLC find a violation of that property.

## The proofs

All theorems hold for every value of the constants that satisfies the named
assumptions. These say that the special labels, values and tokens differ as in the
program, that no series carries the namespace `______`, that there is a user and a
second fits into a `Duration`, that rounding a fraction of a second gives no more than
a second, and that the enumerated inputs and clusters are well
typed.

`MatchersProofs` proves what the rewriting does to a list of any length. The chain
is `TranslateIsModify` (each of the four branches narrows a matcher to the
namespaces it matches), `TranslateMatcherExact`, `FilterExact` (the list),
`FilterIdempotent`, `ModifyExpressionExact` (the double visit is harmless because
of idempotence), and for remote reads `FilterLabelConfined` and
`ModifyQueryConfined`. `RewritingProofs` lifts them to `Spec => []P` for the four
properties of the run.

`BackendProofs` proves `TypeOK`, `PrincipalGenuine` and `TenantScope` as invariants
of `Backend`. `TenantScope` speaks of finished requests only; `IInv` makes it
inductive by saying for each place what the locals have to do with the window:

- while a request is open, its window covers the present state of the cluster
  (`Covered`), so whatever a lookup reads is in the window;
- after `ListNamespaces`, what is listed was active; after `QueryByUser`, the
  namespace set is inside `Scope`;
- a query that has been sent is `Confined`: if Prometheus accepts it, it reads
  nothing from outside the scope (by the theorems on the rewriting);
- an answer is `Scoped`.

The key to the interleavings is monotonicity: a watch event only widens windows,
and every conjunct of `RequestInv` survives that (`WatchEventInv`). `StepOfOne`
shows that a step of one request cannot disturb another one. Each action then has a
lemma of its own, most of which reduce to `RespondInv` or `ForwardInv`.

`TenancyProofs` proves `Refinement`, `Spec => Promise`. `IInv` is too weak for it: an
answer inside the scope need not be complete. `TInv` adds `PathInv` for each request:

- while the window of an open request is stable, it *is* the present moment, so what
  a lookup reads is all there is;
- after the lookups, the namespace set is one of the sets that `Tenancy` allows
  (`Sourced`);
- a query on its way to Prometheus is `Proper`: if it is valid, the series it reads
  are exactly those the client asked for inside the namespace set (by the theorems
  on the rewriting, `ModifyExpressionExact` and `ModifyQueryExact`);
- a finished request shows a permitted answer.

A step that writes a response is the abstract `Answer` (`RespondRefines`), arrivals,
ends and watch events map to their namesakes, and every other step stutters.
`StableAnswerExact` is then a consequence of `TInv`.

`ServerProofs` proves every safety property of `Server`, for any
number of connections, any limit and any clients. `SlotsExact` needs to know that a
channel holds each connection once and only connections that are queued for its
listener (`QueueOK`): otherwise draining a channel could give back the slot of
another connection. `RightServer` and `RefusedOnlyUnregistered` rest on `SniffOK`: a
matcher that said yes or no stays right about it, since the first chunks of a
connection do not change and nothing follows its end. For the gRPC matcher a no means
(`NotGRPC`) that the connection has ended without a call, does not begin with the
preface, or has a frame that ends the search before any frame that announces a call;
the frame that decided is the first of those that could (`FirstFrame`).

`AccessStoreProofs` proves `TypeOK`, `NeverOlderThanHash` and `QuietAnswersCurrent`
for any number of lookups, users, roles and changes. The invariant for the second
says that the indexer is never behind a revision that the controller holds or a hash
tells, which survives because versions only grow. The third needs `QInv`:

- the hash and the access set of a quiet lookup are each, up to the roles still to
  do, a reading of the present (`QuietOK`);
- an entry that a quiet lookup filled has as its key the records of its own access set,
  and records of role bindings (`QuietEntry`). Such an entry stays true for ever:
  whoever computes this key again at a quiet moment, and finds all its records plain,
  has just these roles at these versions (`SameRoles`, from `PlainWriter`: a plain
  record has one writer).

None of this needs to know what the records look like, or that a deletion is queued.

`TimedImplements` says that `AccessStoreExpiry` only restricts when an entry goes: it
maps every step to one of `AccessStore` or to a stutter, so all of the above holds with
time as well. `BoundedStalenessHolds` then needs `EInv`, which carries the evidence from
the reading to the answer:

- what is bound or in force now has a history timer of 0 (`InForce`);
- what a lookup holds was true of its user since it began, `run[p]` ticks ago
  (`LookupRecent`); after a hit it is as old as the entry was, and the lookup itself;
- what an entry holds was true of one user, the one whose lookup added it, within its
  age and the longest time of a lookup (`EntryRecent`).

A tick adds one to both sides of each of these, an `Add` turns the second into the
third with age 0, and a hit turns the third back into the second, with an age that
`Get` has found to be within 24 hours.

`DispatchProofs` proves `DispatchesHolds`, `Spec => Dispatches`, for any number of
connections, any limit and any clients. The invariants of `ServerProofs` are just what it
needs: an accept finds room because the loop holds a slot that is no connection's
(`SlotsInv`, `InsideHeld`); the head of a channel is queued, so neither the drain nor a
server takes a connection that somebody has (`QueueOK`); the server speaks its protocol,
because a matcher that said yes stays right however long the connection has waited
and whatever it has sent since (`SniffOK`); and the caches are filled before anything is
accepted (`SyncedFirst`). Each action is an abstract step or a stutter in a lemma of
its own; `MovesBar` says once what moving a connection does to the mapped variables.

`QueryRangeProofs` proves `RangeDecision`, `StepGenuine` and `ShortStepsLimited` for
integers of any size, any length of a second that is itself a `Duration`, any
precision of the floats, any rounding of their products, any limit and either
processor. There is one handler step,
so the invariant adds only that the form is one of the enumerated ones; the work is in
the arithmetic. Division is characterised once (`DivMod`, `DivUnique`, and
`TruncUnique` for Go's division towards zero), then each conversion is shown to be
exact on the values it is used for, rounded or not (`Int64Exact`, `UnixExact`,
`ModfRest`, `ParseTimeExact`, `ParseDurationExact`), and `PointsCount` turns the number of points
into a quotient, which is what the handler compares with the limit. The attempt at
`RangeDecision` showed that "in range" has to be exact at the lower end: a number less
than a tick below the smallest `Duration` would truncate to it, yet `parseDuration`
refuses it, so a request with such a `timeout` does not pass (`Proper`).

Only model-checked: the four liveness properties (fairness is out of the prover's
reach) and `ScenariosPass`, which is about given inputs.

## What is not modelled

- The values of labels other than `namespace` and `__name__` are proxied without
  filtering (`/api/v1/label/{name}/values`). The model has this as
  `otherLabelValues`, and `TenantScope` leaves these values out on purpose.
- Truncated responses: a client or upstream connection that breaks in the middle
  of a body.
- In `Backend` the access store is current whenever it is asked. `AccessStore` says
  how far that is from the truth: what `Backend` calls granted is what the store
  answers, which may be a grant that was revoked up to 24 hours ago, and the time of two
  lookups (`BoundedStaleness`), or, where the hashes of two users coincide, the grant of
  the other one. The delay of the
  informers behind the API server is in neither module: "the cluster" is what the
  caches show.
- What a role binding grants inside its namespace in `AccessStore`, which has only what
  it writes into the hash: the agent asks for cluster-scoped names, which only cluster
  role bindings grant. Groups and service accounts as subjects run through the same
  code.
- `len(namespaceSet)` is compared with zero where the rewriting uses `Values()`,
  which drops the empty string; no namespace has an empty name.
- The command line (`cmd/main.go`): flags and the set-up of the log. The flags that
  matter are constants of the modules. The profiler that `Run` starts on
  `localhost:6060` shares nothing with the rest.
- What the gRPC proxy would do with a connection to Prometheus: with its dial options
  it never gets one (`OnlyThroughBackend`).
- cmux's buffer: that a server reads again all the bytes that a matcher has read.
- Write timeouts, keep-alive and several requests on one connection: `CloseServed`
  may end a connection at any time after it was handed over.
- The sample times of series; two rows of the series table are about them.
- The index of namespaces by project, which the program builds and never queries.

## Plan

Done: all the modules of the plan, in the order `Matchers`, `Rewriting`, `Backend`,
`Server`, `AccessStore`, `Tenancy`, `QueryRange`, `Scenarios`, `AccessStoreExpiry`,
`Dispatch`. What is left is `Backend` over `AccessStore` in place of the variable
`grants`, with the window extended by what the cache may still hold. The product is
too large for TLC as the two modules stand; it would take an abstract store that
promises `BoundedStaleness` and no more, and its refinement.
