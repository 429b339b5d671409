# A TLA+ model of mcpx

mcpx is a Go library that holds sessions with many upstream MCP servers, keeps
them alive, and routes tool calls to them through hooks, policies and a
response cache. This directory models its concurrent core, checks the models
with TLC and proves the most important properties with TLAPS.

## 1. Inventory

| part | source | state | operations |
|---|---|---|---|
| server lifecycle | `multiplexer.go` | `mx.servers`; per entry `session`, `tools`, `state`, `reconnecting`, `refreshCh` | `New`, `connect`, `Close` |
| health check and reconnect | `healthcheck.go` | supervisor round, probe, backoff | `runSupervisor`, `probeServer`, `reconnectServer` |
| tool refresh | `toolrefresh.go` | a channel of capacity one per server | `ToolListChangedHandler`, `runToolRefresh`, `applyToolRefresh` |
| transports | `transport.go` | none of their own | stdio subprocess, HTTP, SSE |
| HTTP client | `transport.go`, `auth_func.go`, `auth/`, vendored `go-retryablehttp` | per request: headers, attempts, backoff | `retryableHTTPClient`, `RoundTrip`, `Bearer`, `HeaderToken` |
| tool calls | `caller.go`, `hooks.go`, `metrics.go` | locals of each call; the cache | `CallTool`, BeforeCall, ResultTransform, AfterCall, OnRejectedCall, RecordCall |
| response cache | `cache.go`, `tool.go` | list, index, result objects | `Get`, `Set`, `Clone`, cacheability, TTL, key |
| policies | `policy/policy.go` | token buckets | `RateLimit`, `DenyDestructive`, `RequireRoles`, `AuditLog` |
| listings and views | `filter.go`, `multiplexer.go` | none (reads under `mx.mu` and `entry.mu`) | `ServerNames`, `ServerStatus`, `AllTools`, `KindGroups`, `KindsForServers`, `ToolsForServers`, `FilterByNames`, `View` |
| argument pipeline | `transform.go`, `validate.go` | none | transformers, field map, placeholder and schema checks |
| configuration | `config.go`, `options.go`, `from_sessions.go` | options, the built-in cache | options, checks in `New`, `NewFromSessions` |
| adapters | `eino/`, `log/`, `logger.go` | none | conversions and output |

How they interact. `New` connects all servers concurrently, registers an entry
for each (a stub in state down if the connect failed) and only then starts the
goroutines: a `reconnectServer` for each stub, one `runToolRefresh` per server,
and the supervisor if `WithHealthCheck` was given. The supervisor probes every
entry that is not being reconnected and starts a `reconnectServer` when the
probe fails; `entry.reconnecting` is the lock between them. The SDK delivers
`notifications/tools/list_changed` as a callback that signals the refresh
goroutine. `CallTool` snapshots an entry under its lock and then works with the
snapshot alone. `Close` cancels the context everything runs under and closes
the sessions while it holds `mx.mu`.

What is hard about it, and what correctness means:

* *Lifecycle.* Four kinds of goroutines and a closing caller share an entry,
  and each holds values it read before a remote call. Correct means: one owner
  of an entry at a time, no session torn down that answers, no session leaked,
  every server that is down being worked on, and after cancellation everything
  ends.
* *Refresh.* Signals are merged in a channel of capacity one and dropped during
  a reconnect, and a fetch may fail. Correct means: the last list a server
  announced is the one kept.
* *Calls.* Eleven ways out of `CallTool`, user code in the middle, an entry
  that changes underneath, results shared through the cache. Correct means:
  observers are told once and in order, and a caller gets an answer to its own
  question, transformed, and not one that must not be cached.
* *Arguments.* Checks, transformers and renamings whose order matters and that
  work on different forms of the arguments. Correct means: every argument
  arrives once, as configured, and what was checked is what is sent.
* *HTTP requests.* A retry loop inside an authentication layer, under a deadline
  that can pass anywhere. Correct means: a bounded number of copies reaches the
  server, none that the AuthFunc did not let through, none after a final answer,
  and a request whose call is over ends.
* *Listings.* Readers visit one entry after the other while others change them
  and `Close` queues for the lock. Correct means: what is told about each server
  was true during the call, groups partition the servers, nobody waits for ever.
* *Start-up.* Options that write the same fields, checks before any connection.
  Correct means: the last usable option counts, and nothing is opened for a
  configuration that is turned down.
* *Cache and buckets.* Boundaries: a full cache, the instant of expiry, a bucket
  after a long pause or many refusals.

The complete list, with the line where each can bite, is under `hazards` in
`PROJECT.json`.

## 2. Modules

```
Sessions          servers and SDK sessions (environment)
  Lifecycle       New, connect, supervisor, reconnect, refresh, Close
    LifecycleProps   properties, fairness         implements Availability
      LifecycleProofs
CacheKey          the default key of the response cache
  CallPath        concurrent CallTool against what Availability allows
    CallPathProps properties, fairness
      MCCallPath  instances for TLC
      CallPathProofs
HttpClient        authentication, retries and backoff of an HTTP request
  MCHttpClient    instance for TLC
  HttpClientProofs
Startup           options, configuration checks, New and NewFromSessions
  Listings        the read API and Close against entries that change
    MCListings    instance for TLC
    ListingsProofs
      StartupProofs
ArgsSteps         the steps of CallTool on the arguments of a call
  ArgsStepsProofs
  ArgsPipeline    what each of these steps computes
    MCArgsPipeline   instance for TLC
LRUCache          the built-in cache              implements ResponseCache
  LRUCacheProofs
RateLimit         the token bucket
  RateLimitProofs
```

Operators whose comment begins with *Variant:* are deliberately wrong versions
of the definition that follows them; each is the plausible bug that a property
was seen to catch. No specification uses them.

### Sessions

The part of the world that is not in this repository. Sessions of a server are
numbered in the order they were established. A server is up, down or *hung*
(alive and silent), and one that is up may answer a request with an error
(`Refuses`); crashes, hangs and error answers are its *faults*.

A call whose context is done does not simply return. The SDK first tells the
server with `notifications/cancelled`, on a context that has no deadline and is
not cancelled (vendored `mcp/transport.go:188-194`). Over a pipe the notice is only
written, so the call ends at its deadline; over HTTP it is a request of its own,
and a hung server keeps the caller waiting until it answers again or is gone
(`NoticeBlocks`, `CallOverdue`, `NoticeReturns`). The request itself stays
outstanding in the SDK's connection (always over a pipe, possibly over HTTP), and
`ClientSession.Close` waits for outstanding requests: `stuck` records this, and
`CloseReturns` depends on it. `AnswerLate` is the answer that may come later;
nothing obliges a server to give it. Over HTTP, Close also sends a DELETE and
waits for its answer. A stdio server is a child of
`exec.CommandContext` and dies when the context is done (`KillProcess`). An RPC
takes the server's answer at the instant of its action. What the SDK itself
closes when `Connect` fails half way is not visible to this code and is left
out.

### Lifecycle

One action per stretch of code between two points where another goroutine can
be seen: a lock, an atomic, a channel operation, a remote call, a user callback.
Action names start with the function they belong to (`reconnectMarksDown`,
`probeReads`, `refreshSwaps`, `CloseCloses`, ...); `map` in `PROJECT.json` gives
the lines. Conventions:

* `mx.mu` is write-locked only by `Close` once `New` has returned, so `MuFree`
  is all that readers need of it. `entry.mu` is held over a single step.
* A local variable that is dead goes back to its initial value, so that states
  do not differ in garbage.
* `oldSession` in `reconnectServer` is `entry.session`: only the goroutine that
  owns the entry assigns it (this is part of what is proved).
* A tool list is its version and the session it was listed on. The comparison
  `toolListsEqual` and the callbacks `onToolsChanged` and `onConnect` change no
  state of the multiplexer.
* `connect` has no deadline of its own: its dial and its fetch wait out a hung
  server. Probes and refreshes have one, behind which they may be `overdue`: over
  HTTP, waiting for their cancel notice to be taken.
* An error answer of a server that works counts like any other failure: it makes
  a probe start a reconnect, `connect` close its session, and a refresh keep the
  old list with the signal used up.
* Reconnects that have cleared the flag and still run `onReconnect(name, nil)`
  are counted in `okcb`, because a new one may start meanwhile.

Bounds: `Faulty`, `MaxFaults` (crashes, hangs and error answers per server),
`MaxVersion` (tool lists per server), `BackoffCap` (60 in the code). All are
constants, and the proofs hold for every value of them.

### Availability

What everybody else may assume: a server is connected or down; what it is
connected through changes only on the way from down to connected, and always to
something newer. `Lifecycle` implements it (checked and proved).

### CallPath

Any number of `CallTool` invocations. The entries change underneath by
`ServerGained`, `ServerLost` and `ToolsRefreshed`, which allow everything
Availability allows, so that the result holds whatever the lifecycle does. The
cache is a map that may forget any entry at any time (`CacheForgets` stands for
expiry, eviction and custom caches); a tool whose `cache_ttl` is zero or below is
not stored at all (`keeps`). Hooks do anything
their types allow: a BeforeCall hook continues (with another cache scope in its
context), aborts or answers; a ResultTransform hook rewrites the result or
fails. Hooks that panic are not modelled.

A server in `Quiet` may fall silent and answer again. Its calls are then not
answered; when their deadline has passed they return if the server is a
subprocess, and over HTTP wait with their cancel notice (`upstreamTimesOut`).
Close holds `mx.mu` until every session is closed, which over HTTP takes a server
that answers and calls on that session that are over (`sessionCloses`).

Arguments are names in classes (`Unparsable`, `Placeholder`, `OffSchema`);
`finalArgs` is what the pipeline makes of them, so two spellings may mean the
same. `cacheKey` is any key function; `KeyTells` says that it tells different
calls apart, and the properties that need this have it as their premise. The runs
give it `defaultCacheKey` of `CacheKey`, where a text is the sequence of its parts
between bars: it tells calls apart as long as no scope and no name of a server or
tool has a bar in it, whatever the arguments have, and does not otherwise
(`CacheScope.cfg`). Arguments that do not parse count as none in the key, as
`canonicalJSON` has it. A result records where it comes from, what the upstream
call was about, and how many transform hooks it went through: all a property could
ask. The state of a call and the checks that follow its snapshot are one step,
because nothing shared is read in between.

### HttpClient

One request of the SDK: the authentication round tripper, which calls the
`AuthFunc` once on a clone, and inside it the retry loop of the vendored client
with its policy, its limit and its backoff. `auth` is no block at all or one
block, which may be empty: an empty one is still handed to the `AuthFunc`. A
custom `AuthFunc` sets any headers, none included, or fails. The loop is not code
of this repository but is vendored with it, and its lines are in the map. Answers
are classes that the policy tells apart; time is left out except for the one
moment at which the context is done. The server receives a copy, works on it and
answers, and the connection may break before, between and after: a copy that was
received and whose answer is lost is sent again. Redirects are followed within an
attempt, and too many of them end the request like a request that cannot be sent
(`Hopeless`). `received`, `fnCalls`, `denied` and `late` are history variables.
Requests share only the configuration and the credential, which none of them
writes, so one request stands for any number.

### Startup and Listings

`Startup` is what the constructors do with their arguments: the list of options
applied one at a time, the built-in cache, the checks in their order, an entry
per server. Values of options are small integers (0 is nil). The goroutines that
New starts are in Lifecycle; here a server is reached or not.

`Listings` adds the read API of the result. A listing takes `mx.mu`, visits the
entries in map order (any order) or in the order it was given, reads each under
`entry.mu`, and returns; a name that is not registered is passed over (`skips`).
`acc` is what it has read and `out` the tools of it, one list behind the other.
`becomes` lets reconnects, failed probes and refreshes assign an entry between two
visits; `Close` waits for the readers and keeps new ones out, as `sync.RWMutex`
does, and gives the lock back when no silent HTTP server keeps it from closing a
session (`fallsSilent`, `blocking`). `KindGroups` reads `entry.tools` without
`entry.mu`: its read is two steps, and when an assignment comes between them it
gets the elements of one list and the length of another, possibly with memory
behind the end of an array (`Garbage`). `looksUp` and `listsThen` are operations
that take the lock twice: `CallTool` for an unknown server, and a view that is
made and then listed. Sorted results are sets. The key that `ToolsForServers` uses
to find duplicates, made of the name asked for and the tool's name, is a sequence
of parts between slashes, and names may have slashes: two servers' keys may then
be the same (`Clear` says that those of a server are not). Its result is what is
at the positions of the first occurrences (`firsts`, `Picked`), each at the place
that counting them gives it (`rank`).

### ArgsSteps and ArgsPipeline

The computation behind `finalArgs` in CallPath. `ArgsSteps` has the control of
`CallTool`, one action per step and one turn of the transformer loop at a time;
what the steps compute are its parameters. `ArgsPipeline` defines what
ArgsPipeline.cfg gives them (`Placeholders` is `findInvalidArgs`, `Renamed` is
`applyFieldMap`, and so on) and is what TLC checks. JSON values are trees; names are
split at underscores and strings at spaces, because that is where `snakeToCamel`,
`strings.Join` and `strings.TrimSpace` act. Loops over Go maps run in random
order, so a renaming has a set of results: of two fields that get the same name
either may survive. A custom transformer returns anything in `CustomResults`,
also a value that does not marshal, after which the schema check, the hooks and
the cache see the caller's arguments and not the ones that are sent. The schema
library is external: a schema requires some fields and gives types to some.
Recursive operators follow the recursive functions, so ArgsPipeline is checked and
not proved about; what does not depend on them is proved of ArgsSteps. The
reference definition in the properties knows no trees and no loops: it follows one
leaf, with its path, through the list of transformers.

### LRUCache and ResponseCache

`LRUCache` has the list, the index and the entries as separate structures, and a
heap of result objects that callers go on rewriting, so that a missing `Clone`
would be visible. `ResponseCache` is the contract of the `Cache` interface: a
map of values with an expiry. A `Set` with no result or a ttl that is not
positive does nothing and is not an action.

### RateLimit

`tokenBucket.allow`. The code computes in floating point; the model counts
tokens in units of 1/`Per`, which turns the refill `elapsed / per * burst` into
the integer `elapsed * Burst`. Rounding is not modelled. `owed` is a history
variable: the bucket the comment of `RateLimit` describes, which earns one token
per period and pays for the same calls. `Observe` lets an outside observer begin a
window at any time, so that `BurstAtOnce` and `OneTokenPerPer` speak of every
window. A bucket is shared by the calls of one server/tool key and guarded by one
mutex, so every `allow` is a step.

## 3. Checks

All passing runs switch deadlock checking off: a multiplexer that was closed, a
call that returned and a clock at its bound may stop.

| run | bounds | shows |
|---|---|---|
| `lifecycle_stdio` | one subprocess, two crashes, hangs or error answers, a backoff that reaches its cap | the entry is consistent under every interleaving; the lifecycle implements Availability; `Recovers`; cancelling ends the process and every goroutine |
| `lifecycle_http` | one HTTP server, perhaps down when New is called, one crash, hang or error answer, three tool lists | `CloseTerminates`, although Close holds the lock that reconnects need and cancellation ends no HTTP session, unless the server stays silent; `ToolsCatchUp`: merging signals never loses the last list of a server that fails no request |
| `call_one` | one call to a subprocess or an HTTP server, both of which may fall silent, two hooks of each kind, every kind of mistake, two sessions | observers and hooks on every path; the call returns unless the HTTP server stays silent |
| `call_two` | two calls, two scopes, two spellings, a tool that turns destructive or not worth keeping | results and the cache under the default key |
| `http_client` | five retries, nine auth blocks (none, empty, good, each fault), three kinds of AuthFunc, a credential that changes and may be missing | copies, attempts and headers of a request, and that it ends with its context |
| `listings` | every pair of 32 options and every three about the cache, six faulty configurations, two servers with shared, clashing and no kinds and with a slash in a name, two changes of entries or silences | options, checks, every listing and view against changing entries and Close |
| `args_pipeline` | 534 arguments of up to two fields and two levels, 48 configurations with colliding names, overrides, kind defaults and custom transformers | what arrives at the server is what the transformers make of each argument alone; placeholders, names in errors, schema |
| `lru_cache` | three keys in a cache of two, expiry | structure, order of use, refinement of ResponseCache |
| `rate_limit` | two keys, a burst of two, a period of three ticks, two periods | never more than the burst at once, no starvation by refusals |

Why these bounds are enough. Two faults let a second reconnect meet the
leftovers of the first (its callback, a probe, a refresh under way, an
outstanding request). Three tool lists let a signal find the channel full.
Servers interact only through the supervisor's round, New's barrier and
`mx.mu`; the safety properties of the lifecycle are proved for any number of
them. Two calls are enough for every property of results, which relates one
caller to one other call that filled the cache. A cache of two and three keys
has a first, a last and an evicted entry. Five retries are the default of the
library. A listing and two changes of entries give a change before, between and
after its visits, and one before and one after a word of `KindGroups` is read;
listings do not write, so a second caller would show nothing new except to
`Close`, for which one reader is enough. The transformers treat every level of
the arguments alike except the first, and fields meet only by name, so two levels
and two fields show each case.

### Fairness

Every goroutine that can run does eventually run (weak fairness per goroutine):
this is Go's scheduler, and it includes tickers, backoff timers and deadlines,
which are steps of the goroutine that waits for them. A `select` with several ready
cases chooses at random, so the case that ends a loop on `ctx.Done()`, which
stays ready, is eventually taken: strong fairness for `supervisorStops`,
`reconnectGivesUp`, `refreshStops`. Servers owe nothing: they may never answer,
restart, resume, or answer a request that nobody waits for. `Recovers` therefore
speaks only of a server that stays up and has no such request left (see
`hung_server` for one that has).

An HTTP server that is silent for ever keeps whoever calls it or closes its
session waiting for ever, and with a Close everybody who wants `mx.mu`: no timeout
of this code ends that. No fairness is put on these waits. The liveness properties
`Recovers`, `CloseTerminates`, `CallReturns` and `ListingsAndCloseReturn` have
instead the premise that from some time on no HTTP server is silent, and the runs
let servers fall silent as often as their bounds allow; what happens without the
premise is in `hung_server`, `HungProbe.cfg` and `CallTimeout.cfg`. Subprocesses may stay
silent, because the kernel kills them.

For calls there is no fairness on answers, only on the deadline; user hooks
return, and Close goes on when it can. An HTTP request is owed nothing by
the server, and a backoff may be as long as a `Retry-After` says: its goroutine
runs, AuthFuncs return, and net/http gives up an attempt whose context is done. A
listing goes on while it holds the lock and after it got it, and Close gets the
lock when no reader is left and gives it back when no session keeps it waiting.

### Where comments and code disagree

Each of these checks one statement of a comment, and TLC finds a behaviour of the
code that breaks it. For the three runs the quoted line is in `findings`.

| run | what happens |
|---|---|
| `close_races_reconnect` | a connect that finished before the cancellation installs a session after Close read the entry; it stays open |
| `refresh_lost` | a signal consumed while the reconnect still holds the flag is dropped after the reconnect listed the tools; the stale list stays |
| `hung_server` | Close of a session with an outstanding probe blocks, so the reconnect loop is never entered |

The same kind of statement, each with the instance that shows it violated, to be
run by hand (`tlc -config RateDoubled.cfg RateLimit`). The comment of the property
quotes the line of the repository.

| cfg | module | property | what happens |
|---|---|---|---|
| `HungProbe` | LifecycleProps | `ProbesTimeOut` | the probe of a silent HTTP server outlives its timeout (`healthcheck.go:52`), waiting to tell the server that it is over, and the supervisor with it |
| `CallTimeout` | MCCallPath | `CallEndsAtDeadline` | a call to a silent HTTP server outlives its deadline (`config.go:51-52`) in the same way |
| `RecordCall` | MCCallPath | `EveryCallIsRecorded` | a call that a hook answers is not recorded (`metrics.go:13`), nor is one that is rejected or answered from the cache |
| `CacheScope` | MCCallPath | `ScopesAreIsolated` | scope `p` and server `a\|b` have the cache key of scope `p\|a` and server `b` (`cache.go:31-32`) |
| `AllToolsDown` | MCListings | `AllToolsAreOfConnected` | AllTools lists the tools of a server that is down (`multiplexer.go:263`) |
| `StatusUnsupervised` | MCListings | `UnsupervisedIsConnected` | without a health check, a server that New could not reach is reported down (`multiplexer.go:278-279`) |
| `ToolsCollide` | MCListings | `EveryChosenToolAppears` | tool `b/t` of server `a` hides tool `t` of server `a/b` (`multiplexer.go:236-238`) |
| `KindNamesake` | MCListings | `KindlessAreAlone` | a server without a kind is grouped with those that have its name as their kind (`config.go:38-39`) |
| `GroupsUnlocked` | MCListings | `GroupToolsAreHeld` | KindGroups, which reads `entry.tools` without `entry.mu` (`multiplexer.go:30`), lists what no list of tools had |
| `CacheNil` | MCListings | `NilKeepsBuiltIn` | WithCache(nil) behind WithoutCache leaves the cache off, behind another WithCache that one in use (`options.go:239-240`) |
| `RateDoubled` | RateLimit | `OneTokenPerPer` | a bucket with a burst of two earns two tokens per period (`policy.go:58-59`) |
| `AuthRetry` | MCHttpClient | `EveryAttemptAuthenticates` | a retry goes out with the headers of the first attempt (`auth_func.go:11-12`); a token that expires in between is sent again |
| `ArrayItems` | MCArgsPipeline | `EveryPlaceholderIsFound` | a placeholder inside an array is not found (`validate.go:21-22`), and `joinArrays` may send it as a string |

No property of a passing run asserts the opposite of one of these lines: it is
stated for the cases in which comment and code agree.

Further differences that show in the model's actions and have no run:

* a list of tools fetched on the old session can be stored over the list that a
  reconnect installed with the new one (`refreshSwaps`), although
  `healthcheck.go` swaps session and tools "atomically";
* the client retries every connection error, 429 and every 5xx but 501
  (`shouldRetry`), where `transport.go:50-51` says "connection refused,
  502/503/504"; so a tool call may run up to `RetryMax + 1` times
  (`BoundedDelivery`), and a `Retry-After` is not capped by `RetryWaitMax`;
* a good answer that arrives as the context ends is turned into an error
  (HttpClient `returns`);
* `ToolsForServers` with a name given twice may mix two lists of that server;
* an empty kind is treated as "equal to the server name" (`config.go:38-39`), but
  the `KindSettings` of that name do not apply to it (`withKindDefaults`);
* a Multiplexer made by `NewFromSessions` has no built-in cache at all
  (`appliedOptions`);
* a refresh that fails keeps the old tool list and is not repeated
  (`refreshFails`), so the list stays stale until the next change;
* numbers in arguments pass through float64, so integers beyond 2^53 are rounded
  on their way (`decoded`); nothing in the repository says otherwise, and
  `ArgumentsArrive` has the rounding in its reference;
* a read-only tool without a destructive hint counts as destructive (`toolInfo`),
  where the comment says the default is for "non-read-only tools": it is not
  cached;
* only the first page of a tool list is fetched;
* `onReconnect` runs in the goroutine of each reconnect (`reconnectFails`,
  `reconnectReports`), not in the supervisor's, so two calls of it may overlap;
* the duration that `RecordCall` gets starts before checks and hooks, where
  `metrics.go:14-15` says they are excluded;
* a stub has no tools, so a call to it fails with ErrToolNotFound, not
  ErrServerDown (`checkFails`);
* an error that returns just before the deadline is reported as a timeout
  (`reportsFailure`);
* a view turns a call down without telling any observer (`ViewCallTool`);
* with a burst of zero the first call of each key passes (`allowFirst`).

## 4. Proofs

Every theorem holds for all values of the constants that satisfy the
assumptions of the modules, which TLC evaluates on every instance:

* `SessionsAssumption`, `LifecycleAssumption`, `RateLimitAssumption`,
  `LRUCacheAssumption`: bounds are numbers and the size, the period and the burst
  are positive where the code makes them so;
* `HttpClientAssumption`: the number of retries is a number, and a custom AuthFunc
  sets something or nothing;
* `CallPathAssumption` types the requests, tool lists and hooks;
* `StartupAssumption`: options are known ones, configurations have their fields,
  and the names given to `NewFromSessions` are the keys of a map;
* `ListingsAssumption`: queries are calls of the read API, and names are told
  apart by their parts between slashes;
* `ArgsStepsAssumption`: the transformers of a configuration are a list.

So they hold for any number of servers, calls, hooks, requests, retries, keys,
options, faults and changes. Where an invariant is not inductive the proof module
states `IInv` (in StartupProofs `StartInv`), which TLC was seen to confirm on the
instances of the runs before it was proved. A proof has one lemma per action or
group of actions.

**LifecycleProofs.** `TypeCorrect`; the invariants `ConnectedHasSession`,
`ReconnectingIsOwned`, `ProbeIsCurrent`, `OneSessionPerFault`, `NoLeakedSession`,
`DownIsBeingRepaired`; the action property `ReplacedAfterClose`; and `Refinement`,
that the lifecycle implements Availability. None of the invariants is inductive.
Together they follow from `IInv`:

* `StartInv`: until New returns no goroutine works on an entry, and a server
  whose connect is in progress has no session;
* `OwnerInv`: afterwards the flag is set exactly while a reconnect goroutine has
  the entry, connect runs only inside that goroutine, and a server is down
  with nobody working on it only once the context is done;
* `SessionInv`: the entry's session is older than the one being connected, and
  neither open nor closing once the reconnect loop has begun;
* `ProbeInv`: a probe is about the entry's current session and nobody owns the
  entry meanwhile: the supervisor is the only one that takes the flag, so
  nothing changes between its read and its compare-and-swap;
* `CloseInv`: Close starts by cancelling the context;
* `FaultInv`: while the context is live, a session that no fault has hit since it
  was established is open, given up by nobody, and the entry's or about to become
  it. This is what makes `OneSessionPerFault` inductive: a new session is dialled
  only when the last one was hit by a crash, a hang or an error answer;
* `ConnectedHasSession`, `NoLeakedSession` and `TypeOK` themselves.

One lemma per group of actions shows that it preserves the types, another that it
preserves `IInv`; `EntryStep` says what a step can do to a session, from which
both the action property and the refinement follow.

**RateLimitProofs.** `TypeCorrect`, `BurstAtOnceHolds`, `RefusalsAreDueHolds` and
`BurstOfOneKeepsRate`: the documented rate, which `RateDoubled.cfg` refutes for a burst
of two, holds for a burst of one. The invariant relates the bucket to the observer's
window: tokens plus what was granted in the window never exceed the burst plus what
flowed in since it began (`WindowInv`); and to the documented bucket, than which it
never holds less (`FillInv`), whatever was refused in between. The arithmetic is
non-linear and is done in separate lemmas (`Refill`, `Earned`).

**HttpClientProofs.** `BoundedDelivery`, `AuthenticatedOrUnsent`,
`QuietAfterDeadline` and the action property `AnswerIsFinal`. `IInv` says for each
place of a request whether the AuthFunc has run and consented (`AuthOf`), how many
attempts were counted (`AttemptsOf`: before a copy is sent, so that the limit is
checked between two copies), that the server has at most one copy per attempt and
none yet of the one under way, all with the headers of the clone (`CopiesOf`), and
that an attempt begun too late is the last one (`LateOf`). What a custom AuthFunc
sets is not restricted; that a copy has a credential is proved of the two helpers of
package auth.

**CallPathProofs.** `ObservedOnce`, `RejectedIsReported`, `ResultIsOwn`,
`ResultIsTransformed`, `OnlyKeptIsServed` and the action property
`AfterCallIsLast`. `ObservedOf` and `ResultOf` say by where a call is who has been
told of it and what its result is. What makes the properties about the cache
inductive is `EntryOf`: every cached result is the transformed, successful answer
to a call that is over, was allowed to keep it, and has that key. A call that
finds it has the same key, hence, if `KeyTells`, asked the same question.
Settled calls never change (`SettledStays`), so a witness stays one, whatever
became of its server. `DefaultKeyTells` says when `defaultCacheKey` is such a key:
joined with bars, texts are told apart if no scope, server or tool has a bar in its
name, however many the arguments have. The properties of observers and transforms,
and `OnlyKeptIsServed`, hold for any key.

**LRUCacheProofs.** `IndexMatchesList`, `OrderedByUse` and `Refinement`, that the
list, the index and the heap implement the map of ResponseCache. The addition
that makes them inductive is `Private`: no two entries share a result object and
no caller holds one that an entry has. Without it, a caller that rewrites a
result would change what the cache has. Every operation is moving an element to
the front, putting one there or taking one out, and the lemmas about sequences
without repetition (`RemoveFacts` and the like) say what these do to order and
range.

**ListingsProofs.** `ListingsAreCurrent`, `GroupsPartition` and
`ChosenToolsAreCurrent`. For each caller that has begun to list, `IInv` says that
its history `seen` has what the entries hold now (`SeenOK`), that each entry wanted
is visited or still to be visited, in map order only one of these and in the order
of a list of names its end (`VisitOK`, `Rest`), that what was read was held
(`ReadOK`), and that the tools collected so far have one piece for each server that
is visited once and nothing of any that was not (`OutOK`). A change adds to `seen`
and so never makes an older reading wrong; nothing is registered while somebody
reads. `EntryInv` also says that every entry has the name of a configured server,
so that the keys of one server tell the names of its tools (`PairFacts`): in the
piece of a server whose keys are no other's, the first occurrences of keys are the
first occurrences of names.
`ChosenToolsAreCurrent` then needs that picking positions from a list that has a
piece gives a list that has what is picked of the piece (`PickedPiece`). This is
counting: ranks are strictly increasing, hence by the pigeonhole principle every
place is taken (`RankFacts`), and behind the beginning of the piece they are those
in the piece plus a constant (`RankShift`).

**StartupProofs.** `StartsAsConfigured`, for any list of options. `StartInv` says
that after k options the fields hold what the first k say (`Applied`): the last
value that is not ignored, the values of hooks in the order of their options, each
key of a map and each part of the client's identity by itself, and for the cache the
last option that says something. `AppliedNext` is the step from
k to k + 1, from what one option does to each kind of field (`ApplySetting`,
`ApplyChain`, `ApplyCache`). The rest of `StartInv` follows the configuration:
what is in use has passed the checks, every entry has the configuration of its
server, and there is none before the checks have passed. It uses the invariant of
ListingsProofs for the steps after the constructor has returned.

**ArgsStepsProofs.** What follows from the order of the steps, whatever they
compute. `CheckInv` says which arguments there are at each step and what was found
in them; from it follow `SentConforms`, that hooks, schema check and cache key are
given what is sent unless that does not marshal (`HooksSeeWhatIsSent`), and that
`BadFields` are what the check finds in the caller's arguments before any
transformer, with which no call goes on (`PlaceholdersAreTheCallers`, the half of
`BadFieldsAreTheCallers` that is about order). `SentIsTransformed` says that what is
sent is the end of a run of all transformers, each applied to what the one before it
returned, and then of the field map; `TodoInv` and `RunInv` are the loop invariant of
`applyAll`: what is left to do is the end of the list, and the arguments are what a
run of the others may have made.

Two properties were found to say too little, or too much, by their proofs.
`IndexMatchesList` once allowed two elements of the list to have the same key and
now does not. `GroupsPartition` said that a server without a kind is in one group
with those that have its name as their kind, which is wrong for a server named
"" (`NewFromSessions` does not check names); it was corrected.

**Only model-checked.** Everything about liveness: the prover has no fairness
reasoning. `ArgumentsArrive`, `PlaceholdersStayOut` and `BadFieldsAreTheCallers`:
the code recurses over JSON trees and so does ArgsPipeline, and what recursion
computes for every input needs induction over data. All other safety properties that
the passing runs check are proved, and the runs are small instances of the theorems.

## 5. Not modelled

* Durations: the ones passed to observers, and the length of a backoff.
* The default key is modelled on texts that `json.Marshal` wrote and on malformed
  ones; a custom `KeyFunc` is any function.
* `DenyDestructive`, `RequireRoles`, `AuditLog`: stateless instances of the hooks
  CallPath has.
* `BearerRoundTripper`: a helper for clients the library does not make.
* Panics in hooks and callbacks. `KindHints`, which are passed through.
* `eino`, loggers: stateless conversions and output.
* Test support under `internal/testutil`.

## 6. Plan

All components that keep state or have an order to get wrong are modelled, and
the safety properties are proved as far as the prover reaches. What is left is
with TLC: liveness, and what the recursive functions of ArgsPipeline compute. When
code changes, the map in PROJECT.json names the definitions to look at again; a run
of TLC on the changed module comes first, its proofs second.
