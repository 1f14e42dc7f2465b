# Verification of Go-Reauth-Proxy

TLA+ models of the authenticating reverse proxy in `src/`, model-checked with
TLC on small instances, and theorems about them, for every value of the
constants, checked with TLAPS. Paths below are relative to `src/`.

1. [The system](#1-the-system): components, state, operations, hazards
2. [Plan](#2-plan)
3. [Models](#3-models): what each module models, and how
4. [Checks](#4-checks): the runs, their bounds, fairness, findings
5. [Proofs](#5-proofs)
6. [What is not modelled](#6-what-is-not-modelled)

## 1. The system

One process. `cmd/server/main.go` loads `config.json`, starts the admin API
(`pkg/admin`), the proxy listeners (`proxyStack`) and the stream proxy
(`pkg/stream`), and stops them on a signal. All state but the configuration file
and the access log lives in memory.

| Component | State it keeps | Operations | Interacts with |
|---|---|---|---|
| Proxy handler, request path (`pkg/proxy/handler.go`) | published snapshot of the configuration (atomic pointer) | `ServeHTTP`: throttle, blacklist, host, preflight, rules, auth, reverse proxy | reads the snapshot; calls every component below |
| Auth-state cache (`pkg/proxy/auth_cache.go`, `executeAuthCheck`) | entries, index by identity, last clean-up, flights | look up, drop, store, invalidate, clear | asks the auth service (HTTP); told of logins and logouts by the auth routes; cleared by `SetAuthConfig` |
| Preflight checks (`runPreflight`) | cache by identity, flights, cooldown | run, perform, store, invalidate | auth service; same invalidations as the auth cache |
| Proxy listeners (`proxyStack`, `main.go`) | `host`, `stop`, the rebind channel, the sockets | Start, rebind, RequestRebind, Stop | hook of `SetProxyProtocolForce`, which the admin API calls |
| Configuration (`pkg/config`, setters of the handler) | `config.json`, the handler's copy, the snapshot, runtime objects | Load, Save, Update; about 20 setters | admin API writes, request path reads |
| Stream proxy (`pkg/stream/manager.go`) | listeners and rules by key, connections, UDP sessions | Reconcile, Stop, accept, relay | admin API; auth service |
| Throttle (`reverse_proxy_throttle.go`) | token buckets by client address in shards | evaluate, clean up, update | request path; setter |
| Access log (`pkg/gatewaylog`) | the files, the file of the day, the day of the last clean-up, the configuration | write, rotate, clean up, delete, query by cursor or page | request path; admin API |
| WAF (`pkg/waf`) | engine, configuration, exclusions, event store | set, reload, evaluate, drain | request path; admin API |
| iptables (`pkg/iptables`) | chains in the kernel; name, parents, exempt ports and skipped rules in memory | init, flush, destroy, block, allow, SSH policy, redirects | admin API; external commands |
| Traffic counters, active clients | counters, last-seen times | count, snapshot, clean up | request path; admin API |
| Blacklist, exemptions, visibility | sets of address ranges | add, remove, contains | request path; stream proxy |

**What is hard here.** Nearly everything is shared between one goroutine per
request and the admin API's handlers, under several locks that are never held
across the interesting sequences: caches are read under a read lock and corrected
under a write lock in a second critical section; a published snapshot stays in use
by requests that took it before it was replaced; the stream manager plans under one
lock, opens sockets under none, and commits under another; a rebind reads a flag
twice that callers change at any time; a setter changes the runtime and the saved
configuration in two steps; the firewall's calls interleave command by command; the
access log is read in chunks while it is written; a request reads the WAF's engine,
configuration and exclusions one after another. `PROJECT.json` lists the hazards with their lines.

**What makes each part correct.**

- *Auth cache*: nobody is let in on an answer about somebody else; a session that has
  ended opens no door for longer than the longest TTL and one timeout, in every
  interleaving; invalidation finds everything that is cached for an identity; errors
  and answers that carry cookies are not replayed; no follower of a flight hangs.
- *Proxy listeners*: what is recorded is what is open; a change of the flag that was
  announced is followed.
- *Stream proxy*: no listener is lost however calls overlap; Stop leaves nothing
  behind; a call on its own makes rules, listeners and saved rules agree; calls return.
- *Configuration*: a setter never undoes another's section; the file lags the copy by
  one call at most; a restart brings back what was acknowledged.
- *Preflight*: but for the check's own requests, unchecked traffic passes only after a failure,
  and for no longer than the cooldown allows; what the service says takes effect; no FN app is
  refused by the cache.
- *Throttle*: no bucket grants more than its burst and rate; a block holds, and ends.
- *Access log*: a query answers as if it read the file at once; following the cursors
  shows every line exactly once; a line stays readable for as long as it is to be kept.
- *WAF*: a request is dealt with as one configuration in force says; a failed call
  changes nothing; every selection of rule files compiles; no event is lost but for age
  and room.
- *iptables*: the last word about an address holds, whatever calls on others, failed
  commands and restarts do; the local network is not locked out; the SSH policy and the
  newest redirect are in force.
- *Counters*: approximate figures for display.

## 2. Plan

In the order of what matters most; each module gets a run, and what is worth it a proof.

| # | Module | State |
|---|---|---|
| 1 | `AuthCache` | modelled, checked, all its safety properties proved |
| 2 | `ProxyStack` | modelled, checked, `RecordedListenersAreOpen` proved |
| 3 | `StreamManager` | modelled, checked, ownership, silence after Stop and what a call alone does proved |
| 4 | `ConfigStore` | modelled, checked, all its safety properties proved |
| 5 | `Throttle` | modelled, checked, all its properties proved |
| 6 | `Preflight` | modelled, checked, all its safety properties proved |
| 7 | `GatewayLog`, with `LogLines` (lines, filters, pages) and `LogQueries` (what a query promises) | modelled, checked; what the writer keeps and removes, paging with cursors and the refinement of `LogQueries` proved |
| 8 | `WAF`, with `Keeping` (selection from a sequence) | modelled, checked, all its properties proved |
| 9 | `Iptables` | modelled, checked |

Left: that the ring of a page query holds the last lines (`PageIsWindow`), and what a
single command of `Iptables` does to a verdict. Liveness is beyond the prover.

`GatewayLog` implements the abstract specification `LogQueries`. Others worth stating: a
register that is saved atomically, implemented by `ConfigStore` while no save fails; a
set of listeners that changes in one step, implemented by `StreamManager` with one caller.

## 3. Models

Modules that model code: `AuthCache`, `ProxyStack`, `StreamManager`, `ConfigStore`,
`Throttle`, `Preflight`, `GatewayLog` with `LogLines`, `WAF` with `Keeping`, `Iptables`;
`LogQueries` is the abstract specification of a query. The modules
named `MC...` only name model values and small sets for TLC. The modules named
`...Proofs` only hold proofs. `PROJECT.json` maps each definition to its lines.
Each module also holds, marked `Mutant`, plausible wrong versions of its definitions;
no specification uses them, they serve to see that each property can fail.

### AuthCache

One goroutine per request (`Requests`), one administrator, time.

| Code | Model |
|---|---|
| `authCache.entries`, `keysByIdentity`, `lastCleanup` | `entries`, `index`, `lastCleanup` |
| `singleflight.Group` (external) | `flight`: the leader of each key; followers are in `"wait"` |
| `authCacheKey`: identity, address, access mode, scheme, method, host, URI | `CacheKey`: a record; mode to URI are one `view` |
| `lookup` under `RLock` | `Hit`, `Miss` |
| the delete of an expired entry under `Lock`, a step later | `DropEntry` |
| leader of the flight: second look-up, `performAuthCheck`, store | `Recheck`, `ServiceAnswers`, `CheckFails`, `ReceiveAnswer`, `FinishFlight` |
| `authCacheStore` with `cleanupExpiredLocked` | `StoreEntry`, one critical section |
| `applyAuthSetCookie...`, auth routes' `ModifyResponse` | `ApplyAnswer`, `AuthRouteReplied`, both through `Invalidate` |
| `SetAuthConfig`: publish, then clear | `PublishAuthConfig`, `ClearAuthCache` |

Abstractions. The auth service keeps its sessions to itself: it answers as it likes, so
what holds holds whatever sessions it has. A cookie jar, a header, an address are model
values. `Told` is what the service learns of a request: more than `CacheKey` has, the Authorization
header of a request with a jar and the User-Agent (of which the model keeps whether it is an FN app's).
What clients send in a behaviour is its `traffic`, one of `Traffics`.
The request always has an identity (an address at least). A request takes the
snapshot when it comes to the check, and the clock it looks up with is read in the
look-up. Time is discrete; only HTTP exchanges take time (a leader's own steps and
a follower's waking take none; every other step of a request may be delayed
for ever). The preflight half of an invalidation is in `Preflight`.

### ProxyStack

The goroutines are `main`, the rebind worker and callers of `SetProxyProtocolForce`.
`holder` is `s.mu`, and `rebind` is one action per place where others can act: closing
the old sockets, each listen, and the second reading of the flag when the servers start.
`requested` is the channel of capacity one. Accepted connections and the code that
closes idle ones are left out.

### StreamManager

Callers are handlers of the admin API, and `Stop` from main. `sockets` holds the
listener states, also those that are in no map: opened by a call that has not
committed (`created`), or being closed (`victims`). `SocketsAreOwned` is about
these. The connections cover TCP and UDP: one record with the sides that are open.
The handler's copy of the rules and the file are one variable, `saved`: their difference
is the business of `ConfigStore`. Accept and `beginConn` are one step (a connection that
`beginConn` refuses is closed in the same goroutine); the order in which listeners are
opened and closed, a map's order in Go, is arbitrary; whether a client is let in by the
address check, the auth service and the dial is one choice (`Refuse` or `Connect`). A UDP
packet whose write fails ends its session (`PacketFails`). A port has one read loop per socket (udp4 and udp6): as many packets as
there are `ReadLoops` may be between read and relay.
The rules given to a call are valid ones: an invalid set is refused before anything.
The start of the manager (`ReconcileBestEffort`) is the initial state.

### ConfigStore

`file` is `config.json`, `copy` the fields of the handler that `saveConfigLocked` writes,
`runtime` what the gateway runs with. `hmu` and `writer` are the holders of `h.mu` and of
the manager's `m.mu`. The twenty-odd setters come in a few kinds, told apart by when the
running gateway follows; a section stands for each kind.

| Sections | Order in the code | Model |
|---|---|---|
| `Published`, `auth_config`, `rules` | copy, snapshot and save under `h.mu` | `Assign`; `auth_config` is read and merged first (`ReadAuthConfig`); `rules` are flushed, then added one by one (`AddRule`) |
| `Late` | copy and save under `h.mu`, the runtime after it | `Assign`, then `Apply` |
| `general_blacklist`, `waf` | the runtime, then copy and save under `h.mu` | `ChangeBlacklist`; `ChangeWAF`, `RereadWAF` |
| `locale`, `iptables_chain_name` | the file only, through `Update`; the handler does not know them | `Begin` or `ChangeChain`, `Apply` |

`Update` is `OpenFile` (read, parse, merge, open with truncation) and `WriteFile`, or one
of the ways it fails; a file that is truncated or cut short is `Broken`, and a program
cannot start from it. `Crash` may come between any two steps. `Start` loads the
file, and main saves what it has loaded before the admin API serves.
The value of a section is, for each of its parts (a path, a field, an address), the call that wrote
it last: enough to see a change that is lost or mixed. Each call is made once. Left out:
defaults and migration of an old file, a file that does not exist, and the values
themselves; a request with an invalid value is `Refuse`d. `stream_rules` are in `StreamManager`.

### Throttle

`entries` and `nextCleanup` are those of one shard. A request reads the clock (`Capture`) and
is evaluated some time later, in one critical section: `RefuseBlocked`, `Block` or `Grant`,
each with the clean-up before it (`Evaluated`). `Found`, `Opened` and `Refilled` are
the steps of `evaluate` on the entry. Tokens, which are floating-point numbers in the code, are
counted in fractions of a request (`Token` of them), so that a bucket may hold half a
token; rounding is left out. A goroutine may be delayed for any time. Exempt
addresses, routes that are not throttled and a throttle that is off are `Bypass`.

### Preflight

`runPreflight` and `performPreflight` of one goroutine per request. `entries` is the cache,
`leader` the flights, `skipUntil` the time until which checks are skipped, `began` the time a
request took before its first look-up, by which it also goes for the cool-down.

| Code | Model |
|---|---|
| look-up, drop of an expired entry or of a refusal an FN app must not see | `Hit`, `Miss`, `DropEntry` |
| cool-down | `Skip` |
| `group.Do` and the leader's second look | `Join`, `Recheck` |
| `performPreflight` and what the answer or the failure does | `Ask`, `ServiceAnswers`, `Arrive`, `ExchangeFails`, `Cool` |
| store with clean-up; the flight ends | `Keep`, `Finish` |
| logout, `SetAuthConfig` | `Invalidate`, `SetAuthConfig`, `ClearAuthCache` |

A request that carries the header of the check itself, and every request under a configuration
without an auth port, passes `unchecked` at once (`Exempt`). Such a configuration is never in force:
where one is loaded or set, a default port is put in (`WithAuthPort`, of `applyDefaults` and of
`SetAuthConfig`); without that `UncheckedOnlyAfterFailure` fails, as a mutant shows.

Unlike in `AuthCache`, the service has a mind (`policy`) that changes, so that what takes
effect when can be asked. A key stands for its identity.

### GatewayLog, LogLines, LogQueries

A file is a sequence of bytes, a byte the number of its line or the newline: enough for
chunks, torn lines and merged lines. `data` holds every file there ever was, since a file
that is removed lives on for those who have it open; `dir` says which file a date has.
A write takes two steps for its readers (`Write`, `FinishWrite`, or `WriteCutShort`) and
one for everybody who takes the writer's mutex. `SetLoggingConfig` saves, updates
the running configuration, then cleans up, in three steps. `Log` reads whether logging is
enabled before the entry reaches the writer.

A cursor query reads chunks backwards (`OpenCursor`, `ReadChunk`); a page query scans
forwards with a ring of the last lines, or counts and then scans again a file opened
anew (`OpenPage`, `ScanLine`, `CollectLine`). `LinesIn` are the lines of a chunk by their
offsets, `Shown` what a scan makes of them. `LogLines` has the filters and, as a definition and not
as an algorithm, what a page is (`Page`, with the offsets of the matching lines in the order
`NewestFirst` gives them). `LogQueries` is the promise: a query answers in one step
from the file as it is; `QueriesAreAtomic` says that `GatewayLog` implements it, where the
answer of a query in progress is the page of what the file held when it was opened. Some
clients may lose their last answer (`Forget`): all by a restart, one by asking for a page.
Left out: JSON, the fields of an entry a filter does not ask for, and a line longer than
the scanner's buffer.

### WAF

`rt` is the `Runtime`: three values, stored and read one after another and never together.
A call reads the rule files twice (`ScanRules` selects them and collects the rules they
define, `CompileRules` compiles), and they may change in between. `Compiles` is what the
code relies on Coraza for: every file readable, every updated rule defined before. Which
files' rules catch which request is given. `regimes` is what the last call that ran alone put in force (two
values while such a call is on its way), `torn` that calls overlapped since: with these
`DecisionExplained` can say what a request may be decided by. The event store is kept
under its lock, one step per call. What is selected from a sequence (the lines that stay,
the events that are not too old) is `Kept`, a recursive function, so that it can be proved
about. A request whose body cannot be read (`Broken`) may be blocked like any other, if rules of the
headers catch it; if none do it is recorded and let through. Left out: the texts of events and status,
redaction, the sizes of bodies.

### Iptables

Each call of the admin API is a program of iptables commands, each atomic in the kernel,
which interleave with those of other calls: the `Manager` has no lock over them. A command
carries how far the program moves on when it succeeds and when it fails (tried again,
ignored, skipped ahead, or the call returns the error). What a program reads of the
manager's fields it reads when it gets there (`ReadManager`). `CommandFails` is also a
command that could have succeeded: the kernel's table is locked, say. `sure` records
what the calls that have returned are entitled to; a call that shared its area (an address, the
default, the SSH policy, the redirects) with another is entitled to nothing there. The
properties compare that with the verdict of the kernel's rules on the next
connection (`Verdict`), never with the rules as such, but for the SSH policy: there `PolicyInForce` compares the rules
of the policy's chain and all jumps to it, since a jump that is left over of an earlier policy, or in a
table the new one is not about, has no effect on the connections one would think of trying. Left out: reading calls
(`ParseRules`, `HandleList`), validation, IPv6 beyond a second table that may be missing.

## 4. Checks

| Run | Module and bounds | What it shows |
|---|---|---|
| `auth_identity` | `AuthCache`; two requests; traffic of one jar with and without an Authorization header, or of the jar at two addresses and a visitor without a jar; answers with and without Set-Cookie, changes of the configuration | the two maps agree, invalidation forgets, answers stay with their owner, flights have leaders |
| `auth_time` | one key of an FN app, the cache switched on (TTLs of 1) and off (TTLs of 0), timeout 1, clock to 2, fairness | how old an answer can be; that answers only get newer; that every request that comes to the check gets its verdict |
| `preflight` | `Preflight`; two requests of a browser, an FN app, a client without a key and the check itself, one key, TTLs 0 and 1, a configuration set without an auth port, timeout and cool-down 1, clock to 3, one change of the service's mind | when a request passes unchecked, when an answer takes effect, what an app may be refused by |
| `stack_rebind` | `ProxyStack`; two callers, four changes, listens that fail | recorded listeners are open; announced changes are followed |
| `stream_safety` | `StreamManager`; two calls, a TCP and a UDP key, one connection, listens that fail | ownership of sockets, silence after Stop, effect of a call on its own |
| `stream_live` | two calls, one key, one connection, fairness | every call returns, if targets close |
| `config_saves` | `ConfigStore`; two calls, two parts, a section of each kind, reads and writes that fail, one crash, fairness | what the file has, what the gateway runs with, what a restart brings back, that calls end |
| `config_rules` | two calls, two parts, no failures | **violated**, see the finding |
| `throttle` | `Throttle`; two requests, two clients, clock to 4, three configurations (off, defaults, shorter blocks), one change | buckets are bounded, blocks hold and end, grants are paid for |
| `gateway_log` | `GatewayLog`; one logger, one client, chunks of 2 bytes, lines of 1 and 3 bytes, answers of at most 2; up to 3 lines, 3 days, 3 cursor queries or a page query, two changes, one fault; zones +8 and -5 | chunked reads are atomic, cursors show each line once, pages are windows, lines stay and old files go |
| `waf` | `WAF`; two callers, two requests (one whose body cannot be read), three rule files in six states of the disk, four configurations, a store of 2 events with TTL 1 | what requests are decided by, what calls leave, that selections compile, which events are lost |
| `iptables` | `Iptables`; two callers, one table, one local network, none or one exempt port, two addresses, four SSH policies (of one port, of two, of none, of none of the tables), up to 4 calls, one failed command or restart (none where two calls on the whole chain overlap) | what becomes of the next connection |

**Why the bounds suffice.** Auth: two goroutines meet at every pair of steps, on the same
key (leader and follower, or expired entry and new one) and on different keys of one
identity (the two addresses); a clock to 2 is a store, an expiry and a replacement with
TTL and timeout 1. Two requests that share a key and differ in what the service is told, and two
that differ in the key, are in a traffic each. Browsers meet cached refusals in `auth_identity`, apps in `auth_time`. Stack: one change in the middle of a rebind, one that takes it back,
and one after it need three changes. Stream: a listener state is free or belongs to a key
or a call, so as many states as keys and calls are enough (`MCStreamManager`). Configuration:
a save touches what two calls can be about, their sections and the file, and two parts
tell a mixture from either list; a crash starts everything afresh. Throttle: a clock to 4
is a block, its end and an idle entry's clean-up, with TTL 2 and blocks of 1 and 4.
Preflight: two requests are a leader and a follower, or two that ask by themselves and whose
answer and failure cross; a clock to 3 is an answer, its TTL, and a failure with its
cool-down. Log: chunks shorter than most lines put every boundary inside a line; three lines
with answers of one are a first, a middle and a last page; `Bounds` lists what is combined,
since all of it at once is too much: cursors with faults, cursors with deletion, pages
likewise, and the writer over three days without readers. WAF: `Budgets` likewise: calls with
edits and a restart, overlapping calls under traffic, one call under traffic of two requests,
events over time. Iptables: two programs meet at every pair of commands; the third and fourth call
see what they left; `MCClients` lists which calls meet which. One fault is enough to part a
program in two; the tables are independent of each other but for a call that fails
in the first and never reaches the second, which leaves it as it was. The
proofs below, about all modules but `Iptables`, hold without any of these bounds.
Symmetry is used in safety runs only, over requests, clients, callers and listener states;
no definition tells these apart. `CHECK_DEADLOCK FALSE` is given where the model may stop:
the clock, or the number of changes, is bounded, or the program has ended.

**Fairness.** Goroutines that can run do run (weak fairness of a request's, call's
or worker's own steps; in `ConfigStore` also the save at the start). An exchange with the auth service ends by its timeout, a dial by
its. Nobody has to answer, log out, change the configuration, close a connection or
stop the program. `stream_live` alone assumes more (`FriendlySpec`): a target closes
its side once the gateway has half-closed it. Nothing in the code makes it, and the third of
the known deviations is what happens without. `Preflight`, `GatewayLog`, `WAF` and `Iptables` state no fairness: the
questions asked of them are of safety.

**Type invariants.** Each module states its `TypeOK`. It is run where it says more than
types (`throttle`: buckets are bounded), and proved for `AuthCache`, `Throttle` and `WAF`; the inductive
invariants of the other proof modules begin with types of their own. For `ConfigStore`, `Preflight`,
`GatewayLog` and `Iptables` TLC checked it while the models were written, and it documents the state.

**Finding** (`config_rules`). *Overlapping replacements of the rules mix*
(`pkg/admin/server.go:266`): the rules are flushed and added one by one, each under a lock of
its own, and of two calls that both succeed a mixture of their lists is left, where
the README promises a replacement.

**Known deviations**, seen while modelling; the models contain the behaviour, and the
properties that are run are about what holds beside it.

1. *A change of the flag before the hook is installed moves no listener* (`cmd/server/main.go:471`). The
   admin API serves before `proxyStack.Start`, and main installs the hook after it: a
   change in between changes flag and file, and the listeners stay until the flag is
   turned and turned back. `ListenAddressFollowsFlag` states the promise of the README
   (with `proxy_protocol_force=true` the proxy listens on the loopback address).
2. *Overlapping calls commit in one order and save in the other* (`pkg/admin/server.go:480`): the
   stream rules in effect are not the saved ones. `RulesInEffectAreSaved` states the promise.
3. *A silent target blocks the removal of its rule* (`pkg/stream/manager.go:525`): `close`
   waits for the relay, and the relay for a target that is half-closed only; the change
   is never saved, and Stop waits too. `CommittedRulesGetSaved` states the promise.
4. *West of Greenwich a day too many is removed* (`pkg/gatewaylog/manager.go:260`): the cutoff is
   midnight of the local zone, a file's date midnight UTC. With `max_days` of 1 today's
   file is removed while it is open. `LinesKept` is about zones at or east of Greenwich.
5. *A parent chain that could not be listed is left unlinked, with success reported*
   (`pkg/iptables/manager.go:326`). The properties of `Iptables` claim nothing after it.
6. *Overlapping WAF calls leave the engine of one with the configuration of the other*
   (`pkg/waf/runtime.go:138`), until a call on its own.
7. *Requests that share a cookie jar and an address share answers whatever their Authorization headers
   are* (`pkg/proxy/auth_cache.go:174`). The header is always sent (`pkg/proxy/handler.go:5094`), but it is
   in the key only when there is no jar; the User-Agent is sent and never in the key. `AuthenticatedByOwnAnswer`
   says what the key does tell apart.
8. *Any request with `X-Reauth-Internal-Preflight: 1` passes without a preflight check*
   (`pkg/proxy/handler.go:685`). The gateway marks its own checks so; the header is not taken out of
   the requests of others. `UncheckedOnlyAfterFailure` and `PolicyTakesEffect` except these requests.
9. *An FN app that waits in a browser's flight can be given a cached refusal*
   (`pkg/proxy/handler.go:729`). Which refusals are passed by is decided for the leader.
   `AppsAskThemselves` is about an app's own look-ups, its own flights and those of other apps.

## 5. Proofs

The only assumptions are the `ASSUME`s of each module: times are natural numbers, special
values are not ordinary ones (`NoEngineAssumption` of `WAF`, `None \notin AnswerType` of
`Preflight`), somebody may ask (`Profiles # {}`), and the clock's zone is one there is
(`Zones \subseteq -12..14`: of a zone 24 hours east or more a clean-up would leave a day too
many). TLC evaluates them on every run. Nothing is assumed finite or bounded but the clock,
the days and the counts of changes and faults, which are bounded by constants of any value. One theorem has a hypothesis besides:
`SelectionsCompile` is about rule files that are `DefinedFirst` (a rule is defined before the lines
that update its targets, in the order of loading); the run's files are, which an `ASSUME` of `MCWAF`
has TLC evaluate.

The provers take no induction over a predicate. Where a proof needs one (a sequence that is
selected from, a file that is read backwards) the predicate is made a set or a function:
`SetInduction` of `WAFProofs` and the least element of a set of counterexamples, both from the library's
`WFMin`. So a recursive function is shown to have the value its equations give it
(`RecursionDefines`), and `Kept` and `FlattenSeq` to be what they should (`KeptFacts`, `FlattenFacts`).
The strengthenings below were run as invariants of TLC before they were proved.

**AuthCache** (`AuthCacheProofs`). `TypeOK` alone is not
inductive: a step reads `profile[r]` or `answer[r]`, which are `None` in some places.
`Stages` says where a request must have them; `TypeInv` is both.
- `IndexAgrees`, `InvalidationForgets`: `IndexMatchesEntries` is inductive with `TypeInv`. A deletion
  removes from both maps (`DeleteKeepsIndex`), a store with its clean-up keeps them in
  step (`StoreKeepsIndex`); invalidation of what the index lists then hits every entry of
  the identity, which makes `ForgottenUntilChecked` inductive too.
- `StalenessIsBounded`: an entry expires less than a timeout and a TTL after its answer
  was given (`EntriesInTime`); a request waiting for an answer asked less than a
  timeout ago, and what it has in hand is not older than what it could have found when
  it looked (`RequestsInTime`). The leader's steps are where the clock must stand still.
- `FlightsAreLed`, `AnswersGetNewer`: by `FlightInv`, at most one request is at work on a
  key, and it is the leader; so an answer that is stored is newer than all that were.
- `AnswersAreOwn`, `CachedAnswersAreClean`: `OwnAnswers` follows an answer from the service through the leader, the
  cache and the followers. The lemma `KeyTellsClient` is the heart: equal keys mean
  the same address, the same kind of request and the same jar (or, without one, the same Authorization
  header), which the address's place in the key is for.

**ProxyStack** (`ProxyStackProofs`). `ListenersRecorded`: `RebindInv` says for each place
in `rebind` which sockets are open and of which host and mode, and that without a holder
the record is right.

**StreamManager** (`StreamManagerProofs`). `SocketsOwned`: `OwnInv` is the property said
pointwise (map, `created`, `victims` are disjoint and cover what is not free), `CallInv`
which call may own what in which place, `ConnInv` that a connection's listener state is
not free. `StoppedIsSilent` adds `StopInv`: a closed manager has an empty map, so
with no call on its way nothing owns a socket. `LoneCallsMend` is by `LoneInv`, which
follows a call that no other overlaps: what it planned is what the manager still listens
on (`Lone`), after its commit the rules are its own and have their listeners, and
when it has returned the saved rules are those in effect (`Settled`).

**ConfigStore** (`ConfigStoreProofs`). `LockInv` says who holds `h.mu` and `m.mu` in which
place, `WriteInv` that what a writer is about to write is the handler's copy and the file's
own sections as they are, since both locks' owners wait for it, and `StageInv` which
sections a call can be about in which place. With the first two `FileInv`, which adds
`FileLagsByOneCall` and `FileSectionsKept`, is inductive (`FileFollowsHandler`, `FileKeepsItsOwn`), and `RestartRestoresHandler`
follows: only an unbroken file starts a program. `RuntimeFollowsHandler` needs `FollowInv`:
a call is alone as long as its section is not contended (`AloneInv`), each place is reached by
calls of some sections only (`PlaceInv`), and a call that is alone finds in the copy and
in the runtime what it put there (`ProgressInv`).

**Throttle** (`ThrottleProofs`). `EntryInv`: an entry that is blocked is empty, and in one that
is not, a burst is left or has been given since the last block; hence `BlocksAreEarned`.
`BlockInv`: a block that is not over is in the client's entry, since no clean-up
forgets it and no request opens it with a time before its end; hence `BlocksHold`.
`CreditInv`: what was given and what is left was put in or paid for, where the time paid
for is `seen` and all steps back of it; hence `GrantsPaidFor`. It needs `EntryInv`: an
entry's `lastSeen` is the time up to which its client was paid. The lemma `EvaluatedStep`
does for all evaluations what the clean-up and the other clients are concerned with.

**Preflight** (`PreflightProofs`). With the types, `Stages` (who leads a flight, where a key
and an answer are there), `Times` (an exchange takes no longer than its timeout, a failure is
dealt with at the time it happened), `EntriesAge` and `AnswersAge` (what is stored or
handed on says what the service still says, or said before it changed its mind, and is not older
than a timeout and a TTL) are inductive; the last two hold only because an answer is dated
when the service gives it. What `OpenOnlyAfterFailure` and `ServiceTakesEffect`
state is then inductive itself, the first by `OnlyTheCheckIsExempt`: a published configuration has an
auth port. `NoAppIsRefusedByTheCache` is by `AppsAsked`: a refusal in the hands of a leader that is
an app was asked for by itself (`RefusalsAreAsked`), and who ends now is told what its
leader has (`FinishTells`).

**GatewayLog** (`GatewayLogProofs`). `OldFilesAreRemoved`: the property is inductive with the
types, since a day or a number of days that changes also makes its premise false.
`WholeLinesAreKept`: `PendingInv` says that the file ends with what a write in progress has
written, and that the rest is the rest of the line; `OpenInv` that the open file of
today is the file `dir` has for today, and that the file being written is still the file of its
date; `KeptInv` that each line in `acked` is `Whole` in the file of its date, which is
kept. What is appended behind a line leaves it whole (`WholeLasts`), the second
part of a write completes it (`LineFinished`), and a whole line is what a
reader finds (`WholeIsRead`). The case that needs care is a file removed while
a write is in progress: neither a clean-up nor a deletion can come between the two parts, as
all three hold the writer's mutex.

**WAF** (`WAFProofs`). `TypeCorrect` is not `TypeOK` alone: a call must carry an engine where
it installs one (`Types`). `RuntimeIsOneRegime`: `CallStages` says what a call that runs
alone has stored at each place, `Agreed` what the last one left. `DecisionsAreExplained`: by
`InForce`, unless calls overlapped, all a request can read is of a regime in `regimes`, and by
`Evaluations` what it has read is of one that was in force since it began; engine, mode and
exclusions may be of two regimes, which is why the property allows for one change only.

`EventsAreNotLost`: `EventInv` says of every event that was added that it was handed out, is
stored, is too old, or has as many events behind it as there is room for, and that what is
stored is in order behind what was handed out. An event is added with the time at which the
engine answered, which may be past: hence its second part. `SelectionsCompile`: a
call compiles what it selected on the disk it looked at (`Selected`), and of files that define
rules first the filter leaves an update only where a rule that it keeps, or one that no file defines,
is updated (`SelectionCompiles`).

**GatewayLog, queries** (the second half of `GatewayLogProofs`). `PagesAreExact` and
`QueriesAnswerAtOnce` are by `PagingInv`:
- `BytesInv`: files hold bytes of lines that were logged, so that a line logged later does not change
  how an earlier one matches (`MatchingKept`); with it files and kinds only grow (`LogStepGrows`),
  and what a client knows of the first bytes of a file stays true (`ClientStays`).
- `CursorGoesOn`, of a query in progress: what it carries over from the chunk behind is the start of
  the line that crosses into it (`Remains`), and it has found, in order, the matching lines that
  begin behind where it is, fewer than one more than the limit (`FoundBehind`). That reading the
  chunk before it keeps this for chunks of any size, for lines longer than many chunks, and for newlines at the
  end, which the first chunk trims, is the heart (`ChunkIsPart`, `LinesInFacts`, `ChunkFinds`). When the
  query ends, what it has is the page by definition (`AnswerIsPage`).
- `Paged`, of a client: what it was shown is the first part of the matching lines, in a part of the file it
  first asked about, and the cursor is where the last of these begins. A page of the bytes before a
  cursor goes on where the last ended (`PageGoesOn`), since a line begins there and none is cut
  (`LinesBefore`).

The lemmas `StartsFacts` and `Slice` do the counting: matching lines are a descending sequence, and what lies
between two offsets is a slice of it. For the refinement each step has a lemma that says what it does to
the answers (`OpenCursorStep`, `ReadChunkStep`, ...): only `OpenCursor` changes one, to the page of
the moment, a page query and a restart forget, and the writer's steps are `LogChanges`.

**Only model-checked.**
- Liveness (`EveryRequestDecided`, `RequestedRebindHappens`, `EveryCallReturns`,
  `EveryCallEnds`): this prover cannot reason from fairness.
- `PageIsWindow` of `GatewayLog`: the page is taken from a ring, by remainders of a size
  that is itself a product, or collected between two counts of a second scan of a file that may
  have grown; the arithmetic of remainders is more than the provers here find.
- Everything about `Iptables`: a verdict is that of the first rule of a chain that matches, and a call
  is a program flattened from programs for addresses and ports, whose jumps are relative. What the
  properties compare holds of whole programs, interleaved: an invariant would have to say, for each
  place in each program, what the chains are like, and has not been written.

## 6. What is not modelled

Traffic counters and the active clients' clean-up: figures for display, which no code acts
on. Routing: one longest-prefix search over an immutable snapshot. URL, header and body rewriting,
pages and toolbar, the FN app protocol and icon replacement, certificates, i18n, logging:
pure data or formatting, little state, within the reach of tests. Matching of
addresses in the blacklist and the exemptions: pure, tested. `PROJECT.json` lists them.
Some hazards are listed without a property; each has a note that says why.
