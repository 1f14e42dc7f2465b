-------------------------------- MODULE Throttle --------------------------------
(***************************************************************************)
(* The throttle of the reverse proxy (pkg/proxy/reverse_proxy_throttle.go): *)
(* a token bucket for each client address, which blocks the client for     *)
(* some time when it is empty.                                             *)
(*                                                                         *)
(* ServeHTTP reads the clock before it comes to the locks of the throttle, *)
(* so requests are evaluated with times that are out of order, each as     *)
(* late as the scheduler likes.  Clients here are those of one shard; the  *)
(* shards have nothing in common but the configuration.                    *)
(*                                                                         *)
(* Tokens are counted in fractions, Token of them for one request; burst   *)
(* is in fractions, rate in fractions per tick of the clock.  0 is the     *)
(* zero time of Go; the clock starts at 1.                                 *)
(***************************************************************************)
EXTENDS Integers

CONSTANTS
    Requests,         \* goroutines that serve requests
    Clients,          \* client addresses of one shard
    Configs,          \* configurations the admin API may set
    Defaults,         \* what replaces numbers that are not positive
    Token,
    CleanupInterval, MinimumEntryTTL,
    MinBurst, MaxBurst, MaxRate,  \* limits of the configurations that are enabled
    MaxTime,          \* bound of the clock
    MaxUpdates,       \* bound of the changes of the configuration
    None

Settings == [enabled : BOOLEAN, rate : Int, burst : Int, block : Int]

PositiveOr(n, default) == IF n <= 0 THEN default ELSE n

Normalize(cfg) ==
    IF ~cfg.enabled THEN cfg
    ELSE [enabled |-> TRUE,
          rate  |-> PositiveOr(cfg.rate, Defaults.rate),
          burst |-> PositiveOr(cfg.burst, Defaults.burst),
          block |-> PositiveOr(cfg.block, Defaults.block)]

ASSUME ThrottleAssumption ==
    /\ Configs \subseteq Settings /\ Defaults \in Settings
    /\ Token \in Nat \ {0} /\ MinBurst \in Nat /\ MinBurst >= Token
    /\ MaxBurst \in Nat /\ MaxRate \in Nat
    /\ CleanupInterval \in Nat /\ MinimumEntryTTL \in Nat
    /\ MaxTime \in Nat \ {0} /\ MaxUpdates \in Nat
    /\ \A cfg \in Configs : cfg.enabled =>
          /\ Normalize(cfg).burst \in MinBurst..MaxBurst
          /\ Normalize(cfg).rate \in 1..MaxRate
          /\ Normalize(cfg).block > 0

Entries == [tokens : Nat, lastSeen : Nat, blockedUntil : Nat]

ASSUME NoneAssumption == None \notin Clients /\ None \notin Entries

VARIABLES
    clock,
    config,       \* t.config
    entries,      \* shard.entries
    nextCleanup,  \* shard.nextCleanup
    client, now,  \* of each request: its address, None before it comes; its time
    updates,
    granted,      \* history, by client: fractions handed out,
    filled,       \*   fractions put in when the bucket was made or filled up,
    seen,         \*   the time of the request that was evaluated last,
    back,         \*   the sum of all steps back of that time,
    since,        \*   fractions handed out since it was blocked last,
    until         \*   the end of its last block, 0 after the throttle was off

vars == <<clock, config, entries, nextCleanup, client, now, updates,
          granted, filled, seen, back, since, until>>
history == <<granted, filled, seen, back, since, until>>

\* Buckets never hold more than the largest burst.
TypeOK ==
    /\ clock \in 1..MaxTime
    /\ config \in {Normalize(cfg) : cfg \in Configs}
    /\ entries \in [Clients -> Entries \union {None}]
    /\ nextCleanup \in Nat
    /\ client \in [Requests -> Clients \union {None}]
    /\ now \in [Requests -> 0..MaxTime]
    /\ updates \in 0..MaxUpdates
    /\ granted \in [Clients -> Nat] /\ filled \in [Clients -> Nat]
    /\ seen \in [Clients -> Nat] /\ back \in [Clients -> Nat]
    /\ since \in [Clients -> Nat] /\ until \in [Clients -> Nat]
    /\ \A c \in Clients : entries[c] # None => entries[c].tokens <= MaxBurst

Nowhere == [c \in Clients |-> None]
Zero == [c \in Clients |-> 0]

Init ==
    /\ clock = 1
    /\ config \in {Normalize(cfg) : cfg \in Configs}
    /\ entries = Nowhere /\ nextCleanup = 0
    /\ client = [r \in Requests |-> None] /\ now = [r \in Requests |-> 0]
    /\ updates = 0
    /\ granted = Zero /\ filled = Zero /\ seen = Zero /\ back = Zero
    /\ since = Zero /\ until = Zero

-----------------------------------------------------------------------------
(* What evaluate makes of an entry *)

EntryTTL(cfg) == IF 2 * cfg.block < MinimumEntryTTL THEN MinimumEntryTTL ELSE 2 * cfg.block

\* Mutant: idle entries are forgotten although they are blocked.
CleanupIgnoresBlocks(t, cfg) ==
    IF t < nextCleanup THEN entries
    ELSE [c \in Clients |->
            IF entries[c] # None /\ t - entries[c].lastSeen > EntryTTL(cfg)
            THEN None ELSE entries[c]]

Cleanup(t, cfg) ==
    IF t < nextCleanup THEN entries
    ELSE [c \in Clients |->
            IF /\ entries[c] # None
               /\ entries[c].blockedUntil <= t
               /\ t - entries[c].lastSeen > EntryTTL(cfg)
            THEN None ELSE entries[c]]

\* The entry of the request's client after the clean-up, made if need be.
Found(r) ==
    LET e == Cleanup(now[r], config)[client[r]]
    IN  IF e = None THEN [tokens |-> config.burst, lastSeen |-> 0, blockedUntil |-> 0] ELSE e

\* Mutant: a client whose block is over goes on with what it had.
OpenedEmpty(e) == [e EXCEPT !.blockedUntil = 0]

\* A block is over: the bucket is filled up if it is empty.
Opened(e) ==
    [tokens |-> IF e.blockedUntil # 0 /\ e.tokens < Token THEN config.burst ELSE e.tokens,
     lastSeen |-> e.lastSeen,
     blockedUntil |-> 0]

\* Mutant: nothing stops a bucket from filling.
RefilledUncapped(e, t) ==
    [e EXCEPT !.lastSeen = t,
              !.tokens = IF e.lastSeen # 0 /\ t > e.lastSeen
                         THEN @ + (t - e.lastSeen) * config.rate ELSE @]

\* Mutant: lastSeen is set once, and the time since then is paid for again and again.
RefilledFromFirst(e, t) ==
    LET more == e.tokens + (t - e.lastSeen) * config.rate
    IN  IF e.lastSeen = 0 THEN [e EXCEPT !.lastSeen = t]
        ELSE IF t <= e.lastSeen THEN e
        ELSE [e EXCEPT !.tokens = IF more > config.burst THEN config.burst ELSE more]

\* Tokens for the time since the last request, unless that one was later;
\* the limit is looked at only when there are some.
Refilled(e, t) ==
    LET more == e.tokens + (t - e.lastSeen) * config.rate
    IN  [tokens |-> IF e.lastSeen = 0 \/ t <= e.lastSeen THEN e.tokens
                    ELSE IF more > config.burst THEN config.burst ELSE more,
         lastSeen |-> t,
         blockedUntil |-> e.blockedUntil]

\* The bucket a request that is not blocked finds.
Bucket(r) == Refilled(Opened(Found(r)), now[r])

-----------------------------------------------------------------------------
(* Requests *)

\* ServeHTTP reads the clock; locks come later.
Capture(r) ==
    \E c \in Clients :
        /\ client[r] = None
        /\ client' = [client EXCEPT ![r] = c]
        /\ now' = [now EXCEPT ![r] = clock]
        /\ UNCHANGED <<clock, config, entries, nextCleanup, updates, history>>

Leave(r) == client' = [client EXCEPT ![r] = None] /\ now' = [now EXCEPT ![r] = 0]

\* No route matches, the address is exempt or not there, or the throttle is off.
Bypass(r) ==
    /\ client[r] # None
    /\ Leave(r)
    /\ UNCHANGED <<clock, config, entries, nextCleanup, updates, history>>

\* What every evaluation does to the shard, with the entry it leaves.
Evaluated(r, e) ==
    /\ client[r] # None /\ config.enabled
    /\ entries' = [Cleanup(now[r], config) EXCEPT ![client[r]] = e]
    /\ nextCleanup' = IF now[r] < nextCleanup THEN nextCleanup ELSE now[r] + CleanupInterval
    /\ Leave(r)
    /\ seen' = [seen EXCEPT ![client[r]] = now[r]]
    /\ back' = [back EXCEPT ![client[r]] = @ + IF now[r] < seen[client[r]]
                                               THEN seen[client[r]] - now[r] ELSE 0]
    /\ UNCHANGED <<clock, config, updates>>

\* The fractions that making or opening the bucket has put into it.
FilledUp(r) ==
    LET had == Cleanup(now[r], config)[client[r]]
    IN  Opened(Found(r)).tokens - IF had = None THEN 0 ELSE had.tokens

Blocked(r) == Found(r).blockedUntil > now[r]

RefuseBlocked(r) ==
    /\ client[r] # None /\ Blocked(r)
    /\ Evaluated(r, [Found(r) EXCEPT !.lastSeen = now[r]])
    /\ UNCHANGED <<granted, filled, since, until>>

\* NewlyBlocked: the bucket is empty.
Block(r) ==
    /\ client[r] # None /\ ~Blocked(r) /\ Bucket(r).tokens < Token
    /\ LET c == client[r]
           end == now[r] + config.block
       IN  /\ Evaluated(r, [Bucket(r) EXCEPT !.blockedUntil = end])
           /\ filled' = [filled EXCEPT ![c] = @ + FilledUp(r)]
           /\ since' = [since EXCEPT ![c] = 0]
           /\ until' = [until EXCEPT ![c] = end]
    /\ UNCHANGED granted

Grant(r) ==
    /\ client[r] # None /\ ~Blocked(r) /\ Bucket(r).tokens >= Token
    /\ LET c == client[r]
       IN  /\ Evaluated(r, [Bucket(r) EXCEPT !.tokens = @ - Token])
           /\ filled' = [filled EXCEPT ![c] = @ + FilledUp(r)]
           /\ granted' = [granted EXCEPT ![c] = @ + Token]
           /\ since' = [since EXCEPT ![c] = @ + Token]
    /\ UNCHANGED until

-----------------------------------------------------------------------------
(* The administrator, and time *)

\* updateConfig: an enabled throttle keeps its buckets, blocks included; one
\* that is turned off forgets them.
UpdateConfig ==
    \E cfg \in Configs :
        /\ updates < MaxUpdates
        /\ updates' = updates + 1
        /\ config' = Normalize(cfg)
        /\ entries' = IF cfg.enabled THEN entries ELSE Nowhere
        /\ nextCleanup' = IF cfg.enabled THEN nextCleanup ELSE 0
        /\ until' = IF cfg.enabled THEN until ELSE Zero
        /\ UNCHANGED <<clock, client, now, granted, filled, seen, back, since>>

Tick ==
    /\ clock < MaxTime
    /\ clock' = clock + 1
    /\ UNCHANGED <<config, entries, nextCleanup, client, now, updates, history>>

Next ==
    \/ \E r \in Requests : Capture(r) \/ Bypass(r) \/ RefuseBlocked(r) \/ Block(r) \/ Grant(r)
    \/ UpdateConfig \/ Tick

Spec == Init /\ [][Next]_vars

-----------------------------------------------------------------------------
(* Properties *)

\* Until its block is over, a client is given nothing: neither by a request
\* that was delayed, nor by a clean-up in between, nor because another
\* configuration was set, unless that one turned the throttle off.
BlockHolds == [][\A c \in Clients : granted'[c] > granted[c] => clock >= until[c]]_vars

\* A client is blocked only when it has been given at least a burst since its
\* last block: a block ends, however the requests in it were timed.
BurstBeforeBlock ==
    [][\A c \in Clients : until'[c] > until[c] => since[c] + Token > MinBurst]_vars

\* A client is given no more than what its bucket was filled with and the rate
\* allows for the time that has passed.  Time that is passed over twice, since
\* a delayed request set lastSeen back, counts twice.
GrantsBounded ==
    \A c \in Clients : granted[c] <= filled[c] + MaxRate * (clock + back[c])

=============================================================================
