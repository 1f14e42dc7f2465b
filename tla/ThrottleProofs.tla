----------------------------- MODULE ThrottleProofs -----------------------------
(***************************************************************************)
(* Proofs about Throttle: for any number of requests and clients, any      *)
(* configurations and any delays, buckets are bounded, blocks hold, a      *)
(* burst lies between two blocks, and grants are paid for.                 *)
(***************************************************************************)
EXTENDS Throttle, TLAPS

\* A request's time is a time that was.
TimesPassed ==
    /\ \A r \in Requests : now[r] <= clock
    /\ \A r \in Requests : client[r] # None => now[r] > 0
    /\ \A c \in Clients : seen[c] <= clock

\* An entry was left by the last evaluation of its client; while it is blocked
\* it is empty, and otherwise a burst is in it or has been given since the
\* last block.
EntryInv ==
    \A c \in Clients : entries[c] # None =>
        /\ entries[c].lastSeen = seen[c] /\ seen[c] > 0
        /\ entries[c].blockedUntil > 0 => entries[c].tokens < Token
        /\ entries[c].blockedUntil = 0 => entries[c].tokens + since[c] >= MinBurst

\* A block that is not over is in the entry of its client.
BlockInv ==
    \A c \in Clients : until[c] > clock =>
        entries[c] # None /\ entries[c].blockedUntil = until[c]

TokensOf(e) == IF e = None THEN 0 ELSE e.tokens

\* What was given and what is left was put in, or paid for by time.
CreditInv ==
    \A c \in Clients :
        granted[c] + TokensOf(entries[c]) <= filled[c] + MaxRate * (seen[c] + back[c])

ThrottleInv == TypeOK /\ TimesPassed /\ EntryInv /\ BlockInv /\ CreditInv

-----------------------------------------------------------------------------
(* Arithmetic *)

\* Credit grows with time.
LEMMA MoreTimeMoreCredit ==
    ASSUME NEW k \in Nat, NEW a \in Nat, NEW b \in Nat, a <= b
    PROVE  k * a <= k * b
<1>1. PICK d \in Nat : b = a + d
  <2>1. b - a \in Nat /\ b = a + (b - a)
    OBVIOUS
  <2>2. QED
    BY <2>1
<1>2. k * b = k * a + k * d
  BY <1>1
<1>3. k * d \in Nat /\ k * a \in Nat
  OBVIOUS
<1>4. QED
  BY <1>2, <1>3

\* A lower rate earns less.
LEMMA HigherRateMoreCredit ==
    ASSUME NEW k \in Nat, NEW m \in Nat, NEW a \in Nat, k <= m
    PROVE  a * k \in Nat /\ a * k <= m * a
<1>1. a * k <= a * m
  BY MoreTimeMoreCredit
<1>2. a * m = m * a /\ a * k \in Nat
  OBVIOUS
<1>3. QED
  BY <1>1, <1>2

-----------------------------------------------------------------------------
(* What evaluate makes of an entry *)

\* A configuration that is enabled is within the limits.
LEMMA ConfigLimits ==
    ASSUME TypeOK, config.enabled
    PROVE  /\ config.burst \in Nat /\ MinBurst <= config.burst /\ config.burst <= MaxBurst
           /\ config.rate \in Nat /\ config.rate <= MaxRate
           /\ config.block \in Nat /\ config.block > 0
           /\ Token \in Nat /\ Token > 0 /\ MinBurst \in Nat /\ MinBurst >= Token
           /\ MaxBurst \in Nat /\ MaxRate \in Nat /\ CleanupInterval \in Nat
<1>1. PICK cfg \in Configs : config = Normalize(cfg)
  BY DEF TypeOK
<1>2. cfg.enabled
  BY <1>1 DEF Normalize
<1>3. Normalize(cfg).burst \in MinBurst..MaxBurst /\ Normalize(cfg).rate \in 1..MaxRate
      /\ Normalize(cfg).block > 0
  BY <1>2, ThrottleAssumption
<1>4. Normalize(cfg).block \in Int
  <2>1. cfg \in Settings /\ Defaults \in Settings
    BY ThrottleAssumption
  <2>2. Normalize(cfg).block = PositiveOr(cfg.block, Defaults.block)
    BY <1>2 DEF Normalize
  <2>3. QED
    BY <2>1, <2>2 DEF Settings, PositiveOr
<1>5. QED
  BY <1>1, <1>3, <1>4, ThrottleAssumption

\* The clean-up keeps entries or forgets them, and keeps those still blocked.
LEMMA CleanupKeeps ==
    ASSUME TypeOK, NEW t \in Nat, NEW cfg
    PROVE  /\ Cleanup(t, cfg) \in [Clients -> Entries \union {None}]
           /\ \A c \in Clients :
                 /\ Cleanup(t, cfg)[c] = entries[c] \/ Cleanup(t, cfg)[c] = None
                 /\ entries[c] # None /\ entries[c].blockedUntil > t
                       => Cleanup(t, cfg)[c] = entries[c]
<1>1. entries \in [Clients -> Entries \union {None}]
  BY DEF TypeOK
<1>2. CASE t < nextCleanup
  BY <1>1, <1>2 DEF Cleanup
<1>3. CASE ~(t < nextCleanup)
  <2>1. ASSUME NEW c \in Clients, entries[c] # None, entries[c].blockedUntil > t
        PROVE  ~(entries[c].blockedUntil <= t)
    BY <1>1, <2>1 DEF Entries
  <2>2. QED
    BY <1>1, <1>3, <2>1 DEF Cleanup
<1>4. QED
  BY <1>2, <1>3

\* Entries, changed in one field.
LEMMA EntryUpdates ==
    ASSUME NEW e \in Entries, NEW x
    PROVE  /\ [e EXCEPT !.blockedUntil = x]
                = [tokens |-> e.tokens, lastSeen |-> e.lastSeen, blockedUntil |-> x]
           /\ [e EXCEPT !.lastSeen = x]
                = [tokens |-> e.tokens, lastSeen |-> x, blockedUntil |-> e.blockedUntil]
           /\ [e EXCEPT !.tokens = x]
                = [tokens |-> x, lastSeen |-> e.lastSeen, blockedUntil |-> e.blockedUntil]
<1>1. /\ e = [tokens |-> e.tokens, lastSeen |-> e.lastSeen, blockedUntil |-> e.blockedUntil]
      /\ DOMAIN e = {"tokens", "lastSeen", "blockedUntil"}
  BY DEF Entries
<1>2. [e EXCEPT !.blockedUntil = x]
        = [tokens |-> e.tokens, lastSeen |-> e.lastSeen, blockedUntil |-> x]
  BY <1>1
<1>3. [e EXCEPT !.lastSeen = x]
        = [tokens |-> e.tokens, lastSeen |-> x, blockedUntil |-> e.blockedUntil]
  BY <1>1
<1>4. [e EXCEPT !.tokens = x]
        = [tokens |-> x, lastSeen |-> e.lastSeen, blockedUntil |-> e.blockedUntil]
  BY <1>1
<1>5. QED
  BY <1>2, <1>3, <1>4

\* The state of an evaluation: a request with a client and a time.
LEMMA Request ==
    ASSUME ThrottleInv, NEW r \in Requests, client[r] # None
    PROVE  /\ client[r] \in Clients
           /\ now[r] \in Nat /\ now[r] > 0 /\ now[r] <= clock /\ now[r] <= MaxTime
           /\ clock \in Nat /\ seen[client[r]] \in Nat /\ seen[client[r]] <= clock
<1>1. now[r] \in 0..MaxTime /\ clock \in 1..MaxTime /\ client[r] \in Clients
  BY DEF ThrottleInv, TypeOK
<1>2. now[r] <= clock /\ now[r] > 0 /\ seen[client[r]] <= clock
  BY <1>1 DEF ThrottleInv, TimesPassed
<1>3. QED
  BY <1>1, <1>2, ThrottleAssumption DEF ThrottleInv, TypeOK

\* The entry that is found is the client's, or a new one.
LEMMA FoundEntry ==
    ASSUME ThrottleInv, NEW r \in Requests, client[r] # None, config.enabled
    PROVE  /\ Found(r) \in Entries /\ Found(r).tokens <= MaxBurst
           /\ \/ /\ entries[client[r]] # None
                 /\ Cleanup(now[r], config)[client[r]] = entries[client[r]]
                 /\ Found(r) = entries[client[r]]
              \/ /\ Cleanup(now[r], config)[client[r]] = None
                 /\ Found(r) = [tokens |-> config.burst, lastSeen |-> 0, blockedUntil |-> 0]
<1> DEFINE c == client[r]
           e == Cleanup(now[r], config)[c]
<1>1. c \in Clients /\ now[r] \in Nat
  BY Request
<1>2. e = entries[c] \/ e = None
  BY <1>1, CleanupKeeps DEF ThrottleInv
<1>3. entries[c] \in Entries \union {None}
      /\ (entries[c] # None => entries[c].tokens <= MaxBurst)
  BY <1>1 DEF ThrottleInv, TypeOK
<1>4. config.burst \in Nat /\ config.burst <= MaxBurst
  BY ConfigLimits DEF ThrottleInv
<1>5. CASE e = None
  <2>1. Found(r) = [tokens |-> config.burst, lastSeen |-> 0, blockedUntil |-> 0]
    BY <1>5 DEF Found
  <2>2. QED
    BY <1>4, <1>5, <2>1 DEF Entries
<1>6. CASE e # None
  <2>1. Found(r) = e /\ e = entries[c]
    BY <1>2, <1>6 DEF Found
  <2>2. QED
    BY <1>3, <1>6, <2>1
<1>7. QED
  BY <1>5, <1>6

\* Opening fills an empty bucket up, and leaves another as it is.
LEMMA OpenedEntry ==
    ASSUME ThrottleInv, NEW r \in Requests, client[r] # None, config.enabled
    PROVE  /\ Opened(Found(r)) \in Entries
           /\ Opened(Found(r)).tokens <= MaxBurst
           /\ Opened(Found(r)).blockedUntil = 0
           /\ Opened(Found(r)).lastSeen = Found(r).lastSeen
           /\ Opened(Found(r)).tokens + since[client[r]] >= MinBurst
           /\ FilledUp(r) \in Nat
           /\ Opened(Found(r)).tokens
                = TokensOf(Cleanup(now[r], config)[client[r]]) + FilledUp(r)
<1> DEFINE c == client[r]
           f == Found(r)
           o == Opened(f)
           e == Cleanup(now[r], config)[c]
<1>1. c \in Clients /\ since[c] \in Nat
  BY Request DEF ThrottleInv, TypeOK
<1>2. f \in Entries /\ f.tokens <= MaxBurst
  BY FoundEntry
<1>3. config.burst \in Nat /\ config.burst <= MaxBurst /\ MinBurst <= config.burst
      /\ Token \in Nat /\ MinBurst \in Nat /\ MinBurst >= Token /\ MaxBurst \in Nat
  BY ConfigLimits DEF ThrottleInv
<1>4. f.tokens \in Nat /\ f.lastSeen \in Nat /\ f.blockedUntil \in Nat
  BY <1>2 DEF Entries
<1>5. /\ o.tokens = IF f.blockedUntil # 0 /\ f.tokens < Token THEN config.burst ELSE f.tokens
      /\ o.blockedUntil = 0 /\ o.lastSeen = f.lastSeen
      /\ o = [tokens |-> o.tokens, lastSeen |-> f.lastSeen, blockedUntil |-> 0]
  <2> DEFINE x == IF f.blockedUntil # 0 /\ f.tokens < Token THEN config.burst ELSE f.tokens
  <2>1. o = [tokens |-> x, lastSeen |-> f.lastSeen, blockedUntil |-> 0]
    BY DEF Opened
  <2> HIDE DEF x, f, o
  <2>2. o.tokens = x /\ o.lastSeen = f.lastSeen /\ o.blockedUntil = 0
    BY <2>1
  <2>3. QED
    BY <2>1, <2>2 DEF x
<1>6. o.tokens \in Nat /\ o.tokens <= MaxBurst /\ o.tokens >= f.tokens
  BY <1>2, <1>3, <1>4, <1>5
<1>7. o \in Entries
  BY <1>4, <1>5, <1>6 DEF Entries
<1>8. o.tokens + since[c] >= MinBurst
  <2>1. CASE f = [tokens |-> config.burst, lastSeen |-> 0, blockedUntil |-> 0]
    BY <1>1, <1>3, <1>5, <2>1
  <2>2. CASE entries[c] # None /\ f = entries[c]
    <3>1. /\ f.blockedUntil > 0 => f.tokens < Token
          /\ f.blockedUntil = 0 => f.tokens + since[c] >= MinBurst
      BY <1>1, <2>2 DEF ThrottleInv, EntryInv
    <3>2. QED
      BY <1>1, <1>3, <1>4, <1>5, <3>1
  <2>3. QED
    BY <2>1, <2>2, FoundEntry
<1>9. FilledUp(r) \in Nat /\ o.tokens = TokensOf(e) + FilledUp(r)
  <2>1. FilledUp(r) = o.tokens - TokensOf(e)
    BY DEF FilledUp, TokensOf
  <2>2. CASE e = None
    BY <1>6, <2>1, <2>2 DEF TokensOf
  <2>3. CASE e # None
    <3>1. e = f
      BY <2>3, FoundEntry
    <3>2. TokensOf(e) = f.tokens
      BY <2>3, <3>1 DEF TokensOf
    <3>3. QED
      BY <1>4, <1>6, <2>1, <3>2
  <2>4. QED
    BY <2>2, <2>3
<1>10. QED
  BY <1>5, <1>6, <1>7, <1>8, <1>9

\* The ticks a request adds to those its client has been paid for.
Gain(r) == IF now[r] > seen[client[r]] THEN now[r] - seen[client[r]] ELSE 0

\* The bucket that is found: it has what opening left and what the time earned.
LEMMA BucketFound ==
    ASSUME ThrottleInv, NEW r \in Requests, client[r] # None, config.enabled
    PROVE  /\ Bucket(r) \in Entries
           /\ Bucket(r).tokens <= MaxBurst
           /\ Bucket(r).blockedUntil = 0
           /\ Bucket(r).lastSeen = now[r]
           /\ Bucket(r).tokens + since[client[r]] >= MinBurst
           /\ Bucket(r).tokens <= Opened(Found(r)).tokens + MaxRate * Gain(r)
           /\ MaxRate * Gain(r) \in Nat
<1> DEFINE c == client[r]
           o == Opened(Found(r))
           b == Bucket(r)
           gap == now[r] - o.lastSeen
           more == o.tokens + gap * config.rate
<1>1. /\ c \in Clients /\ since[c] \in Nat
      /\ now[r] \in Nat /\ now[r] > 0 /\ seen[c] \in Nat
  BY Request DEF ThrottleInv, TypeOK
<1>2. /\ o \in Entries /\ o.tokens <= MaxBurst /\ o.blockedUntil = 0
      /\ o.tokens + since[c] >= MinBurst /\ o.lastSeen = Found(r).lastSeen
  BY OpenedEntry
<1>3. config.burst \in Nat /\ config.burst <= MaxBurst /\ MinBurst <= config.burst
      /\ config.rate \in Nat /\ config.rate <= MaxRate /\ MaxRate \in Nat
      /\ MinBurst \in Nat /\ MaxBurst \in Nat
  BY ConfigLimits DEF ThrottleInv
<1>4. o.tokens \in Nat /\ o.lastSeen \in Nat
  BY <1>2 DEF Entries
<1>5. Gain(r) \in Nat /\ MaxRate * Gain(r) \in Nat
  <2>1. Gain(r) \in Nat
    BY <1>1 DEF Gain
  <2>2. QED
    BY <1>3, <2>1
<1>6. /\ b.tokens = IF o.lastSeen = 0 \/ now[r] <= o.lastSeen THEN o.tokens
                    ELSE IF more > config.burst THEN config.burst ELSE more
      /\ b.lastSeen = now[r] /\ b.blockedUntil = 0
      /\ b = [tokens |-> b.tokens, lastSeen |-> now[r], blockedUntil |-> 0]
  <2> DEFINE x == IF o.lastSeen = 0 \/ now[r] <= o.lastSeen THEN o.tokens
                  ELSE IF more > config.burst THEN config.burst ELSE more
  <2>1. b = [tokens |-> x, lastSeen |-> now[r], blockedUntil |-> o.blockedUntil]
    BY DEF Bucket, Refilled
  <2> HIDE DEF x, o, b, more, gap
  <2>2. b.tokens = x /\ b.lastSeen = now[r] /\ b.blockedUntil = 0 /\ o.blockedUntil = 0
    BY <1>2, <2>1
  <2>3. QED
    BY <2>1, <2>2 DEF x
<1>7. CASE o.lastSeen = 0 \/ now[r] <= o.lastSeen
  <2>1. b.tokens = o.tokens
    BY <1>6, <1>7
  <2>2. b \in Entries
    BY <1>1, <1>4, <1>6, <2>1 DEF Entries
  <2>3. b.tokens <= o.tokens + MaxRate * Gain(r)
    BY <1>4, <1>5, <2>1
  <2>4. QED
    BY <1>2, <1>5, <1>6, <2>1, <2>2, <2>3
<1>8. CASE o.lastSeen # 0 /\ now[r] > o.lastSeen
  <2>1. entries[c] # None /\ Found(r) = entries[c]
    <3>1. Found(r).lastSeen # 0
      BY <1>2, <1>8
    <3>2. QED
      BY <3>1, FoundEntry
  <2>2. o.lastSeen = seen[c]
    BY <1>1, <1>2, <2>1 DEF ThrottleInv, EntryInv
  <2>3. gap = Gain(r) /\ gap \in Nat
    BY <1>1, <1>8, <2>2 DEF Gain
  <2>4. gap * config.rate \in Nat /\ gap * config.rate <= MaxRate * gap
    BY <1>3, <2>3, HigherRateMoreCredit
  <2>5. b.tokens = IF more > config.burst THEN config.burst ELSE more
    BY <1>1, <1>4, <1>6, <1>8
  <2>6. more \in Nat /\ more >= o.tokens /\ more <= o.tokens + MaxRate * Gain(r)
    <3> HIDE DEF gap
    <3>1. MaxRate * Gain(r) = MaxRate * gap
      BY <2>3
    <3>2. QED
      BY <1>4, <1>5, <2>4, <3>1
  <2>7. b.tokens \in Nat /\ b.tokens <= MaxBurst /\ b.tokens <= more
    <3> HIDE DEF more
    <3>1. QED
      BY <1>3, <2>5, <2>6
  <2>8. b.tokens + since[c] >= MinBurst
    <3> HIDE DEF more
    <3>1. QED
      BY <1>1, <1>2, <1>3, <1>4, <2>5, <2>6
  <2>9. b \in Entries
    BY <1>1, <1>6, <2>7 DEF Entries
  <2>10. b.tokens <= o.tokens + MaxRate * Gain(r)
    <3> HIDE DEF more
    <3>1. QED
      BY <1>4, <1>5, <2>6, <2>7
  <2>11. QED
    BY <1>5, <1>6, <2>7, <2>8, <2>9, <2>10
<1>9. QED
  BY <1>1, <1>4, <1>7, <1>8

-----------------------------------------------------------------------------
(* Steps *)

\* What a client is credited for grows with its gain, also when the time of
\* the request that is evaluated lies before that of the last one.
LEMMA CreditGrows ==
    ASSUME ThrottleInv, NEW r \in Requests, NEW e, Evaluated(r, e)
    PROVE  /\ seen' \in [Clients -> Nat] /\ back' \in [Clients -> Nat]
           /\ MaxRate * (seen'[client[r]] + back'[client[r]])
                = MaxRate * (seen[client[r]] + back[client[r]]) + MaxRate * Gain(r)
<1> DEFINE c == client[r]
           old == seen[c] + back[c]
<1>1. client[r] # None
  BY DEF Evaluated
<1>2. c \in Clients /\ now[r] \in Nat /\ seen[c] \in Nat /\ back[c] \in Nat
      /\ seen \in [Clients -> Nat] /\ back \in [Clients -> Nat]
  BY <1>1, Request DEF ThrottleInv, TypeOK
<1>3. seen'[c] = now[r]
      /\ back'[c] = back[c] + IF now[r] < seen[c] THEN seen[c] - now[r] ELSE 0
  BY <1>2 DEF Evaluated
<1>4. seen' \in [Clients -> Nat] /\ back' \in [Clients -> Nat]
  <2>1. back[c] + (IF now[r] < seen[c] THEN seen[c] - now[r] ELSE 0) \in Nat
    BY <1>2
  <2>2. QED
    BY <1>2, <2>1 DEF Evaluated
<1>5. seen'[c] + back'[c] = old + Gain(r) /\ Gain(r) \in Nat /\ old \in Nat
  BY <1>2, <1>3 DEF Gain
<1>6. MaxRate * (old + Gain(r)) = MaxRate * old + MaxRate * Gain(r)
  <2> HIDE DEF old
  <2>1. QED
    BY <1>5, ThrottleAssumption
<1>7. QED
  BY <1>4, <1>5, <1>6

\* An evaluation that leaves its own client in order leaves all in order: the
\* clean-up forgets entries, and none that is blocked.
LEMMA EvaluatedStep ==
    ASSUME ThrottleInv, NEW r \in Requests, NEW e \in Entries, Evaluated(r, e),
           e.tokens <= MaxBurst, e.lastSeen = now[r],
           granted' \in [Clients -> Nat], filled' \in [Clients -> Nat],
           since' \in [Clients -> Nat], until' \in [Clients -> Nat],
           \A d \in Clients : d # client[r] =>
               granted'[d] = granted[d] /\ filled'[d] = filled[d]
               /\ since'[d] = since[d] /\ until'[d] = until[d],
           e.blockedUntil > 0 => e.tokens < Token,
           e.blockedUntil = 0 => e.tokens + since'[client[r]] >= MinBurst,
           until'[client[r]] > clock => e.blockedUntil = until'[client[r]],
           granted'[client[r]] + e.tokens - filled'[client[r]]
             <= granted[client[r]] + TokensOf(Cleanup(now[r], config)[client[r]])
                - filled[client[r]] + MaxRate * Gain(r)
    PROVE  ThrottleInv'
<1> DEFINE c == client[r]
           kept == Cleanup(now[r], config)
<1>1. c # None /\ config.enabled /\ entries' = [kept EXCEPT ![c] = e]
      /\ UNCHANGED <<clock, config, updates>>
  BY DEF Evaluated
<1>2. /\ c \in Clients /\ now[r] \in Nat /\ now[r] > 0 /\ now[r] <= clock /\ clock \in Nat
  BY <1>1, Request
<1>3. /\ kept \in [Clients -> Entries \union {None}]
      /\ \A d \in Clients : kept[d] = entries[d] \/ kept[d] = None
      /\ \A d \in Clients : entries[d] # None /\ entries[d].blockedUntil > now[r]
                            => kept[d] = entries[d]
  BY <1>2, CleanupKeeps DEF ThrottleInv
<1> HIDE DEF kept
<1>4. /\ entries' \in [Clients -> Entries \union {None}]
      /\ entries'[c] = e
      /\ \A d \in Clients : d # c => entries'[d] = kept[d]
  BY <1>1, <1>2, <1>3
<1>5. e # None
  BY NoneAssumption
<1>6. /\ seen' = [seen EXCEPT ![c] = now[r]]
      /\ client' = [client EXCEPT ![r] = None] /\ now' = [now EXCEPT ![r] = 0]
  BY DEF Evaluated, Leave
<1>7. TypeOK'
  <2>1. nextCleanup' \in Nat
    <3>1. nextCleanup' = IF now[r] < nextCleanup THEN nextCleanup ELSE now[r] + CleanupInterval
      BY DEF Evaluated
    <3>2. QED
      BY <1>2, <3>1, ThrottleAssumption DEF ThrottleInv, TypeOK
  <2>2. client' \in [Requests -> Clients \union {None}] /\ now' \in [Requests -> 0..MaxTime]
    <3>1. 0 \in 0..MaxTime
      BY ThrottleAssumption
    <3>2. QED
      BY <1>6, <3>1 DEF ThrottleInv, TypeOK
  <2>3. seen' \in [Clients -> Nat] /\ back' \in [Clients -> Nat]
    BY CreditGrows
  <2>4. ASSUME NEW d \in Clients, entries'[d] # None
        PROVE  entries'[d].tokens <= MaxBurst
    <3>1. CASE d = c
      BY <1>4, <3>1
    <3>2. CASE d # c
      <4>1. entries'[d] = entries[d]
        BY <1>3, <1>4, <2>4, <3>2
      <4>2. QED
        BY <2>4, <4>1 DEF ThrottleInv, TypeOK
    <3>3. QED
      BY <3>1, <3>2
  <2>5. QED
    BY <1>1, <1>4, <2>1, <2>2, <2>3, <2>4 DEF ThrottleInv, TypeOK
<1>8. TimesPassed'
  <2>1. ASSUME NEW q \in Requests
        PROVE  now'[q] <= clock' /\ (client'[q] # None => now'[q] > 0)
    <3>1. CASE q = r
      <4>1. now'[q] = 0 /\ client'[q] = None
        BY <1>6, <3>1 DEF ThrottleInv, TypeOK
      <4>2. QED
        BY <1>1, <1>2, <4>1
    <3>2. CASE q # r
      <4>1. now'[q] = now[q] /\ client'[q] = client[q]
        BY <1>6, <3>2 DEF ThrottleInv, TypeOK
      <4>2. QED
        BY <1>1, <4>1 DEF ThrottleInv, TimesPassed
    <3>3. QED
      BY <3>1, <3>2
  <2>2. ASSUME NEW d \in Clients
        PROVE  seen'[d] <= clock'
    BY <1>1, <1>2, <1>6 DEF ThrottleInv, TypeOK, TimesPassed
  <2>3. QED
    BY <2>1, <2>2 DEF TimesPassed
<1>9. seen'[c] = now[r] /\ \A d \in Clients : d # c => seen'[d] = seen[d] /\ back'[d] = back[d]
  BY <1>2 DEF Evaluated, ThrottleInv, TypeOK
<1>10. EntryInv'
  <2>1. ASSUME NEW d \in Clients, entries'[d] # None
        PROVE  /\ entries'[d].lastSeen = seen'[d] /\ seen'[d] > 0
               /\ entries'[d].blockedUntil > 0 => entries'[d].tokens < Token
               /\ entries'[d].blockedUntil = 0 => entries'[d].tokens + since'[d] >= MinBurst
    <3>1. CASE d = c
      BY <1>2, <1>4, <1>9, <3>1
    <3>2. CASE d # c
      <4>1. entries'[d] = entries[d] /\ seen'[d] = seen[d] /\ since'[d] = since[d]
        BY <1>3, <1>4, <1>9, <2>1, <3>2
      <4>2. QED
        BY <2>1, <4>1 DEF ThrottleInv, EntryInv
    <3>3. QED
      BY <3>1, <3>2
  <2>2. QED
    BY <2>1 DEF EntryInv
<1>11. BlockInv'
  <2>1. ASSUME NEW d \in Clients, until'[d] > clock'
        PROVE  entries'[d] # None /\ entries'[d].blockedUntil = until'[d]
    <3>1. CASE d = c
      BY <1>1, <1>4, <1>5, <2>1, <3>1
    <3>2. CASE d # c
      <4>1. until[d] > clock /\ until'[d] = until[d]
        BY <1>1, <2>1, <3>2
      <4>2. entries[d] # None /\ entries[d].blockedUntil = until[d]
        BY <4>1 DEF ThrottleInv, BlockInv
      <4>3. until[d] > now[r]
        BY <1>2, <4>1 DEF ThrottleInv, TypeOK
      <4>4. QED
        BY <1>3, <1>4, <3>2, <4>1, <4>2, <4>3
    <3>3. QED
      BY <3>1, <3>2
  <2>2. QED
    BY <2>1 DEF BlockInv
<1>12. CreditInv'
  <2>1. ASSUME NEW d \in Clients
        PROVE  TokensOf(kept[d]) \in Nat /\ TokensOf(entries[d]) \in Nat
               /\ TokensOf(kept[d]) <= TokensOf(entries[d])
    <3>1. entries[d] \in Entries \union {None}
      BY DEF ThrottleInv, TypeOK
    <3>2. TokensOf(entries[d]) \in Nat
      BY <3>1 DEF TokensOf, Entries
    <3>3. kept[d] = entries[d] \/ TokensOf(kept[d]) = 0
      BY <1>3 DEF TokensOf
    <3>4. QED
      BY <3>2, <3>3
  <2>2. ASSUME NEW d \in Clients
        PROVE  granted'[d] + TokensOf(entries'[d])
                 <= filled'[d] + MaxRate * (seen'[d] + back'[d])
    <3>0. /\ granted[d] + TokensOf(entries[d]) <= filled[d] + MaxRate * (seen[d] + back[d])
          /\ granted[d] \in Nat /\ filled[d] \in Nat /\ seen[d] \in Nat /\ back[d] \in Nat
      BY DEF ThrottleInv, TypeOK, CreditInv
    <3>1. MaxRate * (seen[d] + back[d]) \in Nat
      BY <3>0, ThrottleAssumption
    <3>2. CASE d = c
      <4>1. MaxRate * (seen'[c] + back'[c])
              = MaxRate * (seen[c] + back[c]) + MaxRate * Gain(r)
        BY CreditGrows
      <4>2. MaxRate * Gain(r) \in Nat
        BY <1>1, BucketFound
      <4>3. TokensOf(entries'[c]) = e.tokens /\ e.tokens \in Nat
        BY <1>4, <1>5 DEF TokensOf, Entries
      <4>4. granted'[c] + e.tokens - filled'[c]
              <= granted[c] + TokensOf(kept[c]) - filled[c] + MaxRate * Gain(r)
        BY DEF kept
      <4>5. granted'[c] \in Nat /\ filled'[c] \in Nat
        BY <1>2
      <4> DEFINE x == MaxRate * (seen[c] + back[c])
                 y == MaxRate * Gain(r)
                 z == MaxRate * (seen'[c] + back'[c])
      <4>6. z = x + y /\ x \in Nat /\ y \in Nat
        BY <3>1, <3>2, <4>1, <4>2
      <4>7. granted[c] + TokensOf(entries[c]) <= filled[c] + x
            /\ granted[c] \in Nat /\ filled[c] \in Nat
        BY <3>0, <3>2
      <4>8. granted'[c] + e.tokens - filled'[c] <= granted[c] + TokensOf(kept[c]) - filled[c] + y
        BY <4>4
      <4>9. granted'[c] + e.tokens <= filled'[c] + z
        <5> HIDE DEF x, y, z, c
        <5>1. QED
          BY <1>2, <2>1, <4>3, <4>5, <4>6, <4>7, <4>8
      <4>10. QED
        BY <3>2, <4>3, <4>9
    <3>3. CASE d # c
      <4>1. entries'[d] = kept[d] /\ granted'[d] = granted[d] /\ filled'[d] = filled[d]
            /\ seen'[d] = seen[d] /\ back'[d] = back[d]
        BY <1>4, <1>9, <3>3
      <4> DEFINE x == MaxRate * (seen[d] + back[d])
      <4>2. granted[d] + TokensOf(kept[d]) <= filled[d] + x
        <5>1. granted[d] + TokensOf(entries[d]) <= filled[d] + x /\ x \in Nat
          BY <3>0, <3>1
        <5> HIDE DEF x
        <5>2. QED
          BY <2>1, <3>0, <5>1
      <4>3. QED
        BY <4>1, <4>2
    <3>4. QED
      BY <3>2, <3>3
  <2>3. QED
    BY <2>2 DEF CreditInv
<1>13. QED
  BY <1>7, <1>8, <1>10, <1>11, <1>12 DEF ThrottleInv

\* Refusing a blocked client keeps the invariant.
LEMMA RefuseBlockedStep ==
    ASSUME ThrottleInv, NEW r \in Requests, RefuseBlocked(r)
    PROVE  ThrottleInv'
<1> DEFINE c == client[r]
           f == Found(r)
           e == [f EXCEPT !.lastSeen = now[r]]
           kept == Cleanup(now[r], config)[c]
<1>1. c # None /\ config.enabled /\ f.blockedUntil > now[r] /\ Evaluated(r, e)
      /\ UNCHANGED <<granted, filled, since, until>>
  BY DEF RefuseBlocked, Evaluated, Blocked
<1>2. c \in Clients /\ now[r] \in Nat /\ now[r] > 0
  BY <1>1, Request
<1>3. f \in Entries /\ f.tokens <= MaxBurst
      /\ entries[c] # None /\ kept = entries[c] /\ f = entries[c]
  <2>1. f # [tokens |-> config.burst, lastSeen |-> 0, blockedUntil |-> 0]
    BY <1>1, <1>2
  <2>2. QED
    BY <1>1, <2>1, FoundEntry
<1>4. f.tokens < Token
  <2>1. f.blockedUntil \in Nat
    BY <1>3 DEF Entries
  <2>2. f.blockedUntil > 0
    BY <1>1, <1>2, <2>1
  <2>3. QED
    BY <1>2, <1>3, <2>2 DEF ThrottleInv, EntryInv
<1>5. e = [tokens |-> f.tokens, lastSeen |-> now[r], blockedUntil |-> f.blockedUntil]
  BY <1>3, EntryUpdates
<1>6. /\ e \in Entries /\ e.tokens = f.tokens /\ e.lastSeen = now[r]
      /\ e.blockedUntil = f.blockedUntil /\ f.tokens \in Nat /\ f.blockedUntil \in Nat
  BY <1>2, <1>3, <1>5 DEF Entries
<1>7. MaxRate * Gain(r) \in Nat
  BY <1>1, BucketFound
<1>8. TokensOf(kept) = f.tokens
  BY <1>3 DEF TokensOf
<1>9. granted[c] \in Nat /\ filled[c] \in Nat
  BY <1>2 DEF ThrottleInv, TypeOK
<1>10. granted'[c] + e.tokens - filled'[c]
         <= granted[c] + TokensOf(kept) - filled[c] + MaxRate * Gain(r)
  <2> DEFINE y == MaxRate * Gain(r)
  <2>1. granted'[c] = granted[c] /\ filled'[c] = filled[c] /\ y \in Nat
    BY <1>1, <1>7
  <2> HIDE DEF y, e, kept
  <2>2. granted[c] + f.tokens - filled[c] <= granted[c] + f.tokens - filled[c] + y
    BY <1>6, <1>9, <2>1
  <2>3. QED
    BY <1>6, <1>8, <2>1, <2>2 DEF y
<1>11. until'[c] > clock => e.blockedUntil = until'[c]
  BY <1>1, <1>2, <1>3, <1>6 DEF ThrottleInv, BlockInv
<1>12. ~(e.blockedUntil = 0)
  BY <1>1, <1>2, <1>6
<1>13. granted' \in [Clients -> Nat] /\ filled' \in [Clients -> Nat]
       /\ since' \in [Clients -> Nat] /\ until' \in [Clients -> Nat]
  BY <1>1 DEF ThrottleInv, TypeOK
<1> HIDE DEF e
<1>14. QED
  BY <1>1, <1>3, <1>4, <1>6, <1>10, <1>11, <1>12, <1>13, EvaluatedStep

\* A bucket, before its tokens are taken, is paid for.
LEMMA BucketPaidFor ==
    ASSUME ThrottleInv, NEW r \in Requests, client[r] # None, config.enabled
    PROVE  /\ FilledUp(r) \in Nat /\ MaxRate * Gain(r) \in Nat
           /\ TokensOf(Cleanup(now[r], config)[client[r]]) \in Int
           /\ Bucket(r).tokens \in Nat
           /\ Bucket(r).tokens <= TokensOf(Cleanup(now[r], config)[client[r]])
                                  + FilledUp(r) + MaxRate * Gain(r)
<1> DEFINE o == Opened(Found(r)).tokens
           k == TokensOf(Cleanup(now[r], config)[client[r]])
           b == Bucket(r).tokens
           y == MaxRate * Gain(r)
<1>1. o = k + FilledUp(r) /\ FilledUp(r) \in Nat
  BY OpenedEntry
<1>2. b <= o + y /\ y \in Nat /\ b \in Nat
  BY BucketFound DEF Entries
<1>3. k \in Int
  <2>1. client[r] \in Clients /\ now[r] \in Nat
    BY Request
  <2>2. Cleanup(now[r], config)[client[r]] \in Entries \union {None}
    BY <2>1, CleanupKeeps DEF ThrottleInv
  <2>3. QED
    BY <2>2 DEF TokensOf, Entries
<1> HIDE DEF o, k, b, y
<1>4. b <= k + FilledUp(r) + y
  BY <1>1, <1>2, <1>3
<1>5. QED
  BY <1>1, <1>2, <1>3, <1>4 DEF k, b, y

\* Blocking a client keeps the invariant.
LEMMA BlockStep ==
    ASSUME ThrottleInv, NEW r \in Requests, Block(r)
    PROVE  ThrottleInv'
<1> DEFINE c == client[r]
           b == Bucket(r)
           end == now[r] + config.block
           e == [b EXCEPT !.blockedUntil = end]
           k == TokensOf(Cleanup(now[r], config)[c])
           y == MaxRate * Gain(r)
<1>1. /\ c # None /\ config.enabled /\ b.tokens < Token
      /\ Evaluated(r, e)
      /\ filled' = [filled EXCEPT ![c] = @ + FilledUp(r)]
      /\ since' = [since EXCEPT ![c] = 0]
      /\ until' = [until EXCEPT ![c] = end]
      /\ granted' = granted
  BY DEF Block, Evaluated
<1>2. c \in Clients /\ now[r] \in Nat /\ now[r] > 0
  BY <1>1, Request
<1>3. end \in Nat /\ end > 0
  BY <1>1, <1>2, ConfigLimits DEF ThrottleInv
<1>4. b \in Entries /\ b.tokens <= MaxBurst /\ b.lastSeen = now[r]
  BY <1>1, BucketFound
<1>5. e = [tokens |-> b.tokens, lastSeen |-> b.lastSeen, blockedUntil |-> end]
  <2> HIDE DEF end, b
  <2>1. QED
    BY <1>4, EntryUpdates
<1>6. e \in Entries /\ e.tokens = b.tokens /\ e.lastSeen = now[r] /\ e.blockedUntil = end
  <2> HIDE DEF end, b
  <2>1. QED
    BY <1>3, <1>4, <1>5 DEF Entries
<1>7. FilledUp(r) \in Nat /\ y \in Nat /\ k \in Int /\ b.tokens \in Nat
      /\ b.tokens <= k + FilledUp(r) + y
  BY <1>1, BucketPaidFor
<1>8. granted[c] \in Nat /\ filled[c] \in Nat
  BY <1>2 DEF ThrottleInv, TypeOK
<1>9. granted'[c] + e.tokens - filled'[c] <= granted[c] + k - filled[c] + y
  <2>1. granted'[c] = granted[c] /\ filled'[c] = filled[c] + FilledUp(r)
    BY <1>1, <1>2 DEF ThrottleInv, TypeOK
  <2> HIDE DEF k, y, e, b, c
  <2>2. QED
    BY <1>6, <1>7, <1>8, <2>1
<1>10. granted' \in [Clients -> Nat] /\ filled' \in [Clients -> Nat]
       /\ since' \in [Clients -> Nat] /\ until' \in [Clients -> Nat]
  <2>1. filled[c] + FilledUp(r) \in Nat
    BY <1>7, <1>8
  <2> HIDE DEF end
  <2>2. QED
    BY <1>1, <1>3, <2>1 DEF ThrottleInv, TypeOK
<1>11. until'[c] = end /\ \A d \in Clients : d # c =>
           granted'[d] = granted[d] /\ filled'[d] = filled[d]
           /\ since'[d] = since[d] /\ until'[d] = until[d]
  <2> HIDE DEF end
  <2>1. QED
    BY <1>1, <1>2 DEF ThrottleInv, TypeOK
<1>12. ~(e.blockedUntil = 0)
  BY <1>3, <1>6
<1> HIDE DEF e, b, end
<1>13. QED
  BY <1>1, <1>4, <1>6, <1>9, <1>10, <1>11, <1>12, EvaluatedStep

\* A request is let through only when its client's block is over.
LEMMA GrantUnblocked ==
    ASSUME ThrottleInv, NEW r \in Requests, Grant(r)
    PROVE  client[r] \in Clients /\ clock >= until[client[r]]
<1> DEFINE c == client[r]
<1>1. c # None /\ config.enabled /\ ~(Found(r).blockedUntil > now[r])
  BY DEF Grant, Evaluated, Blocked
<1>2. c \in Clients /\ now[r] \in Nat /\ clock \in Nat /\ now[r] <= clock /\ until[c] \in Nat
  BY <1>1, Request DEF ThrottleInv, TypeOK
<1>3. ASSUME until[c] > clock
      PROVE  FALSE
  <2>1. entries[c] # None /\ entries[c].blockedUntil = until[c]
    BY <1>2, <1>3 DEF ThrottleInv, BlockInv
  <2>2. entries[c].blockedUntil > now[r]
    BY <1>2, <1>3, <2>1
  <2>3. Cleanup(now[r], config)[c] = entries[c]
    BY <1>2, <2>1, <2>2, CleanupKeeps DEF ThrottleInv
  <2>4. Found(r) = entries[c]
    BY <2>1, <2>3 DEF Found
  <2>5. QED
    BY <1>1, <2>2, <2>4
<1>4. QED
  BY <1>2, <1>3

\* Letting a request through keeps the invariant.
LEMMA GrantStep ==
    ASSUME ThrottleInv, NEW r \in Requests, Grant(r)
    PROVE  ThrottleInv'
<1> DEFINE c == client[r]
           b == Bucket(r)
           left == b.tokens - Token
           e == [b EXCEPT !.tokens = left]
           k == TokensOf(Cleanup(now[r], config)[c])
           y == MaxRate * Gain(r)
<1>1. /\ c # None /\ config.enabled /\ b.tokens >= Token
      /\ Evaluated(r, e)
      /\ filled' = [filled EXCEPT ![c] = @ + FilledUp(r)]
      /\ granted' = [granted EXCEPT ![c] = @ + Token]
      /\ since' = [since EXCEPT ![c] = @ + Token]
      /\ until' = until
  BY DEF Grant, Evaluated
<1>2. c \in Clients /\ now[r] \in Nat /\ clock \in Nat /\ clock >= until[c]
  BY <1>1, Request, GrantUnblocked
<1>3. Token \in Nat /\ MinBurst \in Nat /\ MaxBurst \in Nat
  BY ThrottleAssumption
<1>4. b \in Entries /\ b.tokens <= MaxBurst /\ b.lastSeen = now[r] /\ b.blockedUntil = 0
      /\ b.tokens + since[c] >= MinBurst
  BY <1>1, BucketFound
<1>5. FilledUp(r) \in Nat /\ y \in Nat /\ k \in Int /\ b.tokens \in Nat
      /\ b.tokens <= k + FilledUp(r) + y
  BY <1>1, BucketPaidFor
<1>6. left \in Nat /\ left <= MaxBurst
  BY <1>1, <1>3, <1>4, <1>5
<1>7. e = [tokens |-> left, lastSeen |-> now[r], blockedUntil |-> 0]
  <2> HIDE DEF left, b
  <2>1. QED
    BY <1>4, EntryUpdates
<1>8. e \in Entries /\ e.tokens = left /\ e.lastSeen = now[r] /\ e.blockedUntil = 0
  <2> HIDE DEF left, e
  <2>1. QED
    BY <1>2, <1>6, <1>7 DEF Entries
<1>9. granted[c] \in Nat /\ filled[c] \in Nat /\ since[c] \in Nat /\ until[c] \in Nat
  BY <1>2 DEF ThrottleInv, TypeOK
<1>10. /\ granted'[c] = granted[c] + Token /\ filled'[c] = filled[c] + FilledUp(r)
       /\ since'[c] = since[c] + Token
       /\ \A d \in Clients : d # c =>
             granted'[d] = granted[d] /\ filled'[d] = filled[d]
             /\ since'[d] = since[d] /\ until'[d] = until[d]
  BY <1>1, <1>2 DEF ThrottleInv, TypeOK
<1>11. granted' \in [Clients -> Nat] /\ filled' \in [Clients -> Nat]
       /\ since' \in [Clients -> Nat] /\ until' \in [Clients -> Nat]
  <2>1. filled[c] + FilledUp(r) \in Nat /\ granted[c] + Token \in Nat /\ since[c] + Token \in Nat
    BY <1>3, <1>5, <1>9
  <2>2. QED
    BY <1>1, <2>1 DEF ThrottleInv, TypeOK
<1>12. granted'[c] + e.tokens - filled'[c] <= granted[c] + k - filled[c] + y
  <2>1. e.tokens = b.tokens - Token
    BY <1>8
  <2> HIDE DEF k, y, e, b, c
  <2>2. QED
    BY <1>3, <1>5, <1>9, <1>10, <2>1
<1>13. e.tokens + since'[c] >= MinBurst
  <2>1. e.tokens = b.tokens - Token
    BY <1>8
  <2> HIDE DEF e, b, c
  <2>2. QED
    BY <1>3, <1>4, <1>5, <1>9, <1>10, <2>1
<1>14. ~(until'[c] > clock) /\ ~(e.blockedUntil > 0)
  <2> HIDE DEF e
  <2>1. QED
    BY <1>1, <1>2, <1>8, <1>9
<1>15. e.tokens <= MaxBurst
  BY <1>6, <1>8
<1> HIDE DEF e, b, left
<1>16. QED
  BY <1>1, <1>8, <1>10, <1>11, <1>12, <1>13, <1>14, <1>15, EvaluatedStep

\* The invariant holds at the start.
LEMMA InitInv ==
    ASSUME Init
    PROVE  ThrottleInv
<1>1. /\ clock = 1 /\ entries = Nowhere /\ nextCleanup = 0 /\ updates = 0
      /\ client = [r \in Requests |-> None] /\ now = [r \in Requests |-> 0]
      /\ granted = Zero /\ filled = Zero /\ seen = Zero /\ back = Zero
      /\ since = Zero /\ until = Zero
      /\ config \in {Normalize(cfg) : cfg \in Configs}
  BY DEF Init
<1>2. Zero \in [Clients -> Nat] /\ \A c \in Clients : Zero[c] = 0
  BY DEF Zero
<1>3. Nowhere \in [Clients -> Entries \union {None}] /\ \A c \in Clients : Nowhere[c] = None
  BY DEF Nowhere
<1>4. MaxTime \in Nat /\ MaxTime > 0 /\ MaxUpdates \in Nat /\ MaxRate \in Nat
  BY ThrottleAssumption
<1>5. TypeOK
  <2>1. clock \in 1..MaxTime /\ updates \in 0..MaxUpdates /\ 0 \in 0..MaxTime
    BY <1>1, <1>4
  <2>2. QED
    BY <1>1, <1>2, <1>3, <2>1 DEF TypeOK
<1>6. TimesPassed
  BY <1>1, <1>2 DEF TimesPassed
<1>7. EntryInv
  BY <1>1, <1>3 DEF EntryInv
<1>8. BlockInv
  BY <1>1, <1>2 DEF BlockInv
<1>9. CreditInv
  <2>1. ASSUME NEW c \in Clients
        PROVE  granted[c] = 0 /\ TokensOf(entries[c]) = 0 /\ filled[c] = 0
               /\ seen[c] + back[c] = 0
    BY <1>1, <1>2, <1>3 DEF TokensOf
  <2>2. MaxRate * 0 = 0
    BY <1>4
  <2>3. QED
    BY <2>1, <2>2 DEF CreditInv
<1>10. QED
  BY <1>5, <1>6, <1>7, <1>8, <1>9 DEF ThrottleInv

\* Every step of a request keeps the invariant.
LEMMA RequestStep ==
    ASSUME ThrottleInv, NEW r \in Requests, Capture(r) \/ Bypass(r)
    PROVE  ThrottleInv'
<1>1. /\ UNCHANGED <<clock, config, entries, nextCleanup, updates, history>>
      /\ \/ \E c \in Clients : client' = [client EXCEPT ![r] = c] /\ now' = [now EXCEPT ![r] = clock]
         \/ client' = [client EXCEPT ![r] = None] /\ now' = [now EXCEPT ![r] = 0]
  BY DEF Capture, Bypass, Leave
<1>2. clock \in 1..MaxTime /\ MaxTime \in Nat
  BY ThrottleAssumption DEF ThrottleInv, TypeOK
<1>3. clock \in 0..MaxTime /\ 0 \in 0..MaxTime /\ clock \in Nat /\ clock > 0
  BY <1>2
<1>4. TypeOK'
  BY <1>1, <1>3 DEF ThrottleInv, TypeOK, history
<1>5. TimesPassed'
  <2>1. ASSUME NEW q \in Requests
        PROVE  now'[q] <= clock' /\ (client'[q] # None => now'[q] > 0)
    <3>1. clock' = clock
      BY <1>1
    <3>2. CASE q # r
      <4>1. now'[q] = now[q] /\ client'[q] = client[q]
        BY <1>1, <3>2 DEF ThrottleInv, TypeOK
      <4>2. QED
        BY <3>1, <4>1 DEF ThrottleInv, TimesPassed
    <3>3. CASE q = r
      <4>1. CASE client' = [client EXCEPT ![r] = None] /\ now' = [now EXCEPT ![r] = 0]
        <5>1. now'[q] = 0 /\ client'[q] = None
          BY <3>3, <4>1 DEF ThrottleInv, TypeOK
        <5>2. QED
          BY <1>3, <3>1, <5>1
      <4>2. CASE now' = [now EXCEPT ![r] = clock]
        <5>1. now'[q] = clock
          BY <3>3, <4>2 DEF ThrottleInv, TypeOK
        <5>2. QED
          BY <1>3, <3>1, <5>1
      <4>3. QED
        BY <1>1, <4>1, <4>2
    <3>4. QED
      BY <3>2, <3>3
  <2>2. QED
    BY <1>1, <2>1 DEF ThrottleInv, TimesPassed, history
<1>6. EntryInv' /\ BlockInv' /\ CreditInv'
  BY <1>1 DEF ThrottleInv, EntryInv, BlockInv, CreditInv, TokensOf, history
<1>7. QED
  BY <1>4, <1>5, <1>6 DEF ThrottleInv

\* Another configuration keeps the invariant.
LEMMA UpdateConfigStep ==
    ASSUME ThrottleInv, UpdateConfig
    PROVE  ThrottleInv'
<1>1. PICK cfg \in Configs :
        /\ updates < MaxUpdates /\ updates' = updates + 1
        /\ config' = Normalize(cfg)
        /\ entries' = IF cfg.enabled THEN entries ELSE Nowhere
        /\ nextCleanup' = IF cfg.enabled THEN nextCleanup ELSE 0
        /\ until' = IF cfg.enabled THEN until ELSE Zero
        /\ UNCHANGED <<clock, client, now, granted, filled, seen, back, since>>
  BY DEF UpdateConfig
<1>2. Zero \in [Clients -> Nat] /\ \A c \in Clients : Zero[c] = 0
  BY DEF Zero
<1>3. Nowhere \in [Clients -> Entries \union {None}] /\ \A c \in Clients : Nowhere[c] = None
  BY DEF Nowhere
<1>4. updates' \in 0..MaxUpdates
  BY <1>1, ThrottleAssumption DEF ThrottleInv, TypeOK
<1>5. TypeOK' /\ TimesPassed'
  <2>1. TypeOK'
    BY <1>1, <1>2, <1>3, <1>4 DEF ThrottleInv, TypeOK
  <2>2. QED
    BY <1>1, <2>1 DEF ThrottleInv, TimesPassed
<1>6. EntryInv'
  BY <1>1, <1>3 DEF ThrottleInv, EntryInv
<1>7. BlockInv'
  <2>1. CASE cfg.enabled
    BY <1>1, <2>1 DEF ThrottleInv, BlockInv
  <2>2. CASE ~cfg.enabled
    <3>1. \A c \in Clients : ~(until'[c] > clock')
      BY <1>1, <1>2, <2>2 DEF ThrottleInv, TypeOK
    <3>2. QED
      BY <3>1 DEF BlockInv
  <2>3. QED
    BY <2>1, <2>2
<1>8. CreditInv'
  <2>1. ASSUME NEW c \in Clients
        PROVE  granted'[c] + TokensOf(entries'[c]) <= filled'[c] + MaxRate * (seen'[c] + back'[c])
    <3>1. granted[c] + TokensOf(entries[c]) <= filled[c] + MaxRate * (seen[c] + back[c])
          /\ granted[c] \in Nat /\ filled[c] \in Nat /\ MaxRate * (seen[c] + back[c]) \in Nat
      BY ThrottleAssumption DEF ThrottleInv, CreditInv, TypeOK
    <3>2. TokensOf(entries'[c]) \in {TokensOf(entries[c]), 0} /\ TokensOf(entries[c]) \in Nat
      BY <1>1, <1>3 DEF ThrottleInv, TypeOK, TokensOf, Entries
    <3>3. granted'[c] = granted[c] /\ filled'[c] = filled[c]
          /\ MaxRate * (seen'[c] + back'[c]) = MaxRate * (seen[c] + back[c])
      BY <1>1
    <3>4. QED
      BY <3>1, <3>2, <3>3
  <2>2. QED
    BY <2>1 DEF CreditInv
<1>9. QED
  BY <1>5, <1>6, <1>7, <1>8 DEF ThrottleInv

\* Time that passes keeps the invariant.
LEMMA TickStep ==
    ASSUME ThrottleInv, Tick
    PROVE  ThrottleInv'
<1>1. /\ clock < MaxTime /\ clock' = clock + 1
      /\ UNCHANGED <<config, entries, nextCleanup, client, now, updates, history>>
  BY DEF Tick
<1>2. clock \in Nat /\ clock' \in 1..MaxTime /\ clock' \in Nat
  BY <1>1, ThrottleAssumption DEF ThrottleInv, TypeOK
<1>3. TypeOK'
  BY <1>1, <1>2 DEF ThrottleInv, TypeOK, history
<1>4. TimesPassed'
  <2>1. \A r \in Requests : now[r] \in Int
    BY DEF ThrottleInv, TypeOK
  <2>2. \A c \in Clients : seen[c] \in Nat
    BY DEF ThrottleInv, TypeOK
  <2>3. QED
    BY <1>1, <1>2, <2>1, <2>2 DEF ThrottleInv, TimesPassed, history
<1>5. BlockInv'
  <2>1. ASSUME NEW c \in Clients, until'[c] > clock'
        PROVE  until[c] > clock
    BY <1>1, <1>2, <2>1 DEF ThrottleInv, TypeOK, history
  <2>2. QED
    BY <1>1, <2>1 DEF ThrottleInv, BlockInv, history
<1>6. EntryInv' /\ CreditInv'
  BY <1>1 DEF ThrottleInv, EntryInv, CreditInv, TokensOf, history
<1>7. QED
  BY <1>3, <1>4, <1>5, <1>6 DEF ThrottleInv

\* Every step keeps the invariant.
LEMMA NextInv ==
    ASSUME ThrottleInv, [Next]_vars
    PROVE  ThrottleInv'
<1>1. ASSUME NEW r \in Requests, Capture(r) \/ Bypass(r)
      PROVE  ThrottleInv'
  BY <1>1, RequestStep
<1>2. ASSUME NEW r \in Requests, RefuseBlocked(r)
      PROVE  ThrottleInv'
  BY <1>2, RefuseBlockedStep
<1>3. ASSUME NEW r \in Requests, Block(r)
      PROVE  ThrottleInv'
  BY <1>3, BlockStep
<1>4. ASSUME NEW r \in Requests, Grant(r)
      PROVE  ThrottleInv'
  BY <1>4, GrantStep
<1>5. CASE UpdateConfig
  BY <1>5, UpdateConfigStep
<1>6. CASE Tick
  BY <1>6, TickStep
<1>7. CASE UNCHANGED vars
  BY <1>7 DEF vars, ThrottleInv, TypeOK, TimesPassed, EntryInv, BlockInv, CreditInv, TokensOf
<1>8. QED
  BY <1>1, <1>2, <1>3, <1>4, <1>5, <1>6, <1>7 DEF Next

-----------------------------------------------------------------------------
(* Theorems *)

\* No bucket ever holds more than the largest burst, whatever configurations
\* follow one another.
THEOREM BucketsBounded == Spec => []TypeOK
<1>1. ThrottleInv => TypeOK
  BY DEF ThrottleInv
<1>2. QED
  BY <1>1, InitInv, NextInv, PTL DEF Spec

\* What a client is given is paid for, by what its bucket was filled with and
\* by time (evaluate).
THEOREM GrantsPaidFor == Spec => []GrantsBounded
<1>1. ThrottleInv => GrantsBounded
  <2> SUFFICES ASSUME ThrottleInv, NEW c \in Clients
               PROVE  granted[c] <= filled[c] + MaxRate * (clock + back[c])
    BY DEF GrantsBounded
  <2>1. /\ granted[c] \in Nat /\ filled[c] \in Nat /\ seen[c] \in Nat /\ back[c] \in Nat
        /\ clock \in Nat /\ seen[c] <= clock /\ MaxRate \in Nat
    BY ThrottleAssumption DEF ThrottleInv, TypeOK, TimesPassed
  <2>2. TokensOf(entries[c]) \in Nat
    BY DEF ThrottleInv, TypeOK, TokensOf, Entries
  <2>3. seen[c] + back[c] \in Nat /\ clock + back[c] \in Nat
        /\ seen[c] + back[c] <= clock + back[c]
    BY <2>1
  <2>4. MaxRate * (seen[c] + back[c]) <= MaxRate * (clock + back[c])
    BY <2>1, <2>3, MoreTimeMoreCredit
  <2>5. MaxRate * (seen[c] + back[c]) \in Nat /\ MaxRate * (clock + back[c]) \in Nat
    BY <2>1, <2>3
  <2>6. granted[c] + TokensOf(entries[c]) <= filled[c] + MaxRate * (seen[c] + back[c])
    BY DEF ThrottleInv, CreditInv
  <2>7. QED
    BY <2>1, <2>2, <2>4, <2>5, <2>6
<1>2. QED
  BY <1>1, InitInv, NextInv, PTL DEF Spec

\* A blocked client is given nothing before its block is over, whatever is
\* delayed, cleaned up or configured meanwhile (evaluate, cleanupLocked).
THEOREM BlocksHold == Spec => BlockHolds
<1>1. ThrottleInv /\ [Next]_vars =>
        [\A c \in Clients : granted'[c] > granted[c] => clock >= until[c]]_vars
  <2> SUFFICES ASSUME ThrottleInv, Next, NEW c \in Clients, granted'[c] > granted[c]
               PROVE  clock >= until[c]
    OBVIOUS
  <2>1. granted[c] \in Nat
    BY DEF ThrottleInv, TypeOK
  <2>2. granted' # granted
    BY <2>1
  <2>3. PICK r \in Requests : Grant(r)
    BY <2>2 DEF Next, Capture, Bypass, RefuseBlocked, Block, UpdateConfig, Tick, history
  <2>4. granted' = [granted EXCEPT ![client[r]] = @ + Token]
    BY <2>3 DEF Grant
  <2>5. client[r] = c
    BY <2>1, <2>4 DEF ThrottleInv, TypeOK
  <2>6. QED
    BY <2>3, <2>5, GrantUnblocked
<1>2. QED
  BY <1>1, InitInv, NextInv, PTL DEF Spec, BlockHolds

\* Between two blocks of a client lies a burst: a block ends (evaluate).
THEOREM BlocksAreEarned == Spec => BurstBeforeBlock
<1>1. ThrottleInv /\ [Next]_vars =>
        [\A c \in Clients : until'[c] > until[c] => since[c] + Token > MinBurst]_vars
  <2> SUFFICES ASSUME ThrottleInv, Next, NEW c \in Clients, until'[c] > until[c]
               PROVE  since[c] + Token > MinBurst
    OBVIOUS
  <2>1. until[c] \in Nat /\ since[c] \in Nat /\ Token \in Nat /\ MinBurst \in Nat
    BY ThrottleAssumption DEF ThrottleInv, TypeOK
  <2>2. until'[c] # until[c] /\ until'[c] # 0
    BY <2>1
  <2>3. until' # until /\ until' # Zero
    BY <2>2 DEF Zero
  <2>4. PICK r \in Requests : Block(r)
    BY <2>3 DEF Next, Capture, Bypass, RefuseBlocked, Grant, UpdateConfig, Tick, history
  <2>5. /\ client[r] # None /\ config.enabled /\ Bucket(r).tokens < Token
        /\ until' = [until EXCEPT ![client[r]] = now[r] + config.block]
    BY <2>4 DEF Block, Evaluated
  <2>6. client[r] = c
    BY <2>2, <2>5 DEF ThrottleInv, TypeOK
  <2>7. Bucket(r).tokens + since[c] >= MinBurst /\ Bucket(r).tokens \in Nat
    BY <2>5, <2>6, BucketFound DEF Entries
  <2>8. QED
    BY <2>1, <2>5, <2>7
<1>2. QED
  BY <1>1, InitInv, NextInv, PTL DEF Spec, BurstBeforeBlock

=============================================================================
