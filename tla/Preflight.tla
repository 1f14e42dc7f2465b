------------------------------ MODULE Preflight ------------------------------
(***************************************************************************)
(* The preflight check of every request (runPreflight and performPreflight  *)
(* of pkg/proxy/handler.go) with its cache (preflightStateCache of          *)
(* auth_cache.go).                                                          *)
(*                                                                          *)
(* A request looks its key up, gives up the check if one failed a short     *)
(* while ago, and otherwise asks the auth service, alone for its key: the   *)
(* leader of a flight looks again, asks, stores the answer and hands it to  *)
(* everybody who waited.  The check fails open: when the service cannot be  *)
(* asked, requests pass unchecked.                                          *)
(*                                                                          *)
(* As in AuthCache only the exchanges and the scheduling of requests that   *)
(* have not asked yet take time, and the client's timeout bounds the        *)
(* exchanges.  The index of the keys of an identity is the one of AuthCache *)
(* and is not repeated here.                                                *)
(***************************************************************************)
EXTENDS Integers, FiniteSets

CONSTANTS
    Requests,     \* request goroutines
    Keys,         \* cache keys, each of one identity
    Profiles,     \* the requests clients make: their key, or None where none
                  \* can be built, whether it is an FN app, and whether it says
                  \* it is the check itself
    Answers,      \* what the service says: "pass", "deny", "redirect", "reason"
    Configs,      \* auth configurations an administrator sets: the two TTLs,
                  \* and whether there is an auth port
    MaxTTL,       \* the longest TTL of a configuration
    Timeout,      \* preflightTimeout
    Cooldown,     \* preflightFailureCooldown
    Budgets,      \* bounds: how many ticks, requests, changes of the service's
                  \* mind, and logouts and new configurations there are,
                  \* and which requests
    None

AnswerType == [says : Answers, said : Nat, expires : Nat, by : Requests]

ASSUME PreflightAssumption ==
    /\ MaxTTL \in Nat /\ Timeout \in Nat \ {0} /\ Cooldown \in Nat \ {0}
    /\ Budgets \subseteq [time : Nat, requests : Nat, changes : Nat, clears : Nat,
                          profiles : SUBSET Profiles]
    /\ Configs \subseteq [pass : 0..MaxTTL, fail : 0..MaxTTL, port : BOOLEAN]
    /\ Answers \subseteq {"pass", "deny", "redirect", "reason"}
    /\ None \notin Keys \union Requests \union AnswerType
    /\ Profiles # {}
    /\ Profiles \subseteq [key : Keys \union {None}, app : BOOLEAN, internal : BOOLEAN]

VARIABLES
    clock,
    policy,       \* what the service says of a key (and of requests without)
    changed,      \* when that changed last
    failedAt,     \* when an exchange failed last
    config, admin,
    entries,      \* preflightCache.entries
    skipUntil,    \* preflightSkipUntilUnixNano
    leader,       \* the leader of a key's flight
    pc, profile, began, ttl, asked, answer, outcome,
    left          \* what is left of the budget

service == <<policy, changed>>
request == <<profile, began, ttl>>
vars == <<clock, service, failedAt, config, admin, entries, skipUntil, leader, pc, request, asked,
          answer, outcome, left>>

Spend(what) == left[what] > 0 /\ left' = [left EXCEPT ![what] = @ - 1]

Subjects == Keys \union {None}

\* A mutant: the configuration is taken as it comes.
AsItComes(cfg) == cfg

\* applyDefaults and SetAuthConfig: there is always an auth port.
WithAuthPort(cfg) == [cfg EXCEPT !.port = TRUE]
Published == {WithAuthPort(cfg) : cfg \in Configs}

\* preflightCacheTTL: the shorter of the two TTLs that are set.
PreflightCacheTTL(cfg) ==
    IF cfg.pass > 0 /\ cfg.fail > 0
    THEN IF cfg.pass < cfg.fail THEN cfg.pass ELSE cfg.fail
    ELSE IF cfg.pass > 0 THEN cfg.pass ELSE cfg.fail

Refusals == {"deny", "redirect"}

\* An FN app must not be refused by the cache; a refusal that gives a reason is
\* not meant.
BypassNegative(r, a) == profile[r].app /\ a.says \in Refusals

Fresh(k, now) == entries[k] # None /\ entries[k].expires > now

Key(r) == profile[r].key
Goto(r, label) == pc' = [pc EXCEPT ![r] = label]

-----------------------------------------------------------------------------
(* runPreflight                                                             *)

\* A request that carries the header of the check itself passes, whoever sent
\* it, and every request where there is no auth port.
Exempt(p, cfg) == p.internal \/ ~cfg.port

Begin(r, p) ==
    /\ pc[r] \in {"idle", "done"} /\ Spend("requests")
    /\ profile' = [profile EXCEPT ![r] = p]
    /\ began' = [began EXCEPT ![r] = clock]
    /\ ttl' = [ttl EXCEPT ![r] = PreflightCacheTTL(config)]
    /\ outcome' = [outcome EXCEPT ![r] = IF Exempt(p, config) THEN "unchecked" ELSE "none"]
    /\ Goto(r, IF Exempt(p, config) THEN "done"
               ELSE IF p.key = None \/ PreflightCacheTTL(config) = 0 THEN "cooldown" ELSE "lookup")
    /\ UNCHANGED <<clock, service, failedAt, config, admin, entries, skipUntil, leader, asked,
                   answer>>

\* A mutant: an entry is good for its last tick as well.
HitAtExpiry(r) ==
    /\ pc[r] = "lookup" /\ entries[Key(r)] # None /\ entries[Key(r)].expires >= began[r]
    /\ ~BypassNegative(r, entries[Key(r)])
    /\ outcome' = [outcome EXCEPT ![r] = entries[Key(r)].says]
    /\ Goto(r, "done")
    /\ UNCHANGED <<clock, service, failedAt, config, admin, entries, skipUntil, leader, request, asked,
                   answer, left>>

\* A mutant: an FN app takes a refusal it finds.
HitTakes(r) ==
    /\ pc[r] = "lookup" /\ Fresh(Key(r), began[r])
    /\ outcome' = [outcome EXCEPT ![r] = entries[Key(r)].says]
    /\ Goto(r, "done")
    /\ UNCHANGED <<clock, service, failedAt, config, admin, entries, skipUntil, leader, request, asked,
                   answer, left>>

\* The look-up goes by the time that was taken before it.
Hit(r) ==
    /\ pc[r] = "lookup" /\ Fresh(Key(r), began[r]) /\ ~BypassNegative(r, entries[Key(r)])
    /\ outcome' = [outcome EXCEPT ![r] = entries[Key(r)].says]
    /\ Goto(r, "done")
    /\ UNCHANGED <<clock, service, failedAt, config, admin, entries, skipUntil, leader, request, asked,
                   answer, left>>

\* An entry that expired, or that this request must not see, goes in a critical
\* section of its own.
Miss(r) ==
    /\ pc[r] = "lookup"
    /\ Fresh(Key(r), began[r]) => BypassNegative(r, entries[Key(r)])
    /\ Goto(r, IF entries[Key(r)] = None THEN "cooldown" ELSE "drop")
    /\ UNCHANGED <<clock, service, failedAt, config, admin, entries, skipUntil, leader, request, asked,
                   answer, outcome, left>>

\* deleteEntryLocked, at either look-up: whatever is there by then.
DropEntry(r) ==
    /\ pc[r] \in {"drop", "redrop"}
    /\ entries' = [entries EXCEPT ![Key(r)] = None]
    /\ Goto(r, IF pc[r] = "drop" THEN "cooldown" ELSE "ask")
    /\ UNCHANGED <<clock, service, failedAt, config, admin, skipUntil, leader, request, asked, answer,
                   outcome, left>>

Skip(r) ==
    /\ pc[r] = "cooldown" /\ skipUntil > began[r]
    /\ outcome' = [outcome EXCEPT ![r] = "unchecked"]
    /\ Goto(r, "done")
    /\ UNCHANGED <<clock, service, failedAt, config, admin, entries, skipUntil, leader, request, asked,
                   answer, left>>

\* group.Do for a request that may use the cache; another one asks by itself.
Join(r) ==
    /\ pc[r] = "cooldown" /\ skipUntil <= began[r]
    /\ IF Key(r) = None \/ ttl[r] = 0
       THEN Goto(r, "ask") /\ UNCHANGED leader
       ELSE IF leader[Key(r)] = None
            THEN Goto(r, "recheck") /\ leader' = [leader EXCEPT ![Key(r)] = r]
            ELSE Goto(r, "wait") /\ UNCHANGED leader
    /\ UNCHANGED <<clock, service, failedAt, config, admin, entries, skipUntil, request, asked, answer,
                   outcome, left>>

\* A mutant: the leader takes what it finds.
RecheckTakes(r) ==
    /\ pc[r] = "recheck"
    /\ IF Fresh(Key(r), clock)
       THEN answer' = [answer EXCEPT ![r] = entries[Key(r)]] /\ Goto(r, "finish")
       ELSE Goto(r, IF entries[Key(r)] = None THEN "ask" ELSE "redrop") /\ UNCHANGED answer
    /\ UNCHANGED <<clock, service, failedAt, config, admin, entries, skipUntil, leader, request, asked,
                   outcome, left>>

\* The leader looks again, by the time it is now.
Recheck(r) ==
    /\ pc[r] = "recheck"
    /\ IF Fresh(Key(r), clock) /\ ~BypassNegative(r, entries[Key(r)])
       THEN answer' = [answer EXCEPT ![r] = entries[Key(r)]] /\ Goto(r, "finish")
       ELSE Goto(r, IF entries[Key(r)] = None THEN "ask" ELSE "redrop") /\ UNCHANGED answer
    /\ UNCHANGED <<clock, service, failedAt, config, admin, entries, skipUntil, leader, request, asked,
                   outcome, left>>

-----------------------------------------------------------------------------
(* performPreflight and what follows it                                     *)

Ask(r) ==
    /\ pc[r] = "ask"
    /\ asked' = [asked EXCEPT ![r] = clock]
    /\ Goto(r, "sent")
    /\ UNCHANGED <<clock, service, failedAt, config, admin, entries, skipUntil, leader, request, answer,
                   outcome, left>>

\* The service makes up its mind; the answer may still be on its way, and lost.
ServiceAnswers(r) ==
    /\ pc[r] = "sent"
    /\ answer' = [answer EXCEPT ![r] = [says |-> policy[Key(r)], said |-> clock, expires |-> 0, by |-> r]]
    /\ Goto(r, "replied")
    /\ UNCHANGED <<clock, service, failedAt, config, admin, entries, skipUntil, leader, request, asked,
                   outcome, left>>

\* The answer arrives, and any answer ends the time in which checks are skipped.
Arrive(r) ==
    /\ pc[r] = "replied"
    /\ skipUntil' = 0
    /\ Goto(r, "keep")
    /\ UNCHANGED <<clock, service, failedAt, config, admin, entries, leader, request, asked, answer,
                   outcome, left>>

ExchangeFails(r) ==
    /\ pc[r] \in {"sent", "replied"}
    /\ failedAt' = clock
    /\ answer' = [answer EXCEPT ![r] = None]
    /\ Goto(r, "failed")
    /\ UNCHANGED <<clock, service, config, admin, entries, skipUntil, leader, request, asked, outcome, left>>

\* A mutant: the time of the next check is put off by every failure.
CoolLonger(r) ==
    /\ pc[r] = "failed"
    /\ skipUntil' = (IF skipUntil > clock THEN skipUntil ELSE clock) + Cooldown
    /\ Goto(r, "finish")
    /\ UNCHANGED <<clock, service, failedAt, config, admin, entries, leader, request, asked, answer,
                   outcome, left>>

Cool(r) ==
    /\ pc[r] = "failed"
    /\ skipUntil' = clock + Cooldown
    /\ Goto(r, "finish")
    /\ UNCHANGED <<clock, service, failedAt, config, admin, entries, leader, request, asked, answer,
                   outcome, left>>

\* preflightCacheStore, which also drops what has expired; a refusal of an FN
\* app, and an answer to a request that asked by itself, are not stored.
Keep(r) ==
    /\ pc[r] = "keep"
    /\ answer' = [answer EXCEPT ![r] = [says |-> answer[r].says, said |-> answer[r].said,
                                        expires |-> clock + ttl[r], by |-> r]]
    /\ entries' = IF Key(r) = None \/ ttl[r] = 0 \/ BypassNegative(r, answer[r]) THEN entries
                  ELSE [k \in Keys |-> IF k = Key(r) THEN answer'[r]
                                       ELSE IF Fresh(k, clock) THEN entries[k] ELSE None]
    /\ Goto(r, "finish")
    /\ UNCHANGED <<clock, service, failedAt, config, admin, skipUntil, leader, request, asked, outcome, left>>

Followers(r) == {f \in Requests : pc[f] = "wait" /\ Key(f) = Key(r)}

\* The flight ends, and everybody who waited has the leader's answer, or none.
Finish(r) ==
    LET served == {r} \union IF Key(r) # None /\ leader[Key(r)] = r THEN Followers(r) ELSE {}
    IN  /\ pc[r] = "finish"
        /\ outcome' = [q \in Requests |-> IF q \notin served THEN outcome[q]
                                          ELSE IF answer[r] = None THEN "unchecked" ELSE answer[r].says]
        /\ answer' = [answer EXCEPT ![r] = None]
        /\ pc' = [q \in Requests |-> IF q \in served THEN "done" ELSE pc[q]]
        /\ leader' = [k \in Keys |-> IF leader[k] = r THEN None ELSE leader[k]]
        /\ asked' = [asked EXCEPT ![r] = 0]
        /\ UNCHANGED <<clock, service, failedAt, config, admin, entries, skipUntil, request, left>>

-----------------------------------------------------------------------------
(* Everybody else                                                           *)

\* authCacheInvalidateByIdentityKeys, when a login or a logout changes the jar.
Invalidate(k) ==
    /\ entries[k] # None /\ Spend("clears")
    /\ entries' = [entries EXCEPT ![k] = None]
    /\ UNCHANGED <<clock, service, failedAt, config, admin, skipUntil, leader, pc, request, asked, answer,
                   outcome>>

\* SetAuthConfig publishes the configuration and clears the cache afterwards.
SetAuthConfig(cfg) ==
    /\ admin = "idle" /\ config # WithAuthPort(cfg) /\ Spend("clears")
    /\ config' = WithAuthPort(cfg) /\ admin' = "clear"
    /\ UNCHANGED <<clock, service, failedAt, entries, skipUntil, leader, pc, request, asked, answer, outcome>>

ClearAuthCache ==
    /\ admin = "clear" /\ admin' = "idle"
    /\ entries' = [k \in Keys |-> None]
    /\ UNCHANGED <<clock, service, failedAt, config, skipUntil, leader, pc, request, asked, answer,
                   outcome, left>>

ServiceChangesMind(k, says) ==
    /\ Spend("changes")
    /\ policy[k] # says
    /\ policy' = [policy EXCEPT ![k] = says] /\ changed' = [changed EXCEPT ![k] = clock]
    /\ UNCHANGED <<clock, failedAt, config, admin, entries, skipUntil, leader, pc, request, asked, answer,
                   outcome>>

Tick ==
    /\ Spend("time")
    /\ \A r \in Requests :
        /\ pc[r] \notin {"keep", "failed", "finish"}
        /\ pc[r] \in {"sent", "replied"} => clock < asked[r] + Timeout
    /\ clock' = clock + 1
    /\ UNCHANGED <<service, failedAt, config, admin, entries, skipUntil, leader, pc, request, asked, answer,
                   outcome>>

-----------------------------------------------------------------------------

Init ==
    /\ clock = 0 /\ left \in Budgets /\ failedAt = -Cooldown
    /\ policy \in [Subjects -> Answers] /\ changed = [k \in Subjects |-> 0]
    /\ config \in Published /\ admin = "idle"
    /\ entries = [k \in Keys |-> None] /\ skipUntil = 0 /\ leader = [k \in Keys |-> None]
    /\ pc = [r \in Requests |-> "idle"]
    /\ profile = [r \in Requests |-> CHOOSE p \in Profiles : TRUE]
    /\ began = [r \in Requests |-> 0] /\ ttl = [r \in Requests |-> 0]
    /\ asked = [r \in Requests |-> 0] /\ answer = [r \in Requests |-> None]
    /\ outcome = [r \in Requests |-> "none"]

RequestStep(r) ==
    \/ Hit(r) \/ Miss(r) \/ DropEntry(r) \/ Skip(r) \/ Join(r) \/ Recheck(r)
    \/ Ask(r) \/ ServiceAnswers(r) \/ Arrive(r) \/ ExchangeFails(r) \/ Cool(r) \/ Keep(r) \/ Finish(r)

Next ==
    \/ \E r \in Requests : RequestStep(r) \/ \E p \in left.profiles : Begin(r, p)
    \/ \E k \in Keys : Invalidate(k)
    \/ \E k \in Subjects, says \in Answers : ServiceChangesMind(k, says)
    \/ \E cfg \in Configs : SetAuthConfig(cfg)
    \/ ClearAuthCache \/ Tick

Spec == Init /\ [][Next]_vars

-----------------------------------------------------------------------------
(* Properties                                                               *)

Labels == {"idle", "done", "lookup", "drop", "cooldown", "recheck", "redrop", "wait", "ask", "sent",
           "replied", "keep", "failed", "finish"}

\* The types of the state.
TypeOK ==
    /\ clock \in Nat /\ failedAt \in Int /\ skipUntil \in Nat
    /\ policy \in [Subjects -> Answers] /\ changed \in [Subjects -> Nat]
    /\ config \in Published /\ admin \in {"idle", "clear"}
    /\ entries \in [Keys -> AnswerType \union {None}] /\ leader \in [Keys -> Requests \union {None}]
    /\ profile \in [Requests -> Profiles] /\ began \in [Requests -> Nat]
    /\ ttl \in [Requests -> 0..MaxTTL] /\ asked \in [Requests -> Nat]
    /\ answer \in [Requests -> AnswerType \union {None}] /\ pc \in [Requests -> Labels]
    /\ left \in [time : Nat, requests : Nat, changes : Nat, clears : Nat, profiles : SUBSET Profiles]
    /\ outcome \in [Requests -> Answers \union {"none", "unchecked"}]

Unchecked(r) == pc[r] = "done" /\ outcome[r] = "unchecked"

\* The check fails open for no longer than it has to: a request passes unchecked
\* only if it says it is the check itself, or began less than the cool-down after
\* an exchange really failed, however late answers and failures are recorded and
\* whatever configuration is set (runPreflight, SetAuthConfig).
UncheckedOnlyAfterFailure ==
    \A r \in Requests : Unchecked(r) => profile[r].internal \/ began[r] < failedAt + Cooldown

\* What the service says takes effect: a request that begins a TTL and a timeout
\* after the service changed its mind about its key, and the cool-down after the
\* last failure, is dealt with as the service says, whatever flights, caches and
\* configurations it shares with others.  Only a request that says it is the
\* check itself is not.
PolicyTakesEffect ==
    \A r \in Requests :
        /\ pc[r] = "done" /\ ~profile[r].internal
        /\ changed[Key(r)] + MaxTTL + Timeout <= began[r]
        /\ failedAt + Cooldown <= began[r]
        => outcome[r] = policy[Key(r)]

\* Whose answer a request gets that ends now: the leader's it waited for, or its own.
Teller(r) == IF pc[r] = "wait" THEN leader[Key(r)] ELSE r

\* What a flight ends with is what its leader asked since it began.
AskedItself(r) ==
    pc[r] = "finish" /\ answer[r] # None /\ answer[r].by = r /\ began[r] <= answer[r].said

\* The cache refuses no FN app, at the first look-up, in the flight it leads, or
\* in the flight of another app it waited for: a refusal was asked for by the app
\* itself or by the app whose flight it shared, after that one began.  (What an
\* app gets from the flight of another client may be older.)
AppsAskThemselves ==
    [][\A r \in Requests :
        /\ pc[r] # "done" /\ pc'[r] = "done"
        /\ profile[r].app /\ outcome'[r] \in Refusals /\ profile[Teller(r)].app
        => AskedItself(Teller(r))]_vars

=============================================================================
