------------------------------ MODULE AuthCache ------------------------------
(***************************************************************************)
(* The auth-state cache of the gateway (pkg/proxy/auth_cache.go) and the   *)
(* check that uses it (executeAuthCheck and its callers, handler.go).      *)
(*                                                                         *)
(* Every request is a goroutine.  It looks its cache key up under the read *)
(* lock, drops an expired entry under the write lock in a separate         *)
(* critical section, and on a miss enters a single flight per key: the     *)
(* leader looks again, asks the auth service, may store the answer, and    *)
(* then hands it to everyone who waited.  Meanwhile answers with           *)
(* Set-Cookie and the auth routes (login, logout) invalidate identities,   *)
(* and SetAuthConfig publishes a configuration and then clears the cache.  *)
(*                                                                         *)
(* Time is a discrete clock.  The only waits that take time are the HTTP   *)
(* exchanges with the auth service; the client's timeout bounds them.      *)
(***************************************************************************)
EXTENDS Naturals, FiniteSets

CONSTANTS
    Requests,         \* request goroutines
    Jars,             \* canonical cookie jars
    Tokens,           \* Authorization headers
    IPs,              \* client addresses
    Views,            \* <access mode, scheme, method, host, URI>
    Profiles,         \* the requests clients make
    Traffics,         \* bounds: the sets of requests that meet in a behaviour
    Configs,          \* auth configurations: the two TTLs
    SetCookies,       \* what answers do to the jar: the jar that results (None
                      \* for none), or one of the two values below
    MaxTTL,           \* the longest TTL of a configuration
    AuthTimeout,      \* timeout of the HTTP client of auth checks
    CleanupInterval,  \* authCacheCleanupInterval
    MaxTime,          \* bound of the clock in the model
    None,             \* no cookie, no header, no entry, no request
    Absent, Unrelated \* Set-Cookie: none; none of the session cookies

ASSUME TimesAssumption ==
    /\ MaxTime \in Nat
    /\ MaxTTL \in Nat
    /\ AuthTimeout \in Nat \ {0}
    /\ CleanupInterval \in Nat \ {0}

ASSUME ConfigsAssumption ==
    Configs \subseteq [pass : 0..MaxTTL, fail : 0..MaxTTL]

ASSUME ProfilesAssumption ==
    Profiles \subseteq [cookie : Jars \union {None}, auth : Tokens \union {None},
                        ip : IPs, view : Views, app : BOOLEAN, probe : BOOLEAN]

ASSUME TrafficsAssumption == Traffics \subseteq SUBSET Profiles

ASSUME NoneAssumption ==
    /\ None \notin Jars \union Tokens \union Requests
    /\ Absent \notin Jars \union {None, Unrelated}
    /\ Unrelated \notin Jars \union {None}
    /\ Absent \in SetCookies /\ SetCookies \subseteq Jars \union {None, Absent, Unrelated}

-----------------------------------------------------------------------------
(* Identities and cache keys *)

Identities == ({"cookie"} \X Jars) \union ({"auth"} \X Tokens) \union ({"ip"} \X IPs)

\* Who a request is for the cache: its cookie jar, else its Authorization
\* header, else its address.
RequestIdentity(p) ==
    IF p.cookie # None THEN <<"cookie", p.cookie>>
    ELSE IF p.auth # None THEN <<"auth", p.auth>>
    ELSE <<"ip", p.ip>>

\* Mutant: the address is left out of the key.
NoClientIPDimension(p) == None

\* The address is a dimension of its own unless it is the identity already.
ClientIPDimension(p) == IF p.cookie = None /\ p.auth = None THEN None ELSE p.ip

CacheKey(p) ==
    [identity |-> RequestIdentity(p), ip |-> ClientIPDimension(p), view |-> p.view]

Keys == {CacheKey(p) : p \in Profiles}

\* What performAuthCheck tells the service of a request: also what is no part
\* of the key, the Authorization header of a request with a jar and the
\* User-Agent (which makes the FN apps).
Told(p) == [cookie |-> p.cookie, auth |-> p.auth, ip |-> p.ip, view |-> p.view, app |-> p.app]

\* Only the session cookies count, whose Set-Cookie leaves the client with
\* another jar, or with none.
Relevant(setCookie) == setCookie \notin {Absent, Unrelated}
AfterSetCookie(p, setCookie) == [p EXCEPT !.cookie = setCookie]

\* Identities a Set-Cookie of the session cookies forgets: the request's own,
\* its address, and the one the client has afterwards.
InvalidatedIdentities(p, setCookie) ==
    IF ~Relevant(setCookie) THEN {}
    ELSE {RequestIdentity(p), <<"ip", p.ip>>, RequestIdentity(AfterSetCookie(p, setCookie))}

-----------------------------------------------------------------------------
Time == 0..MaxTime

\* authCheckPlan, with the time and the subject of the decision.
Answers == [kind : {"passed", "refused", "error"}, setCookie : SetCookies,
            at : Time, asker : {Told(p) : p \in Profiles}]

Entries == [answer : Answers, expiresAt : Nat]

ASSUME NoEntryAssumption == None \notin Entries /\ None \notin Answers

PCs == {"idle", "arrived", "drop", "enter", "recheck", "redrop", "sent",
        "answered", "finish", "wait", "apply", "authroute", "authreply", "done"}

VARIABLES
    clock,
    config,       \* the published auth configuration
    admin,        \* where SetAuthConfig is
    traffic,      \* the requests clients make in this behaviour
    entries,      \* authCache.entries
    index,        \* authCache.keysByIdentity
    lastCleanup,  \* authCache.lastCleanup
    flight,       \* authCache.group: the leader of the flight of a key
    pc, profile, snapshot, sentAt, answer, checkedAt, verdict,
    forgotten     \* history: keys invalidated while cached, not stored since

vars == <<clock, config, admin, traffic, entries, index, lastCleanup, flight,
          pc, profile, snapshot, sentAt, answer, checkedAt, verdict, forgotten>>
cache == <<entries, index, lastCleanup, forgotten>>
environment == <<clock, config, admin, traffic>>

TypeOK ==
    /\ clock \in Time
    /\ config \in Configs
    /\ admin \in {"idle", "clearing"}
    /\ traffic \subseteq Profiles
    /\ entries \in [Keys -> Entries \union {None}]
    /\ index \in [Identities -> SUBSET Keys]
    /\ lastCleanup \in Time \union {None}
    /\ flight \in [Keys -> Requests \union {None}]
    /\ pc \in [Requests -> PCs]
    /\ profile \in [Requests -> Profiles \union {None}]
    /\ snapshot \in [Requests -> Configs \union {None}]
    /\ sentAt \in [Requests -> Time]
    /\ answer \in [Requests -> Answers \union {None}]
    /\ checkedAt \in [Requests -> Time]
    /\ verdict \in [Requests -> {"none", "authenticated", "anonymous", "refused"}]
    /\ forgotten \subseteq Keys

Init ==
    /\ clock = 0
    /\ config \in Configs
    /\ admin = "idle"
    /\ traffic \in Traffics
    /\ entries = [k \in Keys |-> None]
    /\ index = [i \in Identities |-> {}]
    /\ lastCleanup = None
    /\ flight = [k \in Keys |-> None]
    /\ pc = [r \in Requests |-> "idle"]
    /\ profile = [r \in Requests |-> None]
    /\ snapshot = [r \in Requests |-> None]
    /\ sentAt = [r \in Requests |-> 0]
    /\ answer = [r \in Requests |-> None]
    /\ checkedAt = [r \in Requests |-> 0]
    /\ verdict = [r \in Requests |-> "none"]
    /\ forgotten = {}

-----------------------------------------------------------------------------
(* Operations of the cache, each one critical section of authCache.mu *)

KeyOf(r) == CacheKey(profile[r])

CacheEnabled(cfg) == cfg.pass > 0 \/ cfg.fail > 0

CacheTTL(cfg, a) ==
    CASE a.kind = "passed"  -> cfg.pass
      [] a.kind = "refused" -> cfg.fail
      [] a.kind = "error"   -> 0

\* Refusals are neither served from nor stored in the cache for the FN apps.
Bypassed(p, a) == p.app /\ a.kind # "passed"

\* Mutant: an entry is still good at the very time it expires.
FreshAtExpiry(e, now) == e.expiresAt >= now

Fresh(e, now) == e.expiresAt > now

Usable(r) ==
    LET e == entries[KeyOf(r)]
    IN  e # None /\ Fresh(e, clock) /\ ~Bypassed(profile[r], e.answer)

Unusable(r) == entries[KeyOf(r)] # None /\ ~Usable(r)

\* Mutant: the key stays in the index.
DeleteFromEntriesOnly(dropped) ==
    /\ entries' = [k \in Keys |-> IF k \in dropped THEN None ELSE entries[k]]
    /\ UNCHANGED index

\* deleteEntryLocked, for a set of keys.
DeleteEntries(dropped) ==
    /\ entries' = [k \in Keys |-> IF k \in dropped THEN None ELSE entries[k]]
    /\ index' = [i \in Identities |->
                    index[i] \ {k \in dropped : entries[k] # None /\ k.identity = i}]

\* Mutant: the entry is not listed under its identity.
StoreUnlisted(key, e) ==
    /\ entries' = [entries EXCEPT ![key] = e]
    /\ forgotten' = forgotten \ {key}
    /\ UNCHANGED <<index, lastCleanup>>

\* authCacheStore: the entry, its place in the index, and the clean-up of what
\* has expired unless one ran less than CleanupInterval ago.
StoreEntry(key, e) ==
    LET stored == [entries EXCEPT ![key] = e]
        listed == [index EXCEPT ![key.identity] = @ \union {key}]
        due == IF lastCleanup = None THEN TRUE ELSE clock - lastCleanup >= CleanupInterval
        dead == {k \in Keys : due /\ stored[k] # None /\ ~Fresh(stored[k], clock)}
    IN  /\ entries' = [k \in Keys |-> IF k \in dead THEN None ELSE stored[k]]
        /\ index' = [i \in Identities |-> listed[i] \ {k \in dead : k.identity = i}]
        /\ lastCleanup' = IF due THEN clock ELSE lastCleanup
        /\ forgotten' = forgotten \ {key}

\* authCacheInvalidateByIdentityKeys: what the index lists for the identities.
Invalidate(identities) ==
    /\ DeleteEntries(UNION {index[i] : i \in identities})
    /\ forgotten' = forgotten \union
           {k \in Keys : k.identity \in identities /\ entries[k] # None}
    /\ UNCHANGED lastCleanup

-----------------------------------------------------------------------------
(* A request that needs an auth check: executeAuthCheck *)

Go(r, here, there) ==
    /\ pc[r] = here
    /\ pc' = [pc EXCEPT ![r] = there]

\* ServeHTTP takes the published snapshot, matches a rule, comes to the check.
Arrive(r) ==
    /\ Go(r, "idle", "arrived")
    /\ \E p \in traffic : profile' = [profile EXCEPT ![r] = p]
    /\ snapshot' = [snapshot EXCEPT ![r] = config]
    /\ UNCHANGED <<environment, cache, flight, sentAt, answer, checkedAt, verdict>>

\* The clock is read and the key looked up under the read lock.
LookUp(r, next) ==
    /\ Go(r, "arrived", next)
    /\ CacheEnabled(snapshot[r])
    /\ checkedAt' = [checkedAt EXCEPT ![r] = clock]
    /\ UNCHANGED <<environment, cache, flight, profile, snapshot, sentAt, verdict>>

Hit(r) ==
    /\ LookUp(r, "apply")
    /\ Usable(r)
    /\ answer' = [answer EXCEPT ![r] = entries[KeyOf(r)].answer]

Miss(r) ==
    /\ \/ LookUp(r, "enter") /\ entries[KeyOf(r)] = None
       \/ LookUp(r, "drop") /\ Unusable(r)
    /\ UNCHANGED answer

\* Both TTLs are zero: the request asks the service on its own.
AskDirectly(r) ==
    /\ Go(r, "arrived", "sent")
    /\ ~CacheEnabled(snapshot[r])
    /\ checkedAt' = [checkedAt EXCEPT ![r] = clock]
    /\ sentAt' = [sentAt EXCEPT ![r] = clock]
    /\ UNCHANGED <<environment, cache, flight, profile, snapshot, answer, verdict>>

\* The entry is dropped by its key: whatever is stored there by now.
DropEntry(r) ==
    /\ \/ Go(r, "drop", "enter") /\ UNCHANGED sentAt
       \/ Go(r, "redrop", "sent") /\ sentAt' = [sentAt EXCEPT ![r] = clock]
    /\ DeleteEntries({KeyOf(r)})
    /\ UNCHANGED <<environment, lastCleanup, forgotten, flight, profile, snapshot,
                   answer, checkedAt, verdict>>

\* Mutant: every request that misses asks the service itself.
EnterFlightAlways(r) ==
    /\ Go(r, "enter", "recheck")
    /\ flight' = [flight EXCEPT ![KeyOf(r)] = r]
    /\ UNCHANGED <<environment, cache, profile, snapshot, sentAt, answer,
                   checkedAt, verdict>>

\* singleflight.Group.Do: lead the flight of the key, or wait for its leader.
EnterFlight(r) ==
    /\ \/ /\ Go(r, "enter", "recheck")
          /\ flight[KeyOf(r)] = None
          /\ flight' = [flight EXCEPT ![KeyOf(r)] = r]
       \/ /\ Go(r, "enter", "wait")
          /\ flight[KeyOf(r)] # None
          /\ UNCHANGED flight
    /\ UNCHANGED <<environment, cache, profile, snapshot, sentAt, answer,
                   checkedAt, verdict>>

\* The leader looks its key up again, with a new reading of the clock.
Recheck(r) ==
    /\ \/ /\ Go(r, "recheck", "finish")
          /\ Usable(r)
          /\ answer' = [answer EXCEPT ![r] = entries[KeyOf(r)].answer]
          /\ UNCHANGED sentAt
       \/ /\ Go(r, "recheck", "redrop")
          /\ Unusable(r)
          /\ UNCHANGED <<answer, sentAt>>
       \/ /\ Go(r, "recheck", "sent")
          /\ entries[KeyOf(r)] = None
          /\ sentAt' = [sentAt EXCEPT ![r] = clock]
          /\ UNCHANGED answer
    /\ UNCHANGED <<environment, cache, flight, profile, snapshot, checkedAt, verdict>>

\* performAuthCheck: a page of refusal, a closed connection, a redirection and
\* the login page are refusals alike.
Decision(success) == IF success THEN "passed" ELSE "refused"

\* The service decides as it likes: its sessions begin and end unseen by the
\* gateway.  It may renew or end the session of the jar with the same answer.
ServiceAnswers(r) ==
    /\ Go(r, "sent", "answered")
    /\ \E success \in BOOLEAN, c \in SetCookies :
            answer' = [answer EXCEPT ![r] =
                [kind |-> Decision(success), setCookie |-> c, at |-> clock,
                 asker |-> Told(profile[r])]]
    /\ UNCHANGED <<environment, cache, flight, profile, snapshot, sentAt,
                   checkedAt, verdict>>

\* Whoever gets this far with the cache enabled leads a flight.
Leads(r) == CacheEnabled(snapshot[r])

\* The exchange fails or times out, or the reply cannot be decoded.
CheckFails(r) ==
    /\ pc[r] \in {"sent", "answered"}
    /\ Go(r, pc[r], IF Leads(r) THEN "finish" ELSE "apply")
    /\ answer' = [answer EXCEPT ![r] =
            [kind |-> "error", setCookie |-> Absent, at |-> clock,
             asker |-> Told(profile[r])]]
    /\ UNCHANGED <<environment, cache, flight, profile, snapshot, sentAt,
                   checkedAt, verdict>>

\* Mutant: an answer is stored with its Set-Cookie.
CacheableWithCookies(r) ==
    /\ answer[r].kind # "error"
    /\ CacheTTL(snapshot[r], answer[r]) > 0
    /\ ~Bypassed(profile[r], answer[r])

Cacheable(r) ==
    /\ answer[r].kind # "error"
    /\ answer[r].setCookie = Absent
    /\ CacheTTL(snapshot[r], answer[r]) > 0
    /\ ~Bypassed(profile[r], answer[r])

\* The reply arrives.  The leader of a flight stores the answer, for the TTL
\* of the snapshot it came with.
ReceiveAnswer(r) ==
    /\ \/ /\ Go(r, "answered", "apply")
          /\ ~Leads(r)
          /\ UNCHANGED cache
       \/ /\ Go(r, "answered", "finish")
          /\ Leads(r)
          /\ IF Cacheable(r)
             THEN StoreEntry(KeyOf(r), [answer |-> answer[r],
                      expiresAt |-> clock + CacheTTL(snapshot[r], answer[r])])
             ELSE UNCHANGED cache
    /\ UNCHANGED <<environment, flight, profile, snapshot, sentAt, answer,
                   checkedAt, verdict>>

\* Mutant: only the leader wakes up.
NoFollowers(r) == {}

Followers(r) == {f \in Requests : pc[f] = "wait" /\ KeyOf(f) = KeyOf(r)}

\* Mutant: the flight stays registered after its end.
FinishFlightKept(r) ==
    /\ pc[r] = "finish"
    /\ LET sharers == Followers(r) \union {r}
       IN  /\ pc' = [q \in Requests |-> IF q \in sharers THEN "apply" ELSE pc[q]]
           /\ answer' = [q \in Requests |-> IF q \in sharers THEN answer[r] ELSE answer[q]]
    /\ UNCHANGED <<environment, cache, flight, profile, snapshot, sentAt, checkedAt, verdict>>

\* The flight ends: the leader and all who waited have its answer.
FinishFlight(r) ==
    /\ pc[r] = "finish"
    /\ LET sharers == Followers(r) \union {r}
       IN  /\ pc' = [q \in Requests |-> IF q \in sharers THEN "apply" ELSE pc[q]]
           /\ answer' = [q \in Requests |-> IF q \in sharers THEN answer[r] ELSE answer[q]]
    /\ flight' = [flight EXCEPT ![KeyOf(r)] = None]
    /\ UNCHANGED <<environment, cache, profile, snapshot, sentAt, checkedAt, verdict>>

\* checkAuth lets through what passed, from the cache or from a flight; a
\* toolbar probe lets everything through.
CheckVerdict(a) == IF a.kind = "passed" THEN "authenticated" ELSE "refused"
Verdict(p, a) == IF p.probe /\ a.kind # "passed" THEN "anonymous" ELSE CheckVerdict(a)

ApplyAnswer(r) ==
    /\ Go(r, "apply", "done")
    /\ verdict' = [verdict EXCEPT ![r] = Verdict(profile[r], answer[r])]
    /\ Invalidate(InvalidatedIdentities(profile[r], answer[r].setCookie))
    /\ UNCHANGED <<environment, flight, profile, snapshot, sentAt, answer, checkedAt>>

-----------------------------------------------------------------------------
(* Login and logout through the auth routes: handleAuthProxyRoute *)

RequestAuthRoute(r) ==
    /\ Go(r, "idle", "authroute")
    /\ \E p \in traffic : profile' = [profile EXCEPT ![r] = p]
    /\ UNCHANGED <<environment, cache, flight, snapshot, sentAt, answer, checkedAt, verdict>>

\* The service ends the session of the jar, begins one with a new jar, or
\* serves something else.
AuthRouteServed(r) ==
    /\ Go(r, "authroute", "authreply")
    /\ \E c \in SetCookies :
            answer' = [answer EXCEPT ![r] =
                [kind |-> "refused", setCookie |-> c, at |-> clock,
                 asker |-> Told(profile[r])]]
    /\ UNCHANGED <<environment, cache, flight, profile, snapshot, sentAt,
                   checkedAt, verdict>>

\* ModifyResponse of the reverse proxy sees the reply.
AuthRouteReplied(r) ==
    /\ Go(r, "authreply", "done")
    /\ Invalidate(InvalidatedIdentities(profile[r], answer[r].setCookie))
    /\ UNCHANGED <<environment, flight, profile, snapshot, sentAt, answer, checkedAt, verdict>>

\* The reply is lost on its way: nothing is invalidated.
AuthRouteLost(r) ==
    /\ Go(r, "authreply", "done")
    /\ UNCHANGED <<environment, cache, flight, profile, snapshot, sentAt, answer,
                   checkedAt, verdict>>

\* The goroutine ends; the next request has a new one.
Close(r) ==
    /\ Go(r, "done", "idle")
    /\ profile' = [profile EXCEPT ![r] = None]
    /\ snapshot' = [snapshot EXCEPT ![r] = None]
    /\ sentAt' = [sentAt EXCEPT ![r] = 0]
    /\ answer' = [answer EXCEPT ![r] = None]
    /\ checkedAt' = [checkedAt EXCEPT ![r] = 0]
    /\ verdict' = [verdict EXCEPT ![r] = "none"]
    /\ UNCHANGED <<environment, cache, flight>>

-----------------------------------------------------------------------------
(* The administrator and time *)

\* SetAuthConfig publishes the snapshot; the requests do not wait for h.mu.
PublishAuthConfig ==
    /\ admin = "idle"
    /\ admin' = "clearing"
    /\ config' \in Configs
    /\ UNCHANGED <<clock, traffic, cache, flight, pc, profile, snapshot, sentAt,
                   answer, checkedAt, verdict>>

ClearAuthCache ==
    /\ admin = "clearing"
    /\ admin' = "idle"
    /\ entries' = [k \in Keys |-> None]
    /\ index' = [i \in Identities |-> {}]
    /\ lastCleanup' = None
    /\ forgotten' = forgotten \union {k \in Keys : entries[k] # None}
    /\ UNCHANGED <<clock, config, traffic, flight, pc, profile, snapshot, sentAt,
                   answer, checkedAt, verdict>>

\* An exchange with the service is over when its timeout is, and the leader of
\* a flight takes no time for its own steps.
Tick ==
    /\ clock < MaxTime
    /\ \A r \in Requests :
        /\ pc[r] \notin {"recheck", "redrop", "finish"}
        /\ pc[r] \in {"sent", "answered"} => clock < sentAt[r] + AuthTimeout
    /\ clock' = clock + 1
    /\ UNCHANGED <<config, admin, traffic, cache, flight, pc, profile, snapshot,
                   sentAt, answer, checkedAt, verdict>>

RequestStep(r) ==
    \/ Hit(r) \/ Miss(r) \/ AskDirectly(r) \/ DropEntry(r) \/ EnterFlight(r)
    \/ Recheck(r) \/ ServiceAnswers(r) \/ CheckFails(r) \/ ReceiveAnswer(r)
    \/ FinishFlight(r) \/ ApplyAnswer(r)

AuthRouteStep(r) ==
    \/ RequestAuthRoute(r) \/ AuthRouteServed(r) \/ AuthRouteReplied(r)
    \/ AuthRouteLost(r)

Next ==
    \/ \E r \in Requests : Arrive(r) \/ RequestStep(r) \/ AuthRouteStep(r) \/ Close(r)
    \/ PublishAuthConfig \/ ClearAuthCache \/ Tick

Spec == Init /\ [][Next]_vars

\* A goroutine that can run runs, and the HTTP client's timeout ends every
\* exchange; nobody has to answer, to log out, or to change the configuration.
FairSpec == Spec /\ \A r \in Requests : WF_vars(RequestStep(r))

-----------------------------------------------------------------------------
(* Properties *)

\* The two maps of the cache agree: the index lists every entry under its
\* identity and nothing else, so that invalidation by identity misses none
\* (authCacheStore, deleteEntryLocked, cleanupExpiredLocked).
IndexMatchesEntries ==
    /\ \A k \in Keys : entries[k] # None => k \in index[k.identity]
    /\ \A i \in Identities : \A k \in index[i] : k.identity = i /\ entries[k] # None

\* A key whose entry was there when its identity was invalidated, or when
\* SetAuthConfig cleared the cache, is out of the cache until a check that
\* finishes later stores it again.
ForgottenUntilChecked == \A k \in forgotten : entries[k] = None

\* Only clean answers are cached: never an error, never one that carries a
\* Set-Cookie (it would be replayed to later requests), and always under the
\* key of the request the service was asked about.
OnlyCleanAnswersCached ==
    \A k \in Keys : entries[k] # None =>
        LET a == entries[k].answer
        IN  /\ a.kind # "error"
            /\ a.setCookie = Absent
            /\ RequestIdentity(a.asker) = k.identity /\ a.asker.view = k.view
            /\ k.ip # None => a.asker.ip = k.ip

\* A request is authenticated only by a positive answer the service gave about
\* a request from the same address, for the same thing, and with the same
\* cookie jar, or without a jar as well and with the same Authorization header:
\* no answer leaks to another client through the cache or a shared flight
\* (checkAuth).  A jar stands for its client whatever else it sends: requests
\* with one jar share answers also when their Authorization headers differ.
AuthenticatedByOwnAnswer ==
    \A r \in Requests : verdict[r] = "authenticated" =>
        LET p == profile[r]
            asker == answer[r].asker
        IN  /\ answer[r].kind = "passed"
            /\ asker.ip = p.ip /\ asker.view = p.view
            /\ asker.cookie = p.cookie
            /\ p.cookie = None => asker.auth = p.auth

\* What a request is told was decided less than the longest TTL plus one auth
\* timeout before the request looked the cache up: a session the service has
\* ended opens no door for longer, whichever way the goroutines interleave.
BoundedStaleness ==
    \A r \in Requests : verdict[r] # "none" =>
        checkedAt[r] < answer[r].at + AuthTimeout + MaxTTL

\* One key's answers only get newer: a check that was overtaken never puts an
\* older decision over a newer one, because checks of a key share a flight.
AnswersOnlyGetNewer ==
    [][\A k \in Keys : entries[k] # None /\ entries'[k] # None =>
            entries'[k].answer.at >= entries[k].answer.at]_vars

\* A flight is led by a request that is working on it, and whoever waits for a
\* key waits for a flight that exists.
FlightsHaveLeaders ==
    /\ \A k \in Keys : flight[k] # None =>
        /\ KeyOf(flight[k]) = k
        /\ pc[flight[k]] \in {"recheck", "redrop", "sent", "answered", "finish"}
    /\ \A r \in Requests : pc[r] = "wait" => flight[KeyOf(r)] # None

\* Every request gets its verdict: no follower is left waiting in a flight.
EveryRequestDecided == \A r \in Requests : pc[r] = "arrived" ~> pc[r] = "done"

=============================================================================
