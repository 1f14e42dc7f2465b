--------------------------- MODULE AuthCacheProofs ---------------------------
(***************************************************************************)
(* Theorems about the auth-state cache, for any number of requests, jars,  *)
(* addresses, configurations, and any timeout and TTL: what entries say,   *)
(* and what the single flights make of the answers.                        *)
(***************************************************************************)
EXTENDS AuthCache, TLAPS

\* Where a request is tells which of its fields are set.
CheckPCs == {"arrived", "drop", "enter", "recheck", "redrop", "sent", "answered",
             "finish", "wait"}

Stages ==
    \A r \in Requests :
        /\ pc[r] # "idle" => profile[r] \in Profiles
        /\ pc[r] \in CheckPCs => snapshot[r] \in Configs
        /\ pc[r] \in {"answered", "finish", "apply", "authreply"} => answer[r] \in Answers
        /\ pc[r] # "done" => verdict[r] = "none"

TypeInv == TypeOK /\ Stages

-----------------------------------------------------------------------------
(* Keys and operations of the cache *)

\* The key of a request that has a profile is one of the cache's keys, and its
\* identity one of the index's.
LEMMA KeyTyped ==
    ASSUME NEW p \in Profiles
    PROVE  /\ CacheKey(p) \in Keys
           /\ CacheKey(p).identity \in Identities
           /\ Told(p) \in {Told(q) : q \in Profiles}
<1>1. CacheKey(p) \in Keys
  BY DEF Keys
<1>2. Told(p) \in {Told(q) : q \in Profiles}
  OBVIOUS
<1>3. p \in [cookie : Jars \union {None}, auth : Tokens \union {None},
             ip : IPs, view : Views, app : BOOLEAN, probe : BOOLEAN]
  BY ProfilesAssumption
<1>4. RequestIdentity(p) \in Identities
  <2>1. CASE p.cookie # None
    BY <1>3, <2>1 DEF RequestIdentity, Identities
  <2>2. CASE p.cookie = None /\ p.auth # None
    BY <1>3, <2>2 DEF RequestIdentity, Identities
  <2>3. CASE p.cookie = None /\ p.auth = None
    BY <1>3, <2>3 DEF RequestIdentity, Identities
  <2>4. QED
    BY <2>1, <2>2, <2>3
<1>5. QED
  BY <1>1, <1>2, <1>4 DEF CacheKey

\* Every key of the cache has an identity of the index.
LEMMA KeysHaveIdentities == \A k \in Keys : k.identity \in Identities
BY KeyTyped DEF Keys

\* Dropping entries leaves the maps well typed.
LEMMA DeleteTyped ==
    ASSUME TypeOK, NEW dropped, DeleteEntries(dropped)
    PROVE  /\ entries' \in [Keys -> Entries \union {None}]
           /\ index' \in [Identities -> SUBSET Keys]
BY DEF TypeOK, DeleteEntries

\* An answer's TTL is a number no longer than the longest one.
LEMMA TTLTyped ==
    ASSUME NEW cfg \in Configs, NEW a \in Answers
    PROVE  CacheTTL(cfg, a) \in 0..MaxTTL
BY ConfigsAssumption, TimesAssumption DEF CacheTTL, Answers

\* Storing an entry leaves the cache well typed.
LEMMA StoreTyped ==
    ASSUME TypeOK, NEW k \in Keys, NEW e \in Entries, StoreEntry(k, e)
    PROVE  /\ entries' \in [Keys -> Entries \union {None}]
           /\ index' \in [Identities -> SUBSET Keys]
           /\ lastCleanup' \in Time \union {None}
           /\ forgotten' \subseteq Keys
BY KeysHaveIdentities DEF TypeOK, StoreEntry

-----------------------------------------------------------------------------
(* Type correctness *)

\* The fields of a request that moves on are the ones it needs there.
LEMMA TypeStep == TypeInv /\ [Next]_vars => TypeInv'
<1> SUFFICES ASSUME TypeOK, Stages, [Next]_vars
             PROVE  TypeOK' /\ Stages'
  BY DEF TypeInv
<1> USE DEF CheckPCs
<1>1. ASSUME NEW r \in Requests, Arrive(r) PROVE TypeOK' /\ Stages'
  BY <1>1 DEF Arrive, Go, TypeOK, Stages, PCs, environment, cache
<1>2. ASSUME NEW r \in Requests, Hit(r) PROVE TypeOK' /\ Stages'
  <2>1. pc[r] = "arrived" /\ KeyOf(r) \in Keys
    BY <1>2, KeyTyped DEF Hit, LookUp, Go, Stages, KeyOf
  <2>2. entries[KeyOf(r)].answer \in Answers
    BY <1>2, <2>1 DEF Hit, Usable, TypeOK, Entries
  <2>3. QED
    BY <1>2, <2>1, <2>2 DEF Hit, LookUp, Go, TypeOK, Stages, PCs, environment, cache
<1>3. ASSUME NEW r \in Requests, Miss(r) PROVE TypeOK' /\ Stages'
  BY <1>3 DEF Miss, LookUp, Go, TypeOK, Stages, PCs, environment, cache
<1>4. ASSUME NEW r \in Requests, AskDirectly(r) PROVE TypeOK' /\ Stages'
  BY <1>4 DEF AskDirectly, Go, TypeOK, Stages, PCs, environment, cache
<1>5. ASSUME NEW r \in Requests, DropEntry(r) PROVE TypeOK' /\ Stages'
  <2>1. /\ entries' \in [Keys -> Entries \union {None}]
        /\ index' \in [Identities -> SUBSET Keys]
    BY <1>5, DeleteTyped DEF DropEntry
  <2>2. QED
    BY <1>5, <2>1 DEF DropEntry, Go, TypeOK, Stages, PCs, environment
<1>6. ASSUME NEW r \in Requests, EnterFlight(r) PROVE TypeOK' /\ Stages'
  BY <1>6 DEF EnterFlight, Go, TypeOK, Stages, PCs, environment, cache
<1>7. ASSUME NEW r \in Requests, Recheck(r) PROVE TypeOK' /\ Stages'
  <2>1. pc[r] = "recheck" /\ KeyOf(r) \in Keys
    BY <1>7, KeyTyped DEF Recheck, Go, Stages, KeyOf
  <2>2. Usable(r) => entries[KeyOf(r)].answer \in Answers
    BY <2>1 DEF Usable, TypeOK, Entries
  <2>3. QED
    BY <1>7, <2>1, <2>2 DEF Recheck, Go, TypeOK, Stages, PCs, environment, cache
<1>8. ASSUME NEW r \in Requests, ServiceAnswers(r) PROVE TypeOK' /\ Stages'
  <2>1. pc[r] = "sent" /\ Told(profile[r]) \in {Told(p) : p \in Profiles}
    BY <1>8, KeyTyped DEF ServiceAnswers, Decision, Go, Stages
  <2>2. PICK a \in Answers : answer' = [answer EXCEPT ![r] = a]
    BY <1>8, <2>1 DEF ServiceAnswers, Decision, Answers, TypeOK
  <2>3. QED
    BY <1>8, <2>1, <2>2 DEF ServiceAnswers, Decision, Go, TypeOK, Stages, PCs, environment, cache
<1>9. ASSUME NEW r \in Requests, CheckFails(r) PROVE TypeOK' /\ Stages'
  <2>1. /\ pc[r] \in {"sent", "answered"}
        /\ Told(profile[r]) \in {Told(p) : p \in Profiles}
    BY <1>9, KeyTyped DEF CheckFails, Stages
  <2>2. PICK a \in Answers : answer' = [answer EXCEPT ![r] = a]
    BY <1>9, <2>1, NoneAssumption DEF CheckFails, Answers, TypeOK
  <2>3. QED
    BY <1>9, <2>1, <2>2 DEF CheckFails, Go, TypeOK, Stages, PCs, environment, cache
<1>10. ASSUME NEW r \in Requests, ReceiveAnswer(r) PROVE TypeOK' /\ Stages'
  <2>1. pc[r] = "answered" /\ KeyOf(r) \in Keys /\ answer[r] \in Answers
        /\ snapshot[r] \in Configs
    BY <1>10, KeyTyped DEF ReceiveAnswer, Go, Stages, KeyOf
  <2>2. /\ entries' \in [Keys -> Entries \union {None}]
        /\ index' \in [Identities -> SUBSET Keys]
        /\ lastCleanup' \in Time \union {None}
        /\ forgotten' \subseteq Keys
    <3>1. CASE UNCHANGED cache
      BY <3>1 DEF cache, TypeOK
    <3>2. CASE ~UNCHANGED cache
      <4> DEFINE e == [answer |-> answer[r],
                       expiresAt |-> clock + CacheTTL(snapshot[r], answer[r])]
      <4>1. StoreEntry(KeyOf(r), e)
        BY <1>10, <3>2 DEF ReceiveAnswer
      <4>2. CacheTTL(snapshot[r], answer[r]) \in Nat
        BY <2>1, TTLTyped, TimesAssumption
      <4>3. e \in Entries
        BY <2>1, <4>2, TimesAssumption DEF Entries, TypeOK, Time
      <4>4. QED
        BY <2>1, <4>1, <4>3, StoreTyped
    <3>3. QED
      BY <3>1, <3>2
  <2>3. QED
    BY <1>10, <2>1, <2>2 DEF ReceiveAnswer, Go, TypeOK, Stages, PCs, environment
<1>11. ASSUME NEW r \in Requests, FinishFlight(r) PROVE TypeOK' /\ Stages'
  <2>1. answer[r] \in Answers
    BY <1>11 DEF FinishFlight, Stages
  <2>2. \A q \in Followers(r) \union {r} : q \in Requests /\ pc[q] \in {"wait", "finish"}
    BY <1>11 DEF FinishFlight, Followers
  <2>3. QED
    BY <1>11, <2>1, <2>2 DEF FinishFlight, TypeOK, Stages, PCs, environment, cache
<1>12. ASSUME NEW r \in Requests, ApplyAnswer(r) PROVE TypeOK' /\ Stages'
  <2>1. pc[r] = "apply" /\ answer[r] \in Answers
    BY <1>12 DEF ApplyAnswer, Go, Stages
  <2>2. Verdict(profile[r], answer[r]) \in {"authenticated", "anonymous", "refused"}
    BY DEF Verdict, CheckVerdict
  <2>3. /\ entries' \in [Keys -> Entries \union {None}]
        /\ index' \in [Identities -> SUBSET Keys]
    BY <1>12, DeleteTyped DEF ApplyAnswer, Invalidate
  <2>4. forgotten' \subseteq Keys
    BY <1>12 DEF ApplyAnswer, Invalidate, TypeOK
  <2>5. QED
    BY <1>12, <2>1, <2>2, <2>3, <2>4
    DEF ApplyAnswer, Invalidate, Go, TypeOK, Stages, PCs, environment
<1>13. ASSUME NEW r \in Requests, RequestAuthRoute(r) PROVE TypeOK' /\ Stages'
  BY <1>13 DEF RequestAuthRoute, Go, TypeOK, Stages, PCs, environment, cache
<1>14. ASSUME NEW r \in Requests, AuthRouteServed(r) PROVE TypeOK' /\ Stages'
  <2>1. /\ pc[r] = "authroute"
        /\ Told(profile[r]) \in {Told(p) : p \in Profiles}
    BY <1>14, KeyTyped DEF AuthRouteServed, Go, Stages
  <2>2. PICK a \in Answers : answer' = [answer EXCEPT ![r] = a]
    BY <1>14, <2>1 DEF AuthRouteServed, Answers, TypeOK
  <2>3. QED
    BY <1>14, <2>1, <2>2 DEF AuthRouteServed, Go, TypeOK, Stages, PCs, environment, cache
<1>15. ASSUME NEW r \in Requests, AuthRouteReplied(r) PROVE TypeOK' /\ Stages'
  <2>1. /\ entries' \in [Keys -> Entries \union {None}]
        /\ index' \in [Identities -> SUBSET Keys]
    BY <1>15, DeleteTyped DEF AuthRouteReplied, Invalidate
  <2>2. forgotten' \subseteq Keys
    BY <1>15 DEF AuthRouteReplied, Invalidate, TypeOK
  <2>3. QED
    BY <1>15, <2>1, <2>2
    DEF AuthRouteReplied, Invalidate, Go, TypeOK, Stages, PCs, environment
<1>16. ASSUME NEW r \in Requests, AuthRouteLost(r) PROVE TypeOK' /\ Stages'
  BY <1>16 DEF AuthRouteLost, Go, TypeOK, Stages, PCs, environment, cache
<1>17. ASSUME NEW r \in Requests, Close(r) PROVE TypeOK' /\ Stages'
  BY <1>17, TimesAssumption DEF Close, Go, TypeOK, Stages, PCs, environment, cache, Time
<1>18. CASE PublishAuthConfig
  BY <1>18 DEF PublishAuthConfig, TypeOK, Stages, cache
<1>19. CASE ClearAuthCache
  BY <1>19 DEF ClearAuthCache, TypeOK, Stages
<1>20. CASE Tick
  BY <1>20, TimesAssumption DEF Tick, TypeOK, Stages, Time, cache
<1>21. CASE UNCHANGED vars
  BY <1>21 DEF vars, TypeOK, Stages
<1>22. QED
  BY <1>1, <1>2, <1>3, <1>4, <1>5, <1>6, <1>7, <1>8, <1>9, <1>10, <1>11, <1>12, <1>13,
     <1>14, <1>15, <1>16, <1>17, <1>18, <1>19, <1>20, <1>21
  DEF Next, RequestStep, AuthRouteStep

\* TypeOK, strengthened with Stages, in the form the proofs below use.
LEMMA TypeInvariant == Spec => []TypeInv
<1>1. Init => TypeInv
  BY TimesAssumption, TrafficsAssumption DEF Init, TypeInv, TypeOK, Stages, CheckPCs, Time, PCs
<1>2. QED
  BY <1>1, TypeStep, PTL DEF Spec

\* The variables keep their types, and a request that is somewhere in a check
\* has the fields that place needs (executeAuthCheck and its callers).
THEOREM TypeCorrect == Spec => [](TypeOK /\ Stages)
BY TypeInvariant, PTL DEF TypeInv

-----------------------------------------------------------------------------
(* The two maps of the cache *)

\* What a step does to the cache: nothing, drop one key, invalidate identities,
\* store the answer of a leader, or clear everything.
LEMMA CacheChanges ==
    ASSUME TypeInv, [Next]_vars
    PROVE  \/ UNCHANGED cache
           \/ \E r \in Requests : DeleteEntries({KeyOf(r)}) /\ UNCHANGED forgotten
           \/ \E identities : Invalidate(identities)
           \/ \E r \in Requests :
                /\ pc[r] = "answered" /\ Leads(r) /\ Cacheable(r)
                /\ StoreEntry(KeyOf(r), [answer |-> answer[r],
                       expiresAt |-> clock + CacheTTL(snapshot[r], answer[r])])
                /\ UNCHANGED <<clock, flight, answer>>
           \/ ClearAuthCache
<1> USE DEF cache
<1>1. ASSUME NEW r \in Requests, DropEntry(r)
      PROVE  DeleteEntries({KeyOf(r)}) /\ UNCHANGED forgotten
  BY <1>1 DEF DropEntry
<1>2. ASSUME NEW r \in Requests, ReceiveAnswer(r)
      PROVE  \/ UNCHANGED cache
             \/ /\ pc[r] = "answered" /\ Leads(r) /\ Cacheable(r)
                /\ StoreEntry(KeyOf(r), [answer |-> answer[r],
                       expiresAt |-> clock + CacheTTL(snapshot[r], answer[r])])
                /\ UNCHANGED <<clock, flight, answer>>
  BY <1>2 DEF ReceiveAnswer, Go, environment
<1>3. ASSUME NEW r \in Requests, ApplyAnswer(r) \/ AuthRouteReplied(r)
      PROVE  \E identities : Invalidate(identities)
  BY <1>3 DEF ApplyAnswer, AuthRouteReplied
<1>4. ASSUME NEW r \in Requests,
             \/ Arrive(r) \/ Hit(r) \/ Miss(r) \/ AskDirectly(r) \/ EnterFlight(r)
             \/ Recheck(r) \/ ServiceAnswers(r) \/ CheckFails(r) \/ FinishFlight(r)
             \/ RequestAuthRoute(r) \/ AuthRouteServed(r) \/ AuthRouteLost(r) \/ Close(r)
      PROVE  UNCHANGED cache
  BY <1>4 DEF Arrive, Hit, Miss, LookUp, AskDirectly, EnterFlight, Recheck, ServiceAnswers, Decision,
              CheckFails, FinishFlight, RequestAuthRoute, AuthRouteServed, AuthRouteLost, Close
<1>5. CASE PublishAuthConfig \/ Tick \/ UNCHANGED vars
  BY <1>5 DEF PublishAuthConfig, Tick, vars
<1>6. QED
  BY <1>1, <1>2, <1>3, <1>4, <1>5 DEF Next, RequestStep, AuthRouteStep

\* Dropping entries drops their places in the index, and no others.
LEMMA DeleteKeepsIndex ==
    ASSUME TypeOK, IndexMatchesEntries, NEW dropped, DeleteEntries(dropped)
    PROVE  /\ IndexMatchesEntries'
           /\ \A k \in Keys : entries'[k] = IF k \in dropped THEN None ELSE entries[k]
BY KeysHaveIdentities DEF TypeOK, IndexMatchesEntries, DeleteEntries

\* Storing an entry lists it, and the clean-up unlists what it drops.
LEMMA StoreKeepsIndex ==
    ASSUME TypeOK, IndexMatchesEntries, NEW k \in Keys, NEW e \in Entries, StoreEntry(k, e)
    PROVE  IndexMatchesEntries'
<1> DEFINE dead == {j \in Keys : entries'[j] = None /\ [entries EXCEPT ![k] = e][j] # None}
<1>1. e # None
  BY NoEntryAssumption
<1>2. \A j \in Keys : entries'[j] = IF j \in dead THEN None ELSE [entries EXCEPT ![k] = e][j]
  BY DEF StoreEntry, TypeOK
<1>3. \A i \in Identities :
         index'[i] = [index EXCEPT ![k.identity] = @ \union {k}][i]
                        \ {j \in dead : j.identity = i}
  <2>1. \A i \in Identities :
          index'[i] = [index EXCEPT ![k.identity] = @ \union {k}][i]
            \ {j \in {x \in Keys :
                        /\ IF lastCleanup = None THEN TRUE ELSE clock - lastCleanup >= CleanupInterval
                        /\ [entries EXCEPT ![k] = e][x] # None
                        /\ ~Fresh([entries EXCEPT ![k] = e][x], clock)} : j.identity = i}
    BY DEF StoreEntry
  <2>2. dead = {x \in Keys :
                        /\ IF lastCleanup = None THEN TRUE ELSE clock - lastCleanup >= CleanupInterval
                        /\ [entries EXCEPT ![k] = e][x] # None
                        /\ ~Fresh([entries EXCEPT ![k] = e][x], clock)}
    BY DEF StoreEntry
  <2>3. QED
    BY <2>1, <2>2
<1>4. \A j \in Keys : entries'[j] # None => j \in index'[j.identity]
  BY <1>2, <1>3, KeysHaveIdentities DEF IndexMatchesEntries, TypeOK
<1>5. \A i \in Identities : \A j \in index'[i] : j.identity = i /\ entries'[j] # None
  BY <1>1, <1>2, <1>3, KeysHaveIdentities DEF IndexMatchesEntries, TypeOK
<1>6. QED
  BY <1>4, <1>5 DEF IndexMatchesEntries

\* What is forgotten is gone, and only a store brings a key back.
LEMMA IndexStep ==
    ASSUME TypeInv, IndexMatchesEntries, ForgottenUntilChecked, [Next]_vars
    PROVE  IndexMatchesEntries' /\ ForgottenUntilChecked'
<1> USE DEF TypeInv
<1>1. CASE UNCHANGED cache
  BY <1>1 DEF cache, IndexMatchesEntries, ForgottenUntilChecked
<1>2. ASSUME NEW r \in Requests, DeleteEntries({KeyOf(r)}), UNCHANGED forgotten
      PROVE  IndexMatchesEntries' /\ ForgottenUntilChecked'
  BY <1>2, DeleteKeepsIndex DEF ForgottenUntilChecked, TypeOK
<1>3. ASSUME NEW identities, Invalidate(identities)
      PROVE  IndexMatchesEntries' /\ ForgottenUntilChecked'
  <2> DEFINE dropped == UNION {index[i] : i \in identities}
  <2>1. DeleteEntries(dropped)
    BY <1>3 DEF Invalidate
  <2>2. \A k \in Keys : k.identity \in identities /\ entries[k] # None => k \in dropped
    BY DEF IndexMatchesEntries
  <2>3. forgotten' = forgotten \union
            {k \in Keys : k.identity \in identities /\ entries[k] # None}
    BY <1>3 DEF Invalidate
  <2> HIDE DEF dropped
  <2>4. QED
    BY <2>1, <2>2, <2>3, DeleteKeepsIndex DEF ForgottenUntilChecked, TypeOK
<1>4. ASSUME NEW r \in Requests, pc[r] = "answered",
             StoreEntry(KeyOf(r), [answer |-> answer[r],
                 expiresAt |-> clock + CacheTTL(snapshot[r], answer[r])])
      PROVE  IndexMatchesEntries' /\ ForgottenUntilChecked'
  <2> DEFINE e == [answer |-> answer[r],
                   expiresAt |-> clock + CacheTTL(snapshot[r], answer[r])]
  <2>1. KeyOf(r) \in Keys /\ answer[r] \in Answers /\ snapshot[r] \in Configs
    BY <1>4, KeyTyped DEF Stages, KeyOf, CheckPCs
  <2>2. e \in Entries
    BY <2>1, TTLTyped, TimesAssumption DEF Entries, TypeOK, Time
  <2>3. IndexMatchesEntries'
    BY <1>4, <2>1, <2>2, StoreKeepsIndex
  <2>4. ForgottenUntilChecked'
    BY <1>4, <2>1 DEF StoreEntry, ForgottenUntilChecked, TypeOK
  <2>5. QED
    BY <2>3, <2>4
<1>5. CASE ClearAuthCache
  BY <1>5 DEF ClearAuthCache, IndexMatchesEntries, ForgottenUntilChecked, TypeOK
<1>6. QED
  BY <1>1, <1>2, <1>3, <1>4, <1>5, CacheChanges

\* Both are inductive together, given the types.
LEMMA IndexInvariant == Spec => [](IndexMatchesEntries /\ ForgottenUntilChecked)
<1>1. Init => IndexMatchesEntries /\ ForgottenUntilChecked
  BY DEF Init, IndexMatchesEntries, ForgottenUntilChecked
<1>2. TypeInv /\ (IndexMatchesEntries /\ ForgottenUntilChecked) /\ [Next]_vars
        => (IndexMatchesEntries /\ ForgottenUntilChecked)'
  BY IndexStep
<1>3. QED
  BY <1>1, <1>2, TypeInvariant, PTL DEF Spec

\* The index and the entries agree at every moment (authCacheStore,
\* deleteEntryLocked, cleanupExpiredLocked), whatever is stored, dropped and
\* cleaned up at the same time.
THEOREM IndexAgrees == Spec => []IndexMatchesEntries
BY IndexInvariant, PTL

\* An invalidated key stays out of the cache until it is checked again
\* (authCacheInvalidateByIdentityKeys, clearAuthCache), whatever requests and
\* invalidations run at the same time.
THEOREM InvalidationForgets == Spec => []ForgottenUntilChecked
BY IndexInvariant, PTL

-----------------------------------------------------------------------------
(* How old an answer can be *)

\* The end of what an answer may be used for.
Horizon(a) == a.at + AuthTimeout + MaxTTL

EntriesInTime ==
    \A k \in Keys : entries[k] # None =>
        entries[k].answer.at <= clock /\ entries[k].expiresAt <= Horizon(entries[k].answer)

\* An exchange ends before its timeout does, and what it brings is used in time.
RequestsInTime ==
    \A r \in Requests :
        /\ checkedAt[r] <= clock
        /\ pc[r] \in {"sent", "answered"} =>
            checkedAt[r] <= sentAt[r] /\ sentAt[r] <= clock /\ clock <= sentAt[r] + AuthTimeout
        /\ pc[r] = "answered" => sentAt[r] <= answer[r].at /\ answer[r].at <= clock
        /\ pc[r] = "finish" => answer[r].at <= clock /\ clock < Horizon(answer[r])
        /\ pc[r] = "apply" => checkedAt[r] < Horizon(answer[r])
        /\ verdict[r] # "none" => checkedAt[r] < Horizon(answer[r])

InTime == EntriesInTime /\ RequestsInTime

\* The times of answers, entries and the clock are numbers.
LEMMA TimesTyped ==
    ASSUME TypeOK
    PROVE  /\ clock \in Nat
           /\ \A a \in Answers : a.at \in Nat
           /\ \A e \in Entries : e.answer \in Answers /\ e.expiresAt \in Nat
           /\ \A r \in Requests : checkedAt[r] \in Nat /\ sentAt[r] \in Nat
BY TimesAssumption DEF TypeOK, Time, Answers, Entries

\* A usable entry's answer is still good now.
LEMMA UsableInTime ==
    ASSUME TypeOK, EntriesInTime, NEW r \in Requests, KeyOf(r) \in Keys, Usable(r)
    PROVE  /\ entries[KeyOf(r)].answer \in Answers
           /\ entries[KeyOf(r)].answer.at <= clock
           /\ clock < Horizon(entries[KeyOf(r)].answer)
<1>1. entries[KeyOf(r)] \in Entries /\ Fresh(entries[KeyOf(r)], clock)
  BY DEF Usable, TypeOK
<1>2. QED
  BY <1>1, TimesTyped, TimesAssumption DEF EntriesInTime, Usable, Fresh, Horizon

\* Nothing but the answer to a leader's check brings an entry into the cache.
LEMMA EntriesInTimeStep ==
    ASSUME TypeInv, InTime, [Next]_vars
    PROVE  EntriesInTime'
<1> USE DEF TypeInv, InTime
<1>1. clock' \in Nat /\ clock <= clock'
  <2>1. CASE Tick
    BY <2>1, TimesTyped DEF Tick
  <2>2. CASE ~Tick
    <3>1. clock' = clock
      BY <2>2 DEF Next, RequestStep, AuthRouteStep, vars, environment, Arrive, Hit, Miss,
                  LookUp, AskDirectly, DropEntry, EnterFlight, Recheck, ServiceAnswers, Decision,
                  CheckFails, ReceiveAnswer, FinishFlight, ApplyAnswer, RequestAuthRoute,
                  AuthRouteServed, AuthRouteReplied, AuthRouteLost, Close,
                  PublishAuthConfig, ClearAuthCache
    <3>2. QED
      BY <3>1, TimesTyped
  <2>3. QED
    BY <2>1, <2>2
<1>2. ASSUME NEW k \in Keys, entries'[k] = entries[k], entries[k] # None
      PROVE  /\ entries'[k].answer.at <= clock'
             /\ entries'[k].expiresAt <= Horizon(entries'[k].answer)
  <2>1. entries[k] \in Entries
    BY <1>2 DEF TypeOK
  <2>2. QED
    BY <1>1, <1>2, <2>1, TimesTyped DEF EntriesInTime
<1>3. ASSUME \A k \in Keys : entries'[k] = None \/ entries'[k] = entries[k]
      PROVE  EntriesInTime'
  BY <1>2, <1>3 DEF EntriesInTime, Horizon
<1>4. CASE UNCHANGED cache \/ ClearAuthCache
  BY <1>3, <1>4 DEF cache, ClearAuthCache
<1>5. ASSUME NEW dropped, DeleteEntries(dropped) PROVE EntriesInTime'
  BY <1>3, <1>5 DEF DeleteEntries
<1>6. ASSUME NEW r \in Requests, pc[r] = "answered", Leads(r),
             StoreEntry(KeyOf(r), [answer |-> answer[r],
                 expiresAt |-> clock + CacheTTL(snapshot[r], answer[r])])
      PROVE  EntriesInTime'
  <2> DEFINE e == [answer |-> answer[r],
                   expiresAt |-> clock + CacheTTL(snapshot[r], answer[r])]
  <2>1. KeyOf(r) \in Keys /\ answer[r] \in Answers /\ snapshot[r] \in Configs
    BY <1>6, KeyTyped DEF Stages, KeyOf, CheckPCs
  <2>2. CacheTTL(snapshot[r], answer[r]) \in Nat /\ CacheTTL(snapshot[r], answer[r]) <= MaxTTL
    BY <2>1, TTLTyped, TimesAssumption
  <2>3. /\ answer[r].at <= clock
        /\ clock <= answer[r].at + AuthTimeout
    BY <1>6, <2>1, TimesTyped, TimesAssumption DEF RequestsInTime
  <2>4. e.answer.at <= clock' /\ e.expiresAt <= Horizon(e.answer)
    BY <1>1, <2>1, <2>2, <2>3, TimesTyped, TimesAssumption DEF Horizon
  <2>5. \A k \in Keys : entries'[k] \in {None, entries[k], e}
    BY <1>6, <2>1 DEF StoreEntry, TypeOK
  <2> HIDE DEF e
  <2>6. QED
    BY <1>2, <2>4, <2>5 DEF EntriesInTime, Horizon
<1>7. QED
  BY <1>4, <1>5, <1>6, CacheChanges DEF Invalidate

\* A request waits for the service no longer than its timeout, takes from the
\* cache only what has not expired, and hands on in a flight what it just got.
LEMMA RequestsInTimeStep ==
    ASSUME TypeInv, InTime, [Next]_vars
    PROVE  RequestsInTime'
<1> USE DEF TypeInv, InTime
<1> USE TimesTyped, TimesAssumption
<1>1. ASSUME NEW r \in Requests, Arrive(r) PROVE RequestsInTime'
  BY <1>1 DEF Arrive, Go, TypeOK, RequestsInTime, Horizon, environment
<1>2. ASSUME NEW r \in Requests, Hit(r) PROVE RequestsInTime'
  <2>1. pc[r] = "arrived" /\ KeyOf(r) \in Keys
    BY <1>2, KeyTyped DEF Hit, LookUp, Go, Stages, KeyOf
  <2>2. /\ entries[KeyOf(r)].answer \in Answers
        /\ clock < Horizon(entries[KeyOf(r)].answer)
    BY <1>2, <2>1, UsableInTime DEF Hit
  <2>3. verdict[r] = "none"
    BY <2>1 DEF Stages
  <2>4. QED
    BY <1>2, <2>1, <2>2, <2>3
    DEF Hit, LookUp, Go, TypeOK, RequestsInTime, Horizon, environment
<1>3. ASSUME NEW r \in Requests, Miss(r) PROVE RequestsInTime'
  <2>1. verdict[r] = "none"
    BY <1>3 DEF Miss, LookUp, Go, Stages
  <2>2. QED
    BY <1>3, <2>1 DEF Miss, LookUp, Go, TypeOK, RequestsInTime, Horizon, environment
<1>4. ASSUME NEW r \in Requests, AskDirectly(r) PROVE RequestsInTime'
  <2>1. verdict[r] = "none"
    BY <1>4 DEF AskDirectly, Go, Stages
  <2>2. QED
    BY <1>4, <2>1 DEF AskDirectly, Go, TypeOK, RequestsInTime, Horizon, environment
<1>5. ASSUME NEW r \in Requests, DropEntry(r) PROVE RequestsInTime'
  BY <1>5 DEF DropEntry, Go, TypeOK, RequestsInTime, Horizon, environment
<1>6. ASSUME NEW r \in Requests, EnterFlight(r) PROVE RequestsInTime'
  BY <1>6 DEF EnterFlight, Go, TypeOK, RequestsInTime, Horizon, environment
<1>7. ASSUME NEW r \in Requests, Recheck(r) PROVE RequestsInTime'
  <2>1. pc[r] = "recheck" /\ KeyOf(r) \in Keys /\ verdict[r] = "none"
    BY <1>7, KeyTyped DEF Recheck, Go, Stages, KeyOf
  <2>2. Usable(r) => /\ entries[KeyOf(r)].answer \in Answers
                     /\ entries[KeyOf(r)].answer.at <= clock
                     /\ clock < Horizon(entries[KeyOf(r)].answer)
    BY <2>1, UsableInTime
  <2>3. QED
    BY <1>7, <2>1, <2>2 DEF Recheck, Go, TypeOK, RequestsInTime, Horizon, environment
<1>8. ASSUME NEW r \in Requests, ServiceAnswers(r) PROVE RequestsInTime'
  <2>1. pc[r] = "sent" /\ verdict[r] = "none"
    BY <1>8 DEF ServiceAnswers, Decision, Go, Stages
  <2>2. PICK a : a.at = clock /\ answer' = [answer EXCEPT ![r] = a]
    BY <1>8 DEF ServiceAnswers, Decision
  <2>3. QED
    BY <1>8, <2>1, <2>2 DEF ServiceAnswers, Decision, Go, TypeOK, RequestsInTime, Horizon, environment
<1>9. ASSUME NEW r \in Requests, CheckFails(r) PROVE RequestsInTime'
  <2>1. pc[r] \in {"sent", "answered"} /\ verdict[r] = "none"
    BY <1>9 DEF CheckFails, Stages
  <2>2. PICK a : a.at = clock /\ answer' = [answer EXCEPT ![r] = a]
    BY <1>9 DEF CheckFails
  <2>3. /\ pc' = [pc EXCEPT ![r] = pc'[r]] /\ pc'[r] \in {"finish", "apply"}
        /\ UNCHANGED <<clock, sentAt, checkedAt, verdict>>
    BY <1>9 DEF CheckFails, Go, TypeOK, environment
  <2>4. checkedAt[r] <= clock /\ clock < Horizon(a)
    BY <2>2 DEF RequestsInTime, Horizon
  <2>5. QED
    BY <2>1, <2>2, <2>3, <2>4 DEF TypeOK, RequestsInTime, Horizon
<1>10. ASSUME NEW r \in Requests, ReceiveAnswer(r) PROVE RequestsInTime'
  <2>1. /\ pc[r] = "answered" /\ verdict[r] = "none"
        /\ answer[r] \in Answers /\ snapshot[r] \in Configs
    BY <1>10 DEF ReceiveAnswer, Go, Stages, CheckPCs
  <2>2. Leads(r) => MaxTTL > 0
    BY <2>1, ConfigsAssumption DEF Leads, CacheEnabled
  <2>3. /\ answer[r].at <= clock
        /\ clock <= answer[r].at + AuthTimeout
        /\ checkedAt[r] <= answer[r].at
    BY <2>1 DEF RequestsInTime
  <2>4. /\ Leads(r) => clock < Horizon(answer[r])
        /\ checkedAt[r] < Horizon(answer[r])
    BY <2>1, <2>2, <2>3 DEF Horizon
  <2>5. QED
    BY <1>10, <2>1, <2>3, <2>4
    DEF ReceiveAnswer, Go, TypeOK, RequestsInTime, Horizon, environment
<1>11. ASSUME NEW r \in Requests, FinishFlight(r) PROVE RequestsInTime'
  <2>1. answer[r] \in Answers /\ clock < Horizon(answer[r])
    BY <1>11 DEF FinishFlight, Stages, RequestsInTime
  <2>2. \A q \in Followers(r) \union {r} : q \in Requests /\ verdict[q] = "none"
    BY <1>11 DEF FinishFlight, Followers, Stages
  <2>3. QED
    BY <1>11, <2>1, <2>2 DEF FinishFlight, TypeOK, RequestsInTime, Horizon, environment
<1>12. ASSUME NEW r \in Requests, ApplyAnswer(r) PROVE RequestsInTime'
  BY <1>12 DEF ApplyAnswer, Go, TypeOK, RequestsInTime, Horizon, environment
<1>13. ASSUME NEW r \in Requests, AuthRouteStep(r) PROVE RequestsInTime'
  <2>1. verdict[r] = "none" /\ UNCHANGED <<clock, checkedAt, sentAt, verdict>>
    BY <1>13 DEF AuthRouteStep, RequestAuthRoute, AuthRouteServed, AuthRouteReplied,
                 AuthRouteLost, Go, Stages, environment
  <2>2. /\ pc'[r] \in {"authroute", "authreply", "done"}
        /\ \A q \in Requests \ {r} : pc'[q] = pc[q] /\ answer'[q] = answer[q]
    BY <1>13 DEF AuthRouteStep, RequestAuthRoute, AuthRouteServed, AuthRouteReplied,
                 AuthRouteLost, Go, TypeOK
  <2>3. QED
    BY <2>1, <2>2 DEF TypeOK, RequestsInTime, Horizon
<1>14. ASSUME NEW r \in Requests, Close(r) PROVE RequestsInTime'
  BY <1>14 DEF Close, Go, TypeOK, RequestsInTime, Horizon, environment
<1>15. CASE PublishAuthConfig \/ ClearAuthCache \/ UNCHANGED vars
  BY <1>15 DEF PublishAuthConfig, ClearAuthCache, vars, RequestsInTime, Horizon
<1>16. CASE Tick
  <2>1. \A r \in Requests : pc[r] = "answered" => answer[r].at \in Nat
    BY DEF Stages
  <2>2. QED
    BY <1>16, <2>1 DEF Tick, RequestsInTime, Horizon
<1>17. QED
  BY <1>1, <1>2, <1>3, <1>4, <1>5, <1>6, <1>7, <1>8, <1>9, <1>10, <1>11, <1>12, <1>13,
     <1>14, <1>15, <1>16
  DEF Next, RequestStep

\* What a request is told was decided less than one timeout and the longest TTL
\* before it looked the cache up (executeAuthCheck): the leader's second look,
\* the entries of others and shared flights do not add to that.
THEOREM StalenessIsBounded == Spec => []BoundedStaleness
<1>1. Init => InTime
  BY TimesAssumption DEF Init, InTime, EntriesInTime, RequestsInTime
<1>2. TypeInv /\ InTime /\ [Next]_vars => InTime'
  BY EntriesInTimeStep, RequestsInTimeStep DEF InTime
<1>3. InTime => BoundedStaleness
  BY DEF InTime, RequestsInTime, BoundedStaleness, Horizon
<1>4. QED
  BY <1>1, <1>2, <1>3, TypeInvariant, PTL DEF Spec

-----------------------------------------------------------------------------
(* Single flights: who leads them, what that means for the answers that    *)
(* get stored, and whose answer a request ends up with.                    *)

InFlight == {"recheck", "redrop", "sent", "answered", "finish"}

\* Only requests with the cache enabled get to a flight, each is the only
\* leader of its key, and a leader that asks the service found nothing cached.
FlightInv ==
    /\ \A k \in Keys : flight[k] # None =>
        flight[k] \in Requests /\ KeyOf(flight[k]) = k /\ pc[flight[k]] \in InFlight
                               /\ Leads(flight[k])
    /\ \A r \in Requests :
        /\ pc[r] = "wait" => flight[KeyOf(r)] # None
        /\ pc[r] \in {"drop", "enter", "wait", "recheck", "redrop", "finish"} => Leads(r)
        /\ pc[r] \in InFlight /\ Leads(r) => flight[KeyOf(r)] = r
        /\ pc[r] \in {"sent", "answered"} /\ Leads(r) => entries[KeyOf(r)] = None

\* A request in a check keeps its profile and its snapshot.
LEMMA KeyKept ==
    ASSUME NEW r \in Requests, UNCHANGED <<profile, snapshot>>
    PROVE  KeyOf(r)' = KeyOf(r) /\ Leads(r)' = Leads(r)
BY DEF KeyOf, Leads

\* Dropping a key never puts an entry into the cache.
LEMMA DeleteOnlyDrops ==
    ASSUME TypeOK, NEW dropped, DeleteEntries(dropped), NEW k \in Keys
    PROVE  entries'[k] \in {entries[k], None} /\ (k \in dropped => entries'[k] = None)
BY DEF DeleteEntries

\* The flights of the keys that a step does not end or begin stay as they are.
LEMMA FlightStep ==
    ASSUME TypeInv, FlightInv, [Next]_vars
    PROVE  FlightInv'
<1> USE DEF TypeInv, InFlight, CheckPCs
<1>1. ASSUME NEW r \in Requests, Arrive(r) PROVE FlightInv'
  <2>1. \A q \in Requests : q # r => KeyOf(q)' = KeyOf(q) /\ Leads(q)' = Leads(q)
    BY <1>1 DEF Arrive, KeyOf, Leads, TypeOK
  <2>2. pc[r] = "idle" /\ pc' = [pc EXCEPT ![r] = "arrived"] /\ UNCHANGED <<flight, entries>>
    BY <1>1 DEF Arrive, Go, cache
  <2>3. QED
    BY <2>1, <2>2 DEF TypeOK, FlightInv
<1>2. ASSUME NEW r \in Requests, Hit(r) \/ Miss(r) \/ AskDirectly(r) PROVE FlightInv'
  <2>1. \A q \in Requests : KeyOf(q)' = KeyOf(q) /\ Leads(q)' = Leads(q)
    BY <1>2, KeyKept DEF Hit, Miss, LookUp, AskDirectly
  <2>2. /\ pc[r] = "arrived" /\ pc' = [pc EXCEPT ![r] = pc'[r]]
        /\ \/ Leads(r) /\ pc'[r] \in {"apply", "drop", "enter"}
           \/ ~Leads(r) /\ pc'[r] = "sent"
        /\ UNCHANGED <<flight, entries>>
    BY <1>2 DEF Hit, Miss, LookUp, AskDirectly, Go, Leads, TypeOK, cache
  <2>3. QED
    BY <2>1, <2>2 DEF TypeOK, FlightInv
<1>3. ASSUME NEW r \in Requests, DropEntry(r) PROVE FlightInv'
  <2>1. \A q \in Requests : KeyOf(q)' = KeyOf(q) /\ Leads(q)' = Leads(q)
    BY <1>3, KeyKept DEF DropEntry
  <2>2. /\ \/ pc[r] = "drop" /\ pc' = [pc EXCEPT ![r] = "enter"]
           \/ pc[r] = "redrop" /\ pc' = [pc EXCEPT ![r] = "sent"]
        /\ DeleteEntries({KeyOf(r)}) /\ UNCHANGED flight
    BY <1>3 DEF DropEntry, Go
  <2>3. \A q \in Requests : pc[q] \in {"sent", "answered", "redrop", "drop"} => KeyOf(q) \in Keys
    BY KeyTyped DEF Stages, KeyOf
  <2>4. \A k \in Keys : entries'[k] \in {entries[k], None} /\ (k = KeyOf(r) => entries'[k] = None)
    BY <2>2, DeleteOnlyDrops
  <2>5. QED
    BY <2>1, <2>2, <2>3, <2>4 DEF TypeOK, FlightInv
<1>4. ASSUME NEW r \in Requests, EnterFlight(r) PROVE FlightInv'
  <2>1. \A q \in Requests : KeyOf(q)' = KeyOf(q) /\ Leads(q)' = Leads(q)
    BY <1>4, KeyKept DEF EnterFlight
  <2>2. pc[r] = "enter" /\ KeyOf(r) \in Keys /\ Leads(r) /\ UNCHANGED entries
    BY <1>4, KeyTyped DEF EnterFlight, Go, Stages, KeyOf, FlightInv, cache
  <2>3. \A q \in Requests : q # None
    BY NoneAssumption
  <2>4. CASE flight[KeyOf(r)] # None
    <3>1. pc' = [pc EXCEPT ![r] = "wait"] /\ UNCHANGED flight
      BY <1>4, <2>4 DEF EnterFlight, Go
    <3>2. QED
      BY <2>1, <2>2, <2>4, <3>1 DEF TypeOK, FlightInv
  <2>5. CASE flight[KeyOf(r)] = None
    <3>1. pc' = [pc EXCEPT ![r] = "recheck"] /\ flight' = [flight EXCEPT ![KeyOf(r)] = r]
      BY <1>4, <2>5 DEF EnterFlight, Go
    <3>2. \A q \in Requests : pc[q] \in InFlight \union {"wait"} => KeyOf(q) \in Keys
      BY KeyTyped DEF Stages, KeyOf
    <3>3. QED
      BY <2>1, <2>2, <2>3, <2>5, <3>1, <3>2 DEF TypeOK, FlightInv
  <2>6. QED
    BY <2>4, <2>5
<1>5. ASSUME NEW r \in Requests, Recheck(r) \/ ServiceAnswers(r) PROVE FlightInv'
  <2>1. \A q \in Requests : KeyOf(q)' = KeyOf(q) /\ Leads(q)' = Leads(q)
    BY <1>5, KeyKept DEF Recheck, ServiceAnswers, Decision
  <2>2. /\ pc' = [pc EXCEPT ![r] = pc'[r]]
        /\ \/ pc[r] = "recheck" /\ pc'[r] \in {"finish", "redrop"}
           \/ pc[r] = "recheck" /\ pc'[r] = "sent" /\ entries[KeyOf(r)] = None
           \/ pc[r] = "sent" /\ pc'[r] = "answered"
        /\ UNCHANGED <<flight, entries>>
    BY <1>5 DEF Recheck, ServiceAnswers, Decision, Go, TypeOK, cache
  <2>3. QED
    BY <2>1, <2>2 DEF TypeOK, FlightInv
<1>6. ASSUME NEW r \in Requests, CheckFails(r) PROVE FlightInv'
  <2>1. \A q \in Requests : KeyOf(q)' = KeyOf(q) /\ Leads(q)' = Leads(q)
    BY <1>6, KeyKept DEF CheckFails
  <2>2. /\ pc[r] \in {"sent", "answered"} /\ pc' = [pc EXCEPT ![r] = pc'[r]]
        /\ \/ Leads(r) /\ pc'[r] = "finish"
           \/ ~Leads(r) /\ pc'[r] = "apply"
        /\ UNCHANGED <<flight, entries>>
    BY <1>6 DEF CheckFails, Go, TypeOK, cache
  <2>3. QED
    BY <2>1, <2>2 DEF TypeOK, FlightInv
<1>7. ASSUME NEW r \in Requests, ReceiveAnswer(r) PROVE FlightInv'
  <2>1. \A q \in Requests : KeyOf(q)' = KeyOf(q) /\ Leads(q)' = Leads(q)
    BY <1>7, KeyKept DEF ReceiveAnswer
  <2>2. /\ pc[r] = "answered" /\ pc' = [pc EXCEPT ![r] = pc'[r]]
        /\ \/ Leads(r) /\ pc'[r] = "finish"
           \/ ~Leads(r) /\ pc'[r] = "apply"
        /\ UNCHANGED flight
    BY <1>7 DEF ReceiveAnswer, Go, TypeOK
  <2>3. \A q \in Requests : pc[q] \in InFlight => KeyOf(q) \in Keys
    BY KeyTyped DEF Stages, KeyOf
  <2>4. \A k \in Keys : k # KeyOf(r) \/ ~Leads(r) => entries'[k] \in {entries[k], None}
    BY <1>7, <2>2, <2>3 DEF ReceiveAnswer, StoreEntry, Go, TypeOK, cache
  <2>5. \A q \in Requests :
           pc[q] \in {"sent", "answered"} /\ Leads(q) /\ Leads(r) /\ q # r => KeyOf(q) # KeyOf(r)
    BY <2>2 DEF FlightInv
  <2>6. \A q \in Requests : pc'[q] \in {"sent", "answered"} /\ Leads(q)' => entries'[KeyOf(q)'] = None
    BY <2>1, <2>2, <2>3, <2>4, <2>5 DEF TypeOK, FlightInv
  <2>7. QED
    BY <2>1, <2>2, <2>6 DEF TypeOK, FlightInv
<1>8. ASSUME NEW r \in Requests, FinishFlight(r) PROVE FlightInv'
  <2>1. \A q \in Requests : KeyOf(q)' = KeyOf(q) /\ Leads(q)' = Leads(q)
    BY <1>8, KeyKept DEF FinishFlight
  <2>2. /\ pc[r] = "finish" /\ Leads(r) /\ KeyOf(r) \in Keys /\ flight[KeyOf(r)] = r
        /\ UNCHANGED entries
    BY <1>8, KeyTyped DEF FinishFlight, Stages, KeyOf, FlightInv, cache
  <2>3. /\ \A q \in Requests : pc'[q] = IF q \in Followers(r) \union {r} THEN "apply" ELSE pc[q]
        /\ flight' = [flight EXCEPT ![KeyOf(r)] = None]
    BY <1>8 DEF FinishFlight
  <2>4. \A q \in Requests : q \in Followers(r) <=> pc[q] = "wait" /\ KeyOf(q) = KeyOf(r)
    BY DEF Followers
  <2>5. \A q \in Requests : pc[q] \in InFlight \union {"wait"} => KeyOf(q) \in Keys
    BY KeyTyped DEF Stages, KeyOf
  <2>6. \A k \in Keys : flight'[k] = IF k = KeyOf(r) THEN None ELSE flight[k]
    BY <2>3 DEF TypeOK
  <2>7. QED
    BY <2>1, <2>2, <2>3, <2>4, <2>5, <2>6 DEF TypeOK, FlightInv
<1>9. ASSUME NEW r \in Requests, ApplyAnswer(r) PROVE FlightInv'
  <2>1. \A q \in Requests : KeyOf(q)' = KeyOf(q) /\ Leads(q)' = Leads(q)
    BY <1>9, KeyKept DEF ApplyAnswer
  <2>2. /\ pc[r] = "apply" /\ pc' = [pc EXCEPT ![r] = "done"]
        /\ UNCHANGED flight
        /\ \E dropped : DeleteEntries(dropped)
    BY <1>9 DEF ApplyAnswer, Invalidate, Go
  <2>3. \A k \in Keys : entries'[k] \in {entries[k], None}
    BY <2>2, DeleteOnlyDrops
  <2>4. \A q \in Requests : pc[q] \in InFlight => KeyOf(q) \in Keys
    BY KeyTyped DEF Stages, KeyOf
  <2>5. QED
    BY <2>1, <2>2, <2>3, <2>4 DEF TypeOK, FlightInv
<1>10. ASSUME NEW r \in Requests, AuthRouteStep(r) PROVE FlightInv'
  <2>1. \A q \in Requests : q # r => KeyOf(q)' = KeyOf(q) /\ Leads(q)' = Leads(q)
    BY <1>10 DEF AuthRouteStep, RequestAuthRoute, AuthRouteServed, AuthRouteReplied,
                 AuthRouteLost, KeyOf, Leads, TypeOK
  <2>2. /\ pc[r] \in {"idle", "authroute", "authreply"}
        /\ pc' = [pc EXCEPT ![r] = pc'[r]] /\ pc'[r] \in {"authroute", "authreply", "done"}
        /\ UNCHANGED flight
        /\ UNCHANGED entries \/ \E dropped : DeleteEntries(dropped)
    BY <1>10 DEF AuthRouteStep, RequestAuthRoute, AuthRouteServed, AuthRouteReplied,
                 AuthRouteLost, Invalidate, Go, TypeOK, cache
  <2>3. \A k \in Keys : entries'[k] \in {entries[k], None}
    BY <2>2, DeleteOnlyDrops
  <2>4. \A q \in Requests : pc[q] \in InFlight => KeyOf(q) \in Keys
    BY KeyTyped DEF Stages, KeyOf
  <2>5. QED
    BY <2>1, <2>2, <2>3, <2>4 DEF TypeOK, FlightInv
<1>11. ASSUME NEW r \in Requests, Close(r) PROVE FlightInv'
  <2>1. \A q \in Requests : q # r => KeyOf(q)' = KeyOf(q) /\ Leads(q)' = Leads(q)
    BY <1>11 DEF Close, KeyOf, Leads, TypeOK
  <2>2. pc[r] = "done" /\ pc' = [pc EXCEPT ![r] = "idle"] /\ UNCHANGED <<flight, entries>>
    BY <1>11 DEF Close, Go, cache
  <2>3. QED
    BY <2>1, <2>2 DEF TypeOK, FlightInv
<1>12. CASE PublishAuthConfig \/ ClearAuthCache \/ Tick \/ UNCHANGED vars
  <2>1. \A q \in Requests : KeyOf(q)' = KeyOf(q) /\ Leads(q)' = Leads(q)
    BY <1>12, KeyKept DEF PublishAuthConfig, ClearAuthCache, Tick, vars
  <2>2. /\ UNCHANGED <<pc, flight>>
        /\ \A k \in Keys : entries'[k] \in {entries[k], None}
    BY <1>12 DEF PublishAuthConfig, ClearAuthCache, Tick, vars, cache
  <2>3. \A q \in Requests : pc[q] \in InFlight => KeyOf(q) \in Keys
    BY KeyTyped DEF Stages, KeyOf
  <2>4. QED
    BY <2>1, <2>2, <2>3 DEF TypeOK, FlightInv
<1>13. QED
  BY <1>1, <1>2, <1>3, <1>4, <1>5, <1>6, <1>7, <1>8, <1>9, <1>10, <1>11, <1>12
  DEF Next, RequestStep

\* The flight invariant holds in every behaviour.
LEMMA FlightInvariant == Spec => [](TypeInv /\ FlightInv)
<1>1. Init => FlightInv
  BY DEF Init, FlightInv, InFlight
<1>2. TypeInv /\ FlightInv /\ [Next]_vars => FlightInv'
  BY FlightStep
<1>3. QED
  BY <1>1, <1>2, TypeInvariant, PTL DEF Spec

\* Nobody waits in a flight without a leader at work on it
\* (singleflight.Group.Do in executeAuthCheck).
THEOREM FlightsAreLed == Spec => []FlightsHaveLeaders
<1>1. FlightInv => FlightsHaveLeaders
  BY DEF FlightInv, FlightsHaveLeaders, InFlight
<1>2. QED
  BY <1>1, FlightInvariant, PTL

\* No check puts an older decision over a newer one: who stores an answer is
\* the only one that could, and found nothing cached before it asked.
THEOREM AnswersGetNewer == Spec => AnswersOnlyGetNewer
<1>1. ASSUME TypeInv, FlightInv, [Next]_vars, NEW k \in Keys,
             entries[k] # None, entries'[k] # None
      PROVE  entries'[k].answer.at >= entries[k].answer.at
  <2>1. entries'[k] = entries[k]
    <3>1. CASE UNCHANGED cache \/ ClearAuthCache
      BY <1>1, <3>1 DEF cache, ClearAuthCache
    <3>2. ASSUME NEW dropped, DeleteEntries(dropped) PROVE entries'[k] = entries[k]
      BY <1>1, <3>2, DeleteOnlyDrops DEF TypeInv
    <3>3. ASSUME NEW r \in Requests, NEW e, pc[r] = "answered", Leads(r), StoreEntry(KeyOf(r), e)
          PROVE  entries'[k] = entries[k]
      <4>1. KeyOf(r) # k
        BY <1>1, <3>3 DEF FlightInv
      <4>2. QED
        BY <1>1, <3>3, <4>1 DEF StoreEntry, TypeInv, TypeOK
    <3>4. QED
      BY <1>1, <3>1, <3>2, <3>3, CacheChanges DEF Invalidate
  <2>2. entries[k].answer.at \in Nat
    BY <1>1, TimesTyped DEF TypeInv, TypeOK
  <2>3. QED
    BY <2>1, <2>2
<1>2. TypeInv /\ FlightInv /\ [Next]_vars =>
        [\A k \in Keys : entries[k] # None /\ entries'[k] # None =>
            entries'[k].answer.at >= entries[k].answer.at]_vars
  BY <1>1
<1>3. QED
  BY <1>2, FlightInvariant, PTL DEF Spec, AnswersOnlyGetNewer

-----------------------------------------------------------------------------
(* Whose answer a request ends up with *)

\* What the service was told came from the client of a request with the same
\* jar, or with no jar and the same Authorization header.
SameClient(a, p) ==
    /\ a.ip = p.ip /\ a.view = p.view
    /\ a.cookie = p.cookie
    /\ p.cookie = None => a.auth = p.auth

\* What an entry holds is clean and was decided for the client of a request of
\* its key, and what a request carries on is what was decided for its client.
OwnAnswers ==
    /\ \A k \in Keys : entries[k] # None =>
        /\ entries[k].answer.kind # "error"
        /\ entries[k].answer.setCookie = Absent
        /\ \E p \in Profiles : CacheKey(p) = k /\ SameClient(entries[k].answer.asker, p)
    /\ \A r \in Requests :
        /\ pc[r] \in {"answered", "finish", "apply"} => SameClient(answer[r].asker, profile[r])
        /\ verdict[r] = "authenticated" =>
            answer[r].kind = "passed" /\ SameClient(answer[r].asker, profile[r])

\* Requests with the same key come from the same client: the key tells the
\* address and the view, and the identity in it which kind of identity it is.
LEMMA KeyTellsClient ==
    ASSUME NEW p \in Profiles, NEW q \in Profiles, CacheKey(p) = CacheKey(q),
           NEW a, SameClient(a, p)
    PROVE  SameClient(a, q)
<1>1. /\ RequestIdentity(p) = RequestIdentity(q) /\ p.view = q.view
      /\ ClientIPDimension(p) = ClientIPDimension(q)
  BY DEF CacheKey
<1>2. CASE p.cookie # None
  BY <1>1, <1>2 DEF RequestIdentity, ClientIPDimension, SameClient
<1>3. CASE p.cookie = None /\ p.auth # None
  BY <1>1, <1>3 DEF RequestIdentity, ClientIPDimension, SameClient
<1>4. CASE p.cookie = None /\ p.auth = None
  BY <1>1, <1>4 DEF RequestIdentity, ClientIPDimension, SameClient
<1>5. QED
  BY <1>2, <1>3, <1>4

\* A usable entry's answer is the request's own.
LEMMA UsableIsOwn ==
    ASSUME TypeOK, OwnAnswers, NEW r \in Requests, profile[r] \in Profiles, Usable(r)
    PROVE  SameClient(entries[KeyOf(r)].answer.asker, profile[r])
<1>1. KeyOf(r) \in Keys /\ entries[KeyOf(r)] # None
  BY KeyTyped DEF KeyOf, Usable
<1>2. PICK p \in Profiles : CacheKey(p) = KeyOf(r)
                            /\ SameClient(entries[KeyOf(r)].answer.asker, p)
  BY <1>1 DEF OwnAnswers
<1>3. QED
  BY <1>2, KeyTellsClient DEF KeyOf

\* Only what the service decided for a request reaches it.
LEMMA OwnAnswersStep ==
    ASSUME TypeInv, OwnAnswers, [Next]_vars
    PROVE  OwnAnswers'
<1> USE DEF TypeInv
<1> DEFINE Clean(k) ==
              /\ entries[k].answer.kind # "error"
              /\ entries[k].answer.setCookie = Absent
              /\ \E p \in Profiles : CacheKey(p) = k /\ SameClient(entries[k].answer.asker, p)
           Own(r) ==
              /\ pc[r] \in {"answered", "finish", "apply"} =>
                     SameClient(answer[r].asker, profile[r])
              /\ verdict[r] = "authenticated" =>
                     answer[r].kind = "passed" /\ SameClient(answer[r].asker, profile[r])
<1>1. \A k \in Keys : entries'[k] # None => Clean(k)'
  <2>1. ASSUME NEW k \in Keys, entries'[k] = entries[k], entries'[k] # None
        PROVE  Clean(k)'
    BY <2>1 DEF OwnAnswers
  <2>2. CASE UNCHANGED cache \/ ClearAuthCache
    BY <2>1, <2>2 DEF cache, ClearAuthCache
  <2>3. ASSUME NEW dropped, DeleteEntries(dropped), NEW k \in Keys, entries'[k] # None
        PROVE  Clean(k)'
    BY <2>1, <2>3 DEF DeleteEntries
  <2>4. ASSUME NEW r \in Requests, pc[r] = "answered", Cacheable(r),
               StoreEntry(KeyOf(r), [answer |-> answer[r],
                   expiresAt |-> clock + CacheTTL(snapshot[r], answer[r])]),
               NEW k \in Keys, entries'[k] # None
        PROVE  Clean(k)'
    <3>1. profile[r] \in Profiles /\ SameClient(answer[r].asker, profile[r])
      BY <2>4 DEF Stages, OwnAnswers
    <3>2. \/ entries'[k] = entries[k]
          \/ k = KeyOf(r) /\ entries'[k].answer = answer[r]
      BY <2>4 DEF StoreEntry, TypeOK
    <3>3. QED
      BY <2>1, <2>4, <3>1, <3>2 DEF Cacheable, KeyOf
  <2>5. QED
    BY <2>2, <2>3, <2>4, CacheChanges DEF Invalidate
<1>2. ASSUME NEW q \in Requests,
             \/ UNCHANGED <<pc[q], profile[q], answer[q], verdict[q]>>
             \/ pc'[q] \notin {"answered", "finish", "apply"} /\ verdict'[q] = "none"
      PROVE  Own(q)'
  BY <1>2 DEF OwnAnswers
<1>3. ASSUME NEW r \in Requests, Hit(r) \/ Recheck(r) PROVE \A q \in Requests : Own(q)'
  <2>1. /\ profile[r] \in Profiles /\ verdict[r] = "none"
        /\ UNCHANGED <<profile, verdict>>
    BY <1>3 DEF Hit, LookUp, Recheck, Go, Stages
  <2>2. /\ \A q \in Requests \ {r} : UNCHANGED <<pc[q], answer[q]>>
        /\ \/ pc'[r] \in {"redrop", "sent"}
           \/ Usable(r) /\ answer'[r] = entries[KeyOf(r)].answer
    BY <1>3 DEF Hit, LookUp, Recheck, Go, TypeOK
  <2>3. QED
    BY <1>2, <2>1, <2>2, UsableIsOwn
<1>4. ASSUME NEW r \in Requests, ServiceAnswers(r) \/ CheckFails(r)
      PROVE  \A q \in Requests : Own(q)'
  <2>1. verdict[r] = "none" /\ UNCHANGED <<profile, verdict>>
    BY <1>4 DEF ServiceAnswers, Decision, CheckFails, Go, Stages
  <2>2. PICK a : a.asker = Told(profile[r]) /\ answer' = [answer EXCEPT ![r] = a]
    BY <1>4 DEF ServiceAnswers, Decision, CheckFails
  <2>5. SameClient(Told(profile[r]), profile[r])
    BY DEF SameClient, Told
  <2>3. \A q \in Requests \ {r} : pc'[q] = pc[q]
    BY <1>4 DEF ServiceAnswers, Decision, CheckFails, Go, TypeOK
  <2>4. QED
    BY <1>2, <2>1, <2>2, <2>3, <2>5 DEF TypeOK
<1>5. ASSUME NEW r \in Requests, ReceiveAnswer(r) PROVE \A q \in Requests : Own(q)'
  <2>1. pc[r] = "answered" /\ verdict[r] = "none" /\ UNCHANGED <<profile, answer, verdict>>
    BY <1>5 DEF ReceiveAnswer, Go, Stages
  <2>2. \A q \in Requests \ {r} : pc'[q] = pc[q]
    BY <1>5 DEF ReceiveAnswer, Go, TypeOK
  <2>3. QED
    BY <1>2, <2>1, <2>2 DEF OwnAnswers
<1>6. ASSUME NEW r \in Requests, FinishFlight(r) PROVE \A q \in Requests : Own(q)'
  <2>1. pc[r] = "finish" /\ profile[r] \in Profiles /\ UNCHANGED <<profile, verdict>>
    BY <1>6 DEF FinishFlight, Stages
  <2>2. ASSUME NEW q \in Followers(r) \union {r} PROVE Own(q)'
    <3>1. /\ q \in Requests /\ profile[q] \in Profiles /\ KeyOf(q) = KeyOf(r)
          /\ verdict[q] = "none" /\ answer'[q] = answer[r]
      BY <1>6, <2>1 DEF FinishFlight, Followers, Stages
    <3>2. SameClient(answer[r].asker, profile[r])
      BY <2>1 DEF OwnAnswers
    <3>4. SameClient(answer[r].asker, profile[q])
      BY <2>1, <3>1, <3>2, KeyTellsClient DEF KeyOf
    <3>3. QED
      BY <1>6, <2>1, <3>1, <3>4
  <2>3. \A q \in Requests \ (Followers(r) \union {r}) : UNCHANGED <<pc[q], answer[q]>>
    BY <1>6 DEF FinishFlight
  <2>4. QED
    BY <1>2, <2>1, <2>2, <2>3
<1>7. ASSUME NEW r \in Requests, ApplyAnswer(r) PROVE \A q \in Requests : Own(q)'
  <2>1. /\ pc[r] = "apply" /\ UNCHANGED <<profile, answer>> /\ pc'[r] = "done"
        /\ verdict'[r] = Verdict(profile[r], answer[r])
        /\ \A q \in Requests \ {r} : UNCHANGED <<pc[q], verdict[q]>>
    BY <1>7 DEF ApplyAnswer, Go, TypeOK
  <2>2. verdict'[r] = "authenticated" => answer[r].kind = "passed"
    BY <2>1 DEF Verdict, CheckVerdict
  <2>3. QED
    BY <1>2, <2>1, <2>2 DEF OwnAnswers
<1>8. ASSUME NEW r \in Requests,
             \/ Arrive(r) \/ Miss(r) \/ AskDirectly(r) \/ DropEntry(r) \/ EnterFlight(r)
             \/ AuthRouteStep(r) \/ Close(r)
      PROVE  \A q \in Requests : Own(q)'
  <2>1. /\ \A q \in Requests \ {r} : UNCHANGED <<pc[q], profile[q], answer[q], verdict[q]>>
        /\ pc'[r] \notin {"answered", "finish", "apply"}
    BY <1>8 DEF Arrive, Miss, LookUp, AskDirectly, DropEntry, EnterFlight, AuthRouteStep,
                RequestAuthRoute, AuthRouteServed, AuthRouteReplied, AuthRouteLost, Close,
                Go, TypeOK
  <2>2. verdict'[r] = "none"
    BY <1>8 DEF Arrive, Miss, LookUp, AskDirectly, DropEntry, EnterFlight, AuthRouteStep,
                RequestAuthRoute, AuthRouteServed, AuthRouteReplied, AuthRouteLost, Close,
                Go, TypeOK, Stages
  <2>3. QED
    BY <1>2, <2>1, <2>2
<1>9. ASSUME PublishAuthConfig \/ ClearAuthCache \/ Tick \/ UNCHANGED vars
      PROVE  \A q \in Requests : Own(q)'
  <2>1. UNCHANGED <<pc, profile, answer, verdict>>
    BY <1>9 DEF PublishAuthConfig, ClearAuthCache, Tick, vars
  <2>2. \A q \in Requests : UNCHANGED <<pc[q], profile[q], answer[q], verdict[q]>>
    BY <2>1
  <2>3. QED
    BY <1>2, <2>2
<1> HIDE DEF Own
<1>10. \A q \in Requests : Own(q)'
  BY <1>3, <1>4, <1>5, <1>6, <1>7, <1>8, <1>9 DEF Next, RequestStep
<1>11. QED
  BY <1>1, <1>10 DEF OwnAnswers, Own

\* Clean entries and own answers are inductive together.
LEMMA OwnInvariant == Spec => [](OnlyCleanAnswersCached /\ AuthenticatedByOwnAnswer)
<1>1. Init => OwnAnswers
  BY DEF Init, OwnAnswers
<1>2. TypeInv /\ OwnAnswers /\ [Next]_vars => OwnAnswers'
  BY OwnAnswersStep
<1>3. OwnAnswers => OnlyCleanAnswersCached /\ AuthenticatedByOwnAnswer
  <2>1. ASSUME OwnAnswers, NEW k \in Keys, NEW p \in Profiles, CacheKey(p) = k,
               SameClient(entries[k].answer.asker, p)
        PROVE  /\ RequestIdentity(entries[k].answer.asker) = k.identity
               /\ entries[k].answer.asker.view = k.view
               /\ k.ip # None => entries[k].answer.asker.ip = k.ip
    BY <2>1 DEF CacheKey, SameClient, RequestIdentity, ClientIPDimension
  <2>2. QED
    BY <2>1 DEF OwnAnswers, SameClient, OnlyCleanAnswersCached, AuthenticatedByOwnAnswer
<1>4. QED
  BY <1>1, <1>2, <1>3, TypeInvariant, PTL DEF Spec

\* What an entry of the cache holds is clean and was decided for its key
\* (executeAuthCheck, buildAuthCacheLookup): no error and no Set-Cookie is
\* replayed.
THEOREM CachedAnswersAreClean == Spec => []OnlyCleanAnswersCached
BY OwnInvariant, PTL

\* Nobody is let in on an answer about somebody else, whether it comes from the
\* service, the cache or a shared flight (checkAuth).
THEOREM AnswersAreOwn == Spec => []AuthenticatedByOwnAnswer
BY OwnInvariant, PTL

=============================================================================
