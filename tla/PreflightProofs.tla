---------------------------- MODULE PreflightProofs ----------------------------
(***************************************************************************)
(* Proofs about Preflight: who passes unchecked, and how old an answer may *)
(* be, for any numbers of requests, keys and configurations.               *)
(***************************************************************************)
EXTENDS Preflight, TLAPS

-----------------------------------------------------------------------------
(* The inductive invariant *)

\* The requests whose step needs a key have one, an answer that came is there,
\* and the leader of a flight is a request for its key that may store the answer.
Stages ==
    /\ \A r \in Requests :
        /\ pc[r] \in {"lookup", "drop", "recheck", "redrop"} => Key(r) # None
        /\ pc[r] \in {"replied", "keep"} => answer[r] # None
    /\ \A k \in Keys : leader[k] # None =>
        /\ Key(leader[k]) = k /\ ttl[leader[k]] > 0
        /\ pc[leader[k]] \in {"recheck", "redrop", "ask", "sent", "replied", "keep", "failed", "finish"}

\* Nothing happened later than now, an exchange is no longer under way than its
\* timeout allows, and a failure is dealt with at once.
Times ==
    /\ failedAt <= clock /\ skipUntil <= failedAt + Cooldown
    /\ \A k \in Subjects : changed[k] <= clock
    /\ \A r \in Requests :
        /\ began[r] <= clock
        /\ pc[r] \in {"sent", "replied", "keep"} =>
              began[r] <= asked[r] /\ asked[r] <= clock /\ clock <= asked[r] + Timeout
        /\ pc[r] \in {"replied", "keep"} => asked[r] <= answer[r].said
        /\ pc[r] = "failed" \/ (pc[r] = "finish" /\ answer[r] = None) => failedAt = clock
        /\ pc[r] = "failed" => answer[r] = None

\* What the service said of a key is what it says, or was said before it changed
\* its mind.
StillTrue(a, k) == a.said <= clock /\ (a.says = policy[k] \/ a.said <= changed[k])

\* Nothing is stored for longer than the exchange took and the longest TTL.
EntriesAge ==
    \A k \in Keys : entries[k] # None =>
        StillTrue(entries[k], k) /\ entries[k].expires <= entries[k].said + Timeout + MaxTTL

\* An answer a flight ends with is not too old for anybody who waited, or was
\* asked for by the only request that gets it.
AnswersAge ==
    \A r \in Requests :
        /\ pc[r] \in {"replied", "keep", "finish"} /\ answer[r] # None => StillTrue(answer[r], Key(r))
        /\ pc[r] = "finish" /\ answer[r] # None =>
              \/ clock < answer[r].said + Timeout + MaxTTL
              \/ ttl[r] = 0 /\ began[r] <= answer[r].said

-----------------------------------------------------------------------------
(* What the steps read *)

\* The fields of an answer, and the entries and answers that are there.
LEMMA AnswerFields ==
    /\ \A a \in AnswerType : a.says \in Answers /\ a.said \in Nat /\ a.expires \in Nat /\ a.by \in Requests
    /\ \A says \in Answers, said \in Nat, expires \in Nat, by \in Requests :
          [says |-> says, said |-> said, expires |-> expires, by |-> by] \in AnswerType
    /\ None \notin AnswerType /\ None \notin Keys /\ None \notin Requests
BY PreflightAssumption DEF AnswerType

\* A profile's key is a key or None, and the budget is spent on something that is there.
LEMMA Reads ==
    ASSUME TypeOK
    PROVE  /\ \A r \in Requests : profile[r] \in Profiles /\ profile[r].key \in Subjects
                                  /\ (profile[r].key # None => profile[r].key \in Keys)
           /\ \A k \in Keys : entries[k] # None => entries[k] \in AnswerType
           /\ \A r \in Requests : answer[r] # None => answer[r] \in AnswerType
           /\ \A k \in Keys : leader[k] # None => leader[k] \in Requests
BY PreflightAssumption DEF TypeOK, Subjects

\* What is left of a budget stays a budget (Spend).
LEMMA SpendTyped ==
    ASSUME TypeOK, NEW what \in {"time", "requests", "changes", "clears"}, Spend(what)
    PROVE  left' \in [time : Nat, requests : Nat, changes : Nat, clears : Nat, profiles : SUBSET Profiles]
BY DEF TypeOK, Spend

\* The TTL of a preflight is one of the configuration's (preflightCacheTTL).
LEMMA TTLTyped == \A cfg \in Published : PreflightCacheTTL(cfg) \in 0..MaxTTL
BY PreflightAssumption DEF PreflightCacheTTL, Published, WithAuthPort

\* Only what says it is the check itself is exempt from it (SetAuthConfig).
LEMMA OnlyTheCheckIsExempt ==
    ASSUME NEW cfg \in Published, NEW p, Exempt(p, cfg)
    PROVE  p.internal
<1>1. PICK c \in Configs : cfg = WithAuthPort(c)
  BY DEF Published
<1>2. c \in [pass : 0..MaxTTL, fail : 0..MaxTTL, port : BOOLEAN]
  BY PreflightAssumption
<1>3. cfg.port = TRUE
  BY <1>1, <1>2 DEF WithAuthPort
<1>4. QED
  BY <1>3 DEF Exempt

\* What Keep stores (preflightCacheStore): the answer of this exchange, for the
\* request's TTL; the other entries are still there or gone.
LEMMA KeepStores ==
    ASSUME TypeOK, Stages, NEW r \in Requests, Keep(r)
    PROVE  /\ answer[r] \in AnswerType
           /\ answer'[r] \in AnswerType
           /\ answer'[r].says = answer[r].says /\ answer'[r].said = answer[r].said
           /\ answer'[r].expires = clock + ttl[r] /\ answer'[r].by = r
           /\ \A q \in Requests \ {r} : answer'[q] = answer[q]
           /\ answer' \in [Requests -> AnswerType \union {None}]
           /\ pc' = [pc EXCEPT ![r] = "finish"]
           /\ entries' \in [Keys -> AnswerType \union {None}]
           /\ \A k \in Keys : entries'[k] \in {entries[k], None} \/ (k = Key(r) /\ entries'[k] = answer'[r])
<1> DEFINE a == [says |-> answer[r].says, said |-> answer[r].said, expires |-> clock + ttl[r], by |-> r]
<1>1. answer[r] \in AnswerType
  BY Reads DEF Keep, Stages
<1>2. clock \in Nat /\ ttl[r] \in Nat
  BY PreflightAssumption DEF TypeOK
<1>3. a \in AnswerType
  <2>1. answer[r].says \in Answers /\ answer[r].said \in Nat
    BY <1>1, AnswerFields
  <2>2. clock + ttl[r] \in Nat
    BY <1>2
  <2>3. QED
    BY <2>1, <2>2 DEF AnswerType
<1>4. answer' = [answer EXCEPT ![r] = a]
  BY DEF Keep
<1>5. answer'[r] = a /\ \A q \in Requests \ {r} : answer'[q] = answer[q]
  BY <1>4 DEF TypeOK
<1>6. answer' \in [Requests -> AnswerType \union {None}]
  BY <1>3, <1>4 DEF TypeOK
<1>7. \/ entries' = entries
      \/ entries' = [k \in Keys |-> IF k = Key(r) THEN answer'[r]
                                    ELSE IF Fresh(k, clock) THEN entries[k] ELSE None]
  BY DEF Keep
<1>8. /\ entries' \in [Keys -> AnswerType \union {None}]
      /\ \A k \in Keys : entries'[k] \in {entries[k], None} \/ (k = Key(r) /\ entries'[k] = answer'[r])
  <2>1. entries \in [Keys -> AnswerType \union {None}]
    BY DEF TypeOK
  <2>2. answer'[r] \in AnswerType
    BY <1>3, <1>5
  <2>3. CASE entries' = entries
    BY <2>1, <2>3
  <2>4. CASE entries' = [k \in Keys |-> IF k = Key(r) THEN answer'[r]
                                       ELSE IF Fresh(k, clock) THEN entries[k] ELSE None]
    BY <2>1, <2>2, <2>4
  <2>5. QED
    BY <1>7, <2>3, <2>4
<1>9. QED
  BY <1>1, <1>3, <1>5, <1>6, <1>8 DEF Keep, Goto

-----------------------------------------------------------------------------
(* Every step keeps the invariant *)

\* Every step keeps the types.
LEMMA TypesStep ==
    ASSUME TypeOK, Stages, [Next]_vars
    PROVE  TypeOK'
<1> USE PreflightAssumption DEF TypeOK, Subjects, Key, Labels
<1>1. ASSUME NEW r \in Requests, NEW p \in left.profiles, Begin(r, p) PROVE TypeOK'
  <2>1. left' \in [time : Nat, requests : Nat, changes : Nat, clears : Nat, profiles : SUBSET Profiles]
    BY <1>1, SpendTyped DEF Begin
  <2>2. p \in Profiles /\ PreflightCacheTTL(config) \in 0..MaxTTL
    BY TTLTyped
  <2>3. QED
    BY <1>1, <2>1, <2>2 DEF Begin, Goto, service
<1>2. ASSUME NEW r \in Requests, Hit(r) PROVE TypeOK'
  <2>1. Key(r) \in Keys /\ entries[Key(r)] \in AnswerType
    BY <1>2, Reads DEF Hit, Fresh, Stages
  <2>2. entries[Key(r)].says \in Answers
    BY <2>1, AnswerFields
  <2>3. QED
    BY <1>2, <2>2 DEF Hit, Goto, service, request
<1>3. ASSUME NEW r \in Requests, Miss(r) PROVE TypeOK'
  BY <1>3 DEF Miss, Goto, service, request
<1>4. ASSUME NEW r \in Requests, DropEntry(r) PROVE TypeOK'
  BY <1>4 DEF DropEntry, Goto, service, request
<1>5. ASSUME NEW r \in Requests, Skip(r) PROVE TypeOK'
  BY <1>5 DEF Skip, Goto, service, request
<1>6. ASSUME NEW r \in Requests, Join(r) PROVE TypeOK'
  BY <1>6 DEF Join, Goto, service, request
<1>7. ASSUME NEW r \in Requests, Recheck(r) PROVE TypeOK'
  <2>1. Fresh(Key(r), clock) => entries[Key(r)] \in AnswerType
    BY <1>7, Reads DEF Recheck, Fresh, Stages
  <2>2. answer' \in [Requests -> AnswerType \union {None}]
    BY <1>7, <2>1 DEF Recheck
  <2>3. pc' \in [Requests -> Labels]
    <3>1. PICK label \in {"finish", "ask", "redrop"} : pc' = [pc EXCEPT ![r] = label]
      <4> HIDE DEF TypeOK, Labels
      <4>1. QED
        BY <1>7 DEF Recheck, Goto
    <3>2. QED
      BY <3>1
  <2>4. QED
    BY <1>7, <2>2, <2>3 DEF Recheck, service, request
<1>8. ASSUME NEW r \in Requests, Ask(r) PROVE TypeOK'
  BY <1>8 DEF Ask, Goto, service, request
<1>9. ASSUME NEW r \in Requests, ServiceAnswers(r) PROVE TypeOK'
  <2>1. policy[Key(r)] \in Answers
    BY Reads
  <2>2. [says |-> policy[Key(r)], said |-> clock, expires |-> 0, by |-> r] \in AnswerType
    BY <2>1, AnswerFields
  <2>3. answer' \in [Requests -> AnswerType \union {None}]
    BY <1>9, <2>2 DEF ServiceAnswers
  <2>4. QED
    BY <1>9, <2>3 DEF ServiceAnswers, Goto, service, request
<1>10. ASSUME NEW r \in Requests, Arrive(r) PROVE TypeOK'
  BY <1>10 DEF Arrive, Goto, service, request
<1>11. ASSUME NEW r \in Requests, ExchangeFails(r) PROVE TypeOK'
  BY <1>11 DEF ExchangeFails, Goto, service, request
<1>12. ASSUME NEW r \in Requests, Cool(r) PROVE TypeOK'
  BY <1>12 DEF Cool, Goto, service, request
<1>13. ASSUME NEW r \in Requests, Keep(r) PROVE TypeOK'
  <2>1. answer' \in [Requests -> AnswerType \union {None}] /\ entries' \in [Keys -> AnswerType \union {None}]
    BY <1>13, KeepStores
  <2>2. QED
    BY <1>13, <2>1 DEF Keep, Goto, service, request
<1>14. ASSUME NEW r \in Requests, Finish(r) PROVE TypeOK'
  <2>1. answer[r] # None => answer[r].says \in Answers
    BY Reads, AnswerFields
  <2>2. outcome' \in [Requests -> Answers \union {"none", "unchecked"}]
    BY <1>14, <2>1 DEF Finish
  <2>3. pc' \in [Requests -> Labels]
    BY <1>14 DEF Finish
  <2>4. leader' \in [Keys -> Requests \union {None}] /\ answer' \in [Requests -> AnswerType \union {None}]
    BY <1>14 DEF Finish
  <2>5. QED
    BY <1>14, <2>2, <2>3, <2>4 DEF Finish, service, request
<1>15. ASSUME NEW k \in Keys, Invalidate(k) PROVE TypeOK'
  <2>1. left' \in [time : Nat, requests : Nat, changes : Nat, clears : Nat, profiles : SUBSET Profiles]
    BY <1>15, SpendTyped DEF Invalidate
  <2>2. QED
    BY <1>15, <2>1 DEF Invalidate, service, request
<1>16. ASSUME NEW k \in Subjects, NEW says \in Answers, ServiceChangesMind(k, says) PROVE TypeOK'
  <2>1. left' \in [time : Nat, requests : Nat, changes : Nat, clears : Nat, profiles : SUBSET Profiles]
    BY <1>16, SpendTyped DEF ServiceChangesMind
  <2>2. QED
    BY <1>16, <2>1 DEF ServiceChangesMind, request
<1>17. ASSUME NEW cfg \in Configs, SetAuthConfig(cfg) PROVE TypeOK'
  <2>1. left' \in [time : Nat, requests : Nat, changes : Nat, clears : Nat, profiles : SUBSET Profiles]
    BY <1>17, SpendTyped DEF SetAuthConfig
  <2>2. config' \in Published
    BY <1>17 DEF SetAuthConfig, Published
  <2>3. QED
    BY <1>17, <2>1, <2>2 DEF SetAuthConfig, service, request
<1>18. CASE ClearAuthCache
  BY <1>18 DEF ClearAuthCache, Spend, service, request
<1>19. CASE Tick
  <2>1. left' \in [time : Nat, requests : Nat, changes : Nat, clears : Nat, profiles : SUBSET Profiles]
    BY <1>19, SpendTyped DEF Tick
  <2>2. QED
    BY <1>19, <2>1 DEF Tick, service, request
<1>20. CASE UNCHANGED vars
  BY <1>20 DEF vars, service, request
<1>21. QED
  BY <1>1, <1>2, <1>3, <1>4, <1>5, <1>6, <1>7, <1>8, <1>9, <1>10, <1>11, <1>12, <1>13, <1>14, <1>15, <1>16, <1>17, <1>18, <1>19, <1>20 DEF Next, RequestStep

\* Every step keeps the stages.
LEMMA StagesStep ==
    ASSUME TypeOK, TypeOK', Stages, [Next]_vars
    PROVE  Stages'
<1> USE PreflightAssumption DEF Stages, TypeOK, Subjects, Key, Labels
<1>1. ASSUME NEW r \in Requests, NEW p \in left.profiles, Begin(r, p) PROVE Stages'
  BY <1>1 DEF Begin, Spend, Goto, service
<1>2. ASSUME NEW r \in Requests, Hit(r) PROVE Stages'
  BY <1>2 DEF Hit, Goto, service, request
<1>3. ASSUME NEW r \in Requests, Miss(r) PROVE Stages'
  BY <1>3 DEF Miss, Goto, service, request
<1>4. ASSUME NEW r \in Requests, DropEntry(r) PROVE Stages'
  BY <1>4 DEF DropEntry, Goto, service, request
<1>5. ASSUME NEW r \in Requests, Skip(r) PROVE Stages'
  BY <1>5 DEF Skip, Goto, service, request
<1>6. ASSUME NEW r \in Requests, Join(r) PROVE Stages'
  <2>1. CASE Key(r) = None \/ ttl[r] = 0
    BY <1>6, <2>1 DEF Join, Goto, service, request
  <2>2. CASE Key(r) # None /\ ttl[r] # 0 /\ leader[Key(r)] = None
    <3>1. Key(r) \in Keys /\ ttl[r] > 0
      BY <2>2, Reads
    <3>2. leader' = [leader EXCEPT ![Key(r)] = r] /\ pc' = [pc EXCEPT ![r] = "recheck"]
      BY <1>6, <2>2 DEF Join, Goto
    <3>3. ASSUME NEW k \in Keys, leader[k] # None PROVE leader[k] # r
      BY <1>6, <3>3 DEF Join
    <3>4. QED
      BY <1>6, <2>2, <3>1, <3>2, <3>3, AnswerFields DEF Join, request
  <2>3. CASE Key(r) # None /\ ttl[r] # 0 /\ leader[Key(r)] # None
    BY <1>6, <2>3 DEF Join, Goto, service, request
  <2>4. QED
    BY <2>1, <2>2, <2>3
<1>7. ASSUME NEW r \in Requests, Recheck(r) PROVE Stages'
  <2> HIDE DEF TypeOK
  <2>1. /\ pc[r] = "recheck" /\ UNCHANGED <<leader, profile, ttl>>
        /\ pc'[r] \in {"finish", "ask", "redrop"}
    BY <1>7 DEF Recheck, Goto, request, TypeOK
  <2>2. \A q \in Requests : q # r => answer'[q] = answer[q] /\ pc'[q] = pc[q]
    BY <1>7 DEF Recheck, Goto, TypeOK
  <2>3. ASSUME NEW q \in Requests
        PROVE  /\ pc'[q] \in {"lookup", "drop", "recheck", "redrop"} => Key(q)' # None
               /\ pc'[q] \in {"replied", "keep"} => answer'[q] # None
    BY <2>1, <2>2
  <2>4. ASSUME NEW k \in Keys, leader[k] # None
        PROVE  /\ Key(leader[k])' = k /\ ttl'[leader[k]] > 0
               /\ pc'[leader[k]] \in {"recheck", "redrop", "ask", "sent", "replied", "keep", "failed", "finish"}
    <3>1. leader[k] \in Requests
      BY <2>4, Reads
    <3>2. QED
      BY <2>1, <2>2, <2>4, <3>1
  <2>5. QED
    BY <2>1, <2>3, <2>4
<1>8. ASSUME NEW r \in Requests, Ask(r) PROVE Stages'
  BY <1>8 DEF Ask, Goto, service, request
<1>9. ASSUME NEW r \in Requests, ServiceAnswers(r) PROVE Stages'
  <2>1. answer'[r] # None
    <3>1. policy[Key(r)] \in Answers
      BY Reads
    <3>2. [says |-> policy[Key(r)], said |-> clock, expires |-> 0, by |-> r] \in AnswerType
      BY <3>1, AnswerFields
    <3>3. QED
      BY <1>9, <3>2, AnswerFields DEF ServiceAnswers
  <2>2. \A q \in Requests \ {r} : answer'[q] = answer[q]
    BY <1>9 DEF ServiceAnswers
  <2>3. QED
    BY <1>9, <2>1, <2>2 DEF ServiceAnswers, Goto, service, request
<1>10. ASSUME NEW r \in Requests, Arrive(r) PROVE Stages'
  BY <1>10 DEF Arrive, Goto, service, request
<1>11. ASSUME NEW r \in Requests, ExchangeFails(r) PROVE Stages'
  BY <1>11 DEF ExchangeFails, Goto, service, request
<1>12. ASSUME NEW r \in Requests, Cool(r) PROVE Stages'
  BY <1>12 DEF Cool, Goto, service, request
<1>13. ASSUME NEW r \in Requests, Keep(r) PROVE Stages'
  BY <1>13 DEF Keep, Goto, service, request
<1>14. ASSUME NEW r \in Requests, Finish(r) PROVE Stages'
  <2> HIDE DEF TypeOK, Stages, Labels
  <2>1. /\ \A q \in Requests : pc'[q] = pc[q] \/ (pc'[q] = "done" /\ (q = r \/ pc[q] = "wait"))
        /\ pc'[r] = "done" /\ UNCHANGED <<profile, ttl>>
    BY <1>14 DEF Finish, Followers, request
  <2>2. \A q \in Requests : q # r => answer'[q] = answer[q]
    BY <1>14 DEF Finish, TypeOK
  <2>3. ASSUME NEW k \in Keys, leader'[k] # None
        PROVE  leader'[k] = leader[k] /\ leader[k] # None /\ leader[k] # r /\ leader[k] \in Requests
    <3>1. leader'[k] = IF leader[k] = r THEN None ELSE leader[k]
      BY <1>14 DEF Finish
    <3>2. leader'[k] = leader[k] /\ leader[k] # None /\ leader[k] # r
      BY <2>3, <3>1
    <3>3. QED
      BY <3>2, Reads
  <2>4. ASSUME NEW k \in Keys, leader'[k] # None
        PROVE  /\ Key(leader[k])' = k /\ ttl'[leader'[k]] > 0
               /\ pc'[leader'[k]] \in {"recheck", "redrop", "ask", "sent", "replied", "keep", "failed", "finish"}
    <3>1. leader'[k] = leader[k] /\ leader[k] # None /\ leader[k] # r /\ leader[k] \in Requests
      BY <2>3, <2>4
    <3>2. /\ Key(leader[k]) = k /\ ttl[leader[k]] > 0
          /\ pc[leader[k]] \in {"recheck", "redrop", "ask", "sent", "replied", "keep", "failed", "finish"}
      BY <3>1 DEF Stages
    <3>3. pc'[leader[k]] = pc[leader[k]]
      BY <2>1, <3>1, <3>2
    <3>4. QED
      BY <2>1, <3>1, <3>2, <3>3
  <2>5. ASSUME NEW q \in Requests
        PROVE  /\ pc'[q] \in {"lookup", "drop", "recheck", "redrop"} => Key(q)' # None
               /\ pc'[q] \in {"replied", "keep"} => answer'[q] # None
    BY <2>1, <2>2 DEF Stages
  <2>6. QED
    BY <2>4, <2>5 DEF Stages
<1>15. ASSUME NEW k \in Keys, Invalidate(k) PROVE Stages'
  BY <1>15 DEF Invalidate, Spend, service, request
<1>16. ASSUME NEW k \in Subjects, NEW says \in Answers, ServiceChangesMind(k, says) PROVE Stages'
  BY <1>16 DEF ServiceChangesMind, Spend, service, request
<1>17. ASSUME NEW cfg \in Configs, SetAuthConfig(cfg) PROVE Stages'
  BY <1>17 DEF SetAuthConfig, Spend, service, request
<1>18. CASE ClearAuthCache
  BY <1>18 DEF ClearAuthCache, Spend, service, request
<1>19. CASE Tick
  BY <1>19 DEF Tick, Spend, service, request
<1>20. CASE UNCHANGED vars
  BY <1>20 DEF vars, service, request
<1>21. QED
  BY <1>1, <1>2, <1>3, <1>4, <1>5, <1>6, <1>7, <1>8, <1>9, <1>10, <1>11, <1>12, <1>13, <1>14, <1>15, <1>16, <1>17, <1>18, <1>19, <1>20 DEF Next, RequestStep

\* Every step keeps the times.
LEMMA TimesStep ==
    ASSUME TypeOK, TypeOK', Stages, Times, [Next]_vars
    PROVE  Times'
<1> USE PreflightAssumption DEF Times, Stages, TypeOK, Subjects, Key, Labels
<1>1. ASSUME NEW r \in Requests, NEW p \in left.profiles, Begin(r, p) PROVE Times'
  BY <1>1 DEF Begin, Spend, Goto, service
<1>2. ASSUME NEW r \in Requests, Hit(r) PROVE Times'
  BY <1>2 DEF Hit, Goto, service, request
<1>3. ASSUME NEW r \in Requests, Miss(r) PROVE Times'
  BY <1>3 DEF Miss, Goto, service, request
<1>4. ASSUME NEW r \in Requests, DropEntry(r) PROVE Times'
  BY <1>4 DEF DropEntry, Goto, service, request
<1>5. ASSUME NEW r \in Requests, Skip(r) PROVE Times'
  BY <1>5 DEF Skip, Goto, service, request
<1>6. ASSUME NEW r \in Requests, Join(r) PROVE Times'
  BY <1>6 DEF Join, Goto, service, request
<1>7. ASSUME NEW r \in Requests, Recheck(r) PROVE Times'
  <2>1. /\ \/ pc' = [pc EXCEPT ![r] = "finish"] /\ answer'[r] # None
           \/ pc' = [pc EXCEPT ![r] = "ask"]
           \/ pc' = [pc EXCEPT ![r] = "redrop"]
        /\ \A q \in Requests : q # r => answer'[q] = answer[q]
    BY <1>7 DEF Recheck, Goto, Fresh
  <2>2. UNCHANGED <<clock, changed, failedAt, skipUntil, began, asked>>
    BY <1>7 DEF Recheck, service, request
  <2>3. QED
    BY <2>1, <2>2
<1>8. ASSUME NEW r \in Requests, Ask(r) PROVE Times'
  BY <1>8 DEF Ask, Goto, service, request
<1>9. ASSUME NEW r \in Requests, ServiceAnswers(r) PROVE Times'
  BY <1>9 DEF ServiceAnswers, Goto, service, request
<1>10. ASSUME NEW r \in Requests, Arrive(r) PROVE Times'
  BY <1>10 DEF Arrive, Goto, service, request
<1>11. ASSUME NEW r \in Requests, ExchangeFails(r) PROVE Times'
  BY <1>11 DEF ExchangeFails, Goto, service, request
<1>12. ASSUME NEW r \in Requests, Cool(r) PROVE Times'
  BY <1>12 DEF Cool, Goto, service, request
<1>13. ASSUME NEW r \in Requests, Keep(r) PROVE Times'
  <2>1. /\ answer'[r] # None /\ \A q \in Requests : q # r => answer'[q] = answer[q]
        /\ pc' = [pc EXCEPT ![r] = "finish"]
    BY <1>13, KeepStores, AnswerFields
  <2>2. UNCHANGED <<clock, changed, failedAt, skipUntil, began, asked>>
    BY <1>13 DEF Keep, service, request
  <2>3. QED
    BY <2>1, <2>2
<1>14. ASSUME NEW r \in Requests, Finish(r) PROVE Times'
  BY <1>14 DEF Finish, Goto, service, request
<1>15. ASSUME NEW k \in Keys, Invalidate(k) PROVE Times'
  BY <1>15 DEF Invalidate, Spend, service, request
<1>16. ASSUME NEW k \in Subjects, NEW says \in Answers, ServiceChangesMind(k, says) PROVE Times'
  BY <1>16 DEF ServiceChangesMind, Spend, service, request
<1>17. ASSUME NEW cfg \in Configs, SetAuthConfig(cfg) PROVE Times'
  BY <1>17 DEF SetAuthConfig, Spend, service, request
<1>18. CASE ClearAuthCache
  BY <1>18 DEF ClearAuthCache, Spend, service, request
<1>19. CASE Tick
  BY <1>19 DEF Tick, Spend, service, request
<1>20. CASE UNCHANGED vars
  BY <1>20 DEF vars, service, request
<1>21. QED
  BY <1>1, <1>2, <1>3, <1>4, <1>5, <1>6, <1>7, <1>8, <1>9, <1>10, <1>11, <1>12, <1>13, <1>14, <1>15, <1>16, <1>17, <1>18, <1>19, <1>20 DEF Next, RequestStep

\* Every step keeps the age of the entries.
LEMMA EntriesAgeStep ==
    ASSUME TypeOK, TypeOK', Stages, Times, EntriesAge, AnswersAge, [Next]_vars
    PROVE  EntriesAge'
<1> USE PreflightAssumption DEF EntriesAge, AnswersAge, StillTrue, Times, Stages, TypeOK, Subjects, Key, Labels
<1>1. ASSUME NEW r \in Requests, NEW p \in left.profiles, Begin(r, p) PROVE EntriesAge'
  BY <1>1 DEF Begin, Spend, Goto, service
<1>2. ASSUME NEW r \in Requests, Hit(r) PROVE EntriesAge'
  BY <1>2 DEF Hit, Goto, service, request
<1>3. ASSUME NEW r \in Requests, Miss(r) PROVE EntriesAge'
  BY <1>3 DEF Miss, Goto, service, request
<1>4. ASSUME NEW r \in Requests, DropEntry(r) PROVE EntriesAge'
  BY <1>4 DEF DropEntry, Goto, service, request
<1>5. ASSUME NEW r \in Requests, Skip(r) PROVE EntriesAge'
  BY <1>5 DEF Skip, Goto, service, request
<1>6. ASSUME NEW r \in Requests, Join(r) PROVE EntriesAge'
  BY <1>6 DEF Join, Goto, service, request
<1>7. ASSUME NEW r \in Requests, Recheck(r) PROVE EntriesAge'
  BY <1>7 DEF Recheck, Goto, service, request
<1>8. ASSUME NEW r \in Requests, Ask(r) PROVE EntriesAge'
  BY <1>8 DEF Ask, Goto, service, request
<1>9. ASSUME NEW r \in Requests, ServiceAnswers(r) PROVE EntriesAge'
  BY <1>9 DEF ServiceAnswers, Goto, service, request
<1>10. ASSUME NEW r \in Requests, Arrive(r) PROVE EntriesAge'
  BY <1>10 DEF Arrive, Goto, service, request
<1>11. ASSUME NEW r \in Requests, ExchangeFails(r) PROVE EntriesAge'
  BY <1>11 DEF ExchangeFails, Goto, service, request
<1>12. ASSUME NEW r \in Requests, Cool(r) PROVE EntriesAge'
  BY <1>12 DEF Cool, Goto, service, request
<1>13. ASSUME NEW r \in Requests, Keep(r) PROVE EntriesAge'
  <2> HIDE DEF TypeOK, Stages, Labels
  <2>1. /\ answer[r] \in AnswerType /\ answer'[r] \in AnswerType
        /\ answer'[r].says = answer[r].says /\ answer'[r].said = answer[r].said
        /\ answer'[r].expires = clock + ttl[r]
    BY <1>13, KeepStores
  <2>2. UNCHANGED <<clock, policy, changed, began, ttl, profile>> /\ pc[r] = "keep"
    BY <1>13 DEF Keep, service, request
  <2>3. answer[r] # None
    BY <2>1, AnswerFields
  <2>4. /\ answer[r].said \in Nat /\ clock \in Nat /\ asked[r] \in Nat /\ ttl[r] \in 0..MaxTTL
        /\ began[r] \in Nat
    BY <2>1, AnswerFields DEF TypeOK
  <2>5. /\ asked[r] <= answer[r].said /\ clock <= asked[r] + Timeout /\ began[r] <= asked[r]
    BY <2>2 DEF Times
  <2>6. StillTrue(answer[r], Key(r))
    BY <2>2, <2>3
  <2>7. ASSUME NEW k \in Keys, entries'[k] # None
        PROVE  StillTrue(entries[k], k)' /\ entries'[k].expires <= entries'[k].said + Timeout + MaxTTL
    <3>1. CASE entries'[k] = entries[k]
      BY <2>2, <2>7, <3>1
    <3>2. CASE k = Key(r) /\ entries'[k] = answer'[r]
      <4>1. StillTrue(entries[k], k)'
        BY <2>1, <2>2, <2>6, <3>2
      <4>2. clock + ttl[r] <= answer[r].said + Timeout + MaxTTL
        BY <2>4, <2>5
      <4>3. QED
        BY <2>1, <3>2, <4>1, <4>2
    <3>3. QED
      BY <1>13, <2>7, <3>1, <3>2, KeepStores
  <2>8. QED
    BY <2>7
<1>14. ASSUME NEW r \in Requests, Finish(r) PROVE EntriesAge'
  BY <1>14 DEF Finish, Goto, service, request
<1>15. ASSUME NEW k \in Keys, Invalidate(k) PROVE EntriesAge'
  BY <1>15 DEF Invalidate, Spend, service, request
<1>16. ASSUME NEW k \in Subjects, NEW says \in Answers, ServiceChangesMind(k, says) PROVE EntriesAge'
  BY <1>16 DEF ServiceChangesMind, Spend, service, request
<1>17. ASSUME NEW cfg \in Configs, SetAuthConfig(cfg) PROVE EntriesAge'
  BY <1>17 DEF SetAuthConfig, Spend, service, request
<1>18. CASE ClearAuthCache
  BY <1>18 DEF ClearAuthCache, Spend, service, request
<1>19. CASE Tick
  <2>1. clock' = clock + 1 /\ UNCHANGED <<policy, changed, entries, answer, began, ttl, profile, pc>>
    BY <1>19 DEF Tick, service, request
  <2>2. ASSUME NEW k \in Keys, entries[k] # None
        PROVE  entries[k].said \in Nat /\ clock \in Nat
    BY <2>2, Reads, AnswerFields
  <2>3. QED
    BY <2>1, <2>2
<1>20. CASE UNCHANGED vars
  BY <1>20 DEF vars, service, request
<1>21. QED
  BY <1>1, <1>2, <1>3, <1>4, <1>5, <1>6, <1>7, <1>8, <1>9, <1>10, <1>11, <1>12, <1>13, <1>14, <1>15, <1>16, <1>17, <1>18, <1>19, <1>20 DEF Next, RequestStep

\* Every step keeps the age of the answers.
LEMMA AnswersAgeStep ==
    ASSUME TypeOK, TypeOK', Stages, Times, EntriesAge, AnswersAge, [Next]_vars
    PROVE  AnswersAge'
<1> USE PreflightAssumption DEF EntriesAge, AnswersAge, StillTrue, Times, Stages, TypeOK, Subjects, Key, Labels
<1>1. ASSUME NEW r \in Requests, NEW p \in left.profiles, Begin(r, p) PROVE AnswersAge'
  BY <1>1 DEF Begin, Spend, Goto, service
<1>2. ASSUME NEW r \in Requests, Hit(r) PROVE AnswersAge'
  <2> HIDE DEF TypeOK, Labels, Stages, EntriesAge, Times
  <2>1. /\ UNCHANGED <<clock, policy, changed, began, ttl, profile, answer>>
        /\ pc'[r] = "done" /\ \A q \in Requests : q # r => pc'[q] = pc[q]
    BY <1>2 DEF Hit, Goto, service, request, TypeOK
  <2>2. QED
    BY <2>1
<1>3. ASSUME NEW r \in Requests, Miss(r) PROVE AnswersAge'
  BY <1>3 DEF Miss, Goto, service, request
<1>4. ASSUME NEW r \in Requests, DropEntry(r) PROVE AnswersAge'
  <2> HIDE DEF TypeOK, Labels, Stages, EntriesAge, Times
  <2>1. /\ UNCHANGED <<clock, policy, changed, began, ttl, profile, answer>>
        /\ pc'[r] \in {"cooldown", "ask"} /\ \A q \in Requests : q # r => pc'[q] = pc[q]
    BY <1>4 DEF DropEntry, Goto, service, request, TypeOK
  <2>2. QED
    BY <2>1
<1>5. ASSUME NEW r \in Requests, Skip(r) PROVE AnswersAge'
  BY <1>5 DEF Skip, Goto, service, request
<1>6. ASSUME NEW r \in Requests, Join(r) PROVE AnswersAge'
  BY <1>6 DEF Join, Goto, service, request
<1>7. ASSUME NEW r \in Requests, Recheck(r) PROVE AnswersAge'
  <2> HIDE DEF TypeOK, Labels
  <2>1. UNCHANGED <<clock, policy, changed, began, ttl, profile>> /\ pc[r] = "recheck"
    BY <1>7 DEF Recheck, service, request
  <2>2. \A q \in Requests : q # r => answer'[q] = answer[q] /\ pc'[q] = pc[q]
    BY <1>7 DEF Recheck, Goto, TypeOK
  <2>3. CASE Fresh(Key(r), clock) /\ ~BypassNegative(r, entries[Key(r)])
    <3>1. answer'[r] = entries[Key(r)] /\ entries[Key(r)] # None /\ entries[Key(r)].expires > clock
      BY <1>7, <2>3 DEF Recheck, Fresh, TypeOK
    <3>2. Key(r) \in Keys
      BY <2>1, Reads
    <3>3. entries[Key(r)] \in AnswerType /\ clock \in Nat
      BY <3>1, <3>2, Reads DEF TypeOK
    <3>4. entries[Key(r)].said \in Nat /\ entries[Key(r)].expires \in Nat
      BY <3>3, AnswerFields
    <3>5. StillTrue(answer'[r], Key(r)) /\ clock < answer'[r].said + Timeout + MaxTTL
      BY <3>1, <3>2, <3>3, <3>4
    <3>6. StillTrue(answer[r], Key(r))' /\ clock' < answer'[r].said + Timeout + MaxTTL
      BY <2>1, <3>5
    <3>7. QED
      BY <2>1, <2>2, <3>6
  <2>4. CASE ~(Fresh(Key(r), clock) /\ ~BypassNegative(r, entries[Key(r)]))
    <3>1. pc'[r] \in {"ask", "redrop"}
      BY <1>7, <2>4 DEF Recheck, Goto, TypeOK
    <3>2. QED
      BY <2>1, <2>2, <3>1
  <2>5. QED
    BY <2>3, <2>4
<1>8. ASSUME NEW r \in Requests, Ask(r) PROVE AnswersAge'
  BY <1>8 DEF Ask, Goto, service, request
<1>9. ASSUME NEW r \in Requests, ServiceAnswers(r) PROVE AnswersAge'
  BY <1>9 DEF ServiceAnswers, Goto, service, request
<1>10. ASSUME NEW r \in Requests, Arrive(r) PROVE AnswersAge'
  <2> HIDE DEF TypeOK, Labels, Stages, EntriesAge, Times
  <2>1. /\ UNCHANGED <<clock, policy, changed, began, ttl, profile, answer>>
        /\ pc[r] = "replied" /\ pc'[r] = "keep" /\ \A q \in Requests : q # r => pc'[q] = pc[q]
    BY <1>10 DEF Arrive, Goto, service, request, TypeOK
  <2>2. QED
    BY <2>1
<1>11. ASSUME NEW r \in Requests, ExchangeFails(r) PROVE AnswersAge'
  BY <1>11 DEF ExchangeFails, Goto, service, request
<1>12. ASSUME NEW r \in Requests, Cool(r) PROVE AnswersAge'
  <2>1. pc[r] = "failed" /\ UNCHANGED <<clock, policy, changed, began, ttl, profile, answer>>
    BY <1>12 DEF Cool, service, request
  <2>2. \A q \in Requests : q # r => pc'[q] = pc[q]
    BY <1>12 DEF Cool, Goto
  <2>3. answer[r] = None
    BY <2>1
  <2>4. QED
    BY <2>1, <2>2, <2>3
<1>13. ASSUME NEW r \in Requests, Keep(r) PROVE AnswersAge'
  <2> HIDE DEF TypeOK, Stages, Labels
  <2>1. /\ answer[r] \in AnswerType /\ answer'[r] \in AnswerType
        /\ answer'[r].says = answer[r].says /\ answer'[r].said = answer[r].said
        /\ answer'[r].expires = clock + ttl[r]
    BY <1>13, KeepStores
  <2>2. UNCHANGED <<clock, policy, changed, began, ttl, profile>> /\ pc[r] = "keep"
    BY <1>13 DEF Keep, service, request
  <2>3. answer[r] # None
    BY <2>1, AnswerFields
  <2>4. /\ answer[r].said \in Nat /\ clock \in Nat /\ asked[r] \in Nat /\ ttl[r] \in 0..MaxTTL
        /\ began[r] \in Nat
    BY <2>1, AnswerFields DEF TypeOK
  <2>5. /\ asked[r] <= answer[r].said /\ clock <= asked[r] + Timeout /\ began[r] <= asked[r]
    BY <2>2 DEF Times
  <2>6. \A q \in Requests : q # r => answer'[q] = answer[q] /\ pc'[q] = pc[q]
    BY <1>13, KeepStores DEF TypeOK
  <2>7. StillTrue(answer[r], Key(r))
    BY <2>2, <2>3
  <2>8. StillTrue(answer[r], Key(r))'
    BY <2>1, <2>2, <2>7
  <2>9. \/ clock < answer[r].said + Timeout + MaxTTL
        \/ ttl[r] = 0 /\ began[r] <= answer[r].said
    BY <2>4, <2>5
  <2>10. QED
    BY <2>1, <2>2, <2>6, <2>8, <2>9
<1>14. ASSUME NEW r \in Requests, Finish(r) PROVE AnswersAge'
  <2> HIDE DEF TypeOK, Labels, Stages, EntriesAge, Times
  <2>1. UNCHANGED <<clock, policy, changed, began, ttl, profile>>
    BY <1>14 DEF Finish, service, request
  <2>2. \A q \in Requests : pc'[q] # "done" => q # r /\ pc'[q] = pc[q] /\ answer'[q] = answer[q]
    BY <1>14 DEF Finish, TypeOK
  <2>3. QED
    BY <2>1, <2>2
<1>15. ASSUME NEW k \in Keys, Invalidate(k) PROVE AnswersAge'
  BY <1>15 DEF Invalidate, Spend, service, request
<1>16. ASSUME NEW k \in Subjects, NEW says \in Answers, ServiceChangesMind(k, says) PROVE AnswersAge'
  BY <1>16 DEF ServiceChangesMind, Spend, service, request
<1>17. ASSUME NEW cfg \in Configs, SetAuthConfig(cfg) PROVE AnswersAge'
  BY <1>17 DEF SetAuthConfig, Spend, service, request
<1>18. CASE ClearAuthCache
  BY <1>18 DEF ClearAuthCache, Spend, service, request
<1>19. CASE Tick
  <2> HIDE DEF TypeOK, Labels, Stages, EntriesAge, Times
  <2>1. clock' = clock + 1 /\ UNCHANGED <<policy, changed, entries, answer, began, ttl, profile, pc>>
    BY <1>19 DEF Tick, service, request
  <2>2. ASSUME NEW q \in Requests, answer[q] # None
        PROVE  answer[q].said \in Nat /\ clock \in Nat
    BY <2>2, Reads, AnswerFields DEF TypeOK
  <2>3. \A q \in Requests : pc[q] # "finish"
    BY <1>19 DEF Tick
  <2>4. QED
    BY <2>1, <2>2, <2>3
<1>20. CASE UNCHANGED vars
  BY <1>20 DEF vars, service, request
<1>21. QED
  BY <1>1, <1>2, <1>3, <1>4, <1>5, <1>6, <1>7, <1>8, <1>9, <1>10, <1>11, <1>12, <1>13, <1>14, <1>15, <1>16, <1>17, <1>18, <1>19, <1>20 DEF Next, RequestStep

-----------------------------------------------------------------------------
(* The invariant holds *)

\* All of it, beside the types.
Ages == Stages /\ Times /\ EntriesAge /\ AnswersAge

\* It holds when the program starts.
LEMMA InvariantInit == Init => TypeOK /\ Ages
<1> SUFFICES ASSUME Init PROVE TypeOK /\ Ages
  OBVIOUS
<1> USE PreflightAssumption DEF Init
<1>1. (CHOOSE p \in Profiles : TRUE) \in Profiles
  OBVIOUS
<1>2. TypeOK
  BY <1>1 DEF TypeOK, Subjects, Labels
<1>3. Stages /\ EntriesAge /\ AnswersAge
  BY DEF Stages, EntriesAge, AnswersAge
<1>4. Times
  BY DEF Times
<1>5. QED
  BY <1>2, <1>3, <1>4 DEF Ages

\* It holds always.
LEMMA Invariant == Spec => [](TypeOK /\ Ages)
<1>1. TypeOK /\ Ages /\ [Next]_vars => (TypeOK /\ Ages)'
  BY TypesStep, StagesStep, TimesStep, EntriesAgeStep, AnswersAgeStep DEF Ages
<1>2. QED
  BY InvariantInit, <1>1, PTL DEF Spec

-----------------------------------------------------------------------------
(* What requests get *)

\* What Finish gives: nobody's request but those it serves is touched, and those
\* it serves wait for its key, or are the flight itself.
LEMMA FinishServes ==
    ASSUME TypeOK, Ages, NEW r \in Requests, Finish(r), NEW q \in Requests, pc'[q] = "done"
    PROVE  \/ pc[q] = "done" /\ outcome'[q] = outcome[q]
           \/ /\ Key(q) = Key(r) /\ (q # r => ttl[r] # 0)
              /\ outcome'[q] = IF answer[r] = None THEN "unchecked" ELSE answer[r].says
<1>1. CASE q = r
  BY <1>1 DEF Finish
<1>2. CASE q # r /\ Key(r) # None /\ leader[Key(r)] = r /\ q \in Followers(r)
  <2>1. Key(r) \in Keys /\ leader[Key(r)] # None
    BY <1>2, Reads, AnswerFields DEF Key
  <2>2. ttl[r] # 0
    BY <1>2, <2>1 DEF Ages, Stages
  <2>3. QED
    BY <1>2, <2>2 DEF Finish, Followers
<1>3. CASE q # r /\ ~(Key(r) # None /\ leader[Key(r)] = r /\ q \in Followers(r))
  BY <1>3 DEF Finish
<1>4. QED
  BY <1>1, <1>2, <1>3

\* No step lets a request pass unchecked out of time.
LEMMA UncheckedStep ==
    ASSUME TypeOK, TypeOK', Ages, UncheckedOnlyAfterFailure, [Next]_vars
    PROVE  UncheckedOnlyAfterFailure'
<1> USE PreflightAssumption DEF Subjects, Key, TypeOK, Labels, Ages, Times, UncheckedOnlyAfterFailure, Unchecked
<1>1. ASSUME NEW r \in Requests, NEW p \in left.profiles, Begin(r, p) PROVE UncheckedOnlyAfterFailure'
  <2>1. Exempt(p, config) => p.internal
    BY OnlyTheCheckIsExempt
  <2>2. QED
    BY <1>1, <2>1 DEF Begin, Spend, Goto, service
<1>2. ASSUME NEW r \in Requests, Hit(r) PROVE UncheckedOnlyAfterFailure'
  <2>1. Key(r) \in Keys /\ entries[Key(r)] \in AnswerType
    BY <1>2, Reads DEF Hit, Fresh, Stages
  <2>2. entries[Key(r)].says \in Answers
    BY <2>1, AnswerFields
  <2>3. entries[Key(r)].says # "unchecked"
    BY <2>2
  <2>4. QED
    BY <1>2, <2>3 DEF Hit, Goto, service, request
<1>3. ASSUME NEW r \in Requests, Miss(r) PROVE UncheckedOnlyAfterFailure'
  BY <1>3 DEF Miss, Goto, service, request
<1>4. ASSUME NEW r \in Requests, DropEntry(r) PROVE UncheckedOnlyAfterFailure'
  BY <1>4 DEF DropEntry, Goto, service, request
<1>5. ASSUME NEW r \in Requests, Skip(r) PROVE UncheckedOnlyAfterFailure'
  BY <1>5 DEF Skip, Goto, service, request
<1>6. ASSUME NEW r \in Requests, Join(r) PROVE UncheckedOnlyAfterFailure'
  BY <1>6 DEF Join, Goto, service, request
<1>7. ASSUME NEW r \in Requests, Recheck(r) PROVE UncheckedOnlyAfterFailure'
  BY <1>7 DEF Recheck, Goto, service, request
<1>8. ASSUME NEW r \in Requests, Ask(r) PROVE UncheckedOnlyAfterFailure'
  BY <1>8 DEF Ask, Goto, service, request
<1>9. ASSUME NEW r \in Requests, ServiceAnswers(r) PROVE UncheckedOnlyAfterFailure'
  BY <1>9 DEF ServiceAnswers, Goto, service, request
<1>10. ASSUME NEW r \in Requests, Arrive(r) PROVE UncheckedOnlyAfterFailure'
  BY <1>10 DEF Arrive, Goto, service, request
<1>11. ASSUME NEW r \in Requests, ExchangeFails(r) PROVE UncheckedOnlyAfterFailure'
  BY <1>11 DEF ExchangeFails, Goto, service, request
<1>12. ASSUME NEW r \in Requests, Cool(r) PROVE UncheckedOnlyAfterFailure'
  BY <1>12 DEF Cool, Goto, service, request
<1>13. ASSUME NEW r \in Requests, Keep(r) PROVE UncheckedOnlyAfterFailure'
  BY <1>13 DEF Keep, Goto, service, request
<1>14. ASSUME NEW r \in Requests, Finish(r) PROVE UncheckedOnlyAfterFailure'
  <2> HIDE DEF TypeOK, Labels, Ages
  <2>1. UNCHANGED <<clock, policy, changed, failedAt, began, ttl, profile>> /\ pc[r] = "finish"
    BY <1>14 DEF Finish, service, request
  <2>2. ASSUME NEW q \in Requests, pc'[q] = "done", outcome'[q] = "unchecked"
        PROVE  profile[q].internal \/ began[q] < failedAt + Cooldown
    <3>1. CASE pc[q] = "done" /\ outcome'[q] = outcome[q]
      BY <2>2, <3>1
    <3>2. CASE outcome'[q] = IF answer[r] = None THEN "unchecked" ELSE answer[r].says
      <4>1. answer[r] = None
        <5>1. answer[r] # None => answer[r].says \in Answers
          BY Reads, AnswerFields
        <5>2. answer[r] # None => answer[r].says # "unchecked"
          BY <5>1
        <5>3. QED
          BY <2>2, <3>2, <5>2
      <4>2. failedAt = clock /\ began[q] <= clock
        BY <2>1, <4>1 DEF Ages
      <4>3. began[q] \in Nat /\ failedAt \in Int
        BY DEF TypeOK
      <4>4. QED
        BY <4>2, <4>3
    <3>3. QED
      BY <1>14, <2>2, <3>1, <3>2, FinishServes
  <2>3. QED
    BY <2>1, <2>2
<1>15. ASSUME NEW k \in Keys, Invalidate(k) PROVE UncheckedOnlyAfterFailure'
  BY <1>15 DEF Invalidate, Spend, service, request
<1>16. ASSUME NEW k \in Subjects, NEW says \in Answers, ServiceChangesMind(k, says) PROVE UncheckedOnlyAfterFailure'
  BY <1>16 DEF ServiceChangesMind, Spend, service, request
<1>17. ASSUME NEW cfg \in Configs, SetAuthConfig(cfg) PROVE UncheckedOnlyAfterFailure'
  BY <1>17 DEF SetAuthConfig, Spend, service, request
<1>18. CASE ClearAuthCache
  BY <1>18 DEF ClearAuthCache, Spend, service, request
<1>19. CASE Tick
  BY <1>19 DEF Tick, Spend, service, request
<1>20. CASE UNCHANGED vars
  BY <1>20 DEF vars, service, request
<1>21. QED
  BY <1>1, <1>2, <1>3, <1>4, <1>5, <1>6, <1>7, <1>8, <1>9, <1>10, <1>11, <1>12, <1>13, <1>14, <1>15, <1>16, <1>17, <1>18, <1>19, <1>20 DEF Next, RequestStep

\* Every step keeps what took effect in effect.
LEMMA PolicyStep ==
    ASSUME TypeOK, TypeOK', Ages, PolicyTakesEffect, [Next]_vars
    PROVE  PolicyTakesEffect'
<1> USE PreflightAssumption DEF Subjects, Key, TypeOK, Labels, Ages, Times, PolicyTakesEffect, EntriesAge, AnswersAge, StillTrue, Stages
<1>1. ASSUME NEW r \in Requests, NEW p \in left.profiles, Begin(r, p) PROVE PolicyTakesEffect'
  <2>1. Exempt(p, config) => p.internal
    BY OnlyTheCheckIsExempt
  <2>2. QED
    BY <1>1, <2>1 DEF Begin, Spend, Goto, service
<1>2. ASSUME NEW r \in Requests, Hit(r) PROVE PolicyTakesEffect'
  <2> HIDE DEF TypeOK, Labels
  <2>1. Key(r) \in Keys /\ entries[Key(r)] # None /\ entries[Key(r)] \in AnswerType
        /\ entries[Key(r)].expires > began[r]
    BY <1>2, Reads DEF Hit, Fresh
  <2>2. /\ entries[Key(r)].said \in Nat /\ entries[Key(r)].expires \in Nat
        /\ began[r] \in Nat /\ changed[Key(r)] \in Nat
    BY <2>1, AnswerFields, Reads DEF TypeOK
  <2>3. changed[Key(r)] + MaxTTL + Timeout <= began[r] => entries[Key(r)].says = policy[Key(r)]
    BY <2>1, <2>2
  <2>4. /\ UNCHANGED <<policy, changed, failedAt, began, profile>>
        /\ outcome'[r] = entries[Key(r)].says
        /\ \A q \in Requests : q # r => pc'[q] = pc[q] /\ outcome'[q] = outcome[q]
    BY <1>2 DEF Hit, Goto, service, request, TypeOK
  <2>5. QED
    BY <2>3, <2>4
<1>3. ASSUME NEW r \in Requests, Miss(r) PROVE PolicyTakesEffect'
  BY <1>3 DEF Miss, Goto, service, request
<1>4. ASSUME NEW r \in Requests, DropEntry(r) PROVE PolicyTakesEffect'
  BY <1>4 DEF DropEntry, Goto, service, request
<1>5. ASSUME NEW r \in Requests, Skip(r) PROVE PolicyTakesEffect'
  BY <1>5 DEF Skip, Goto, service, request
<1>6. ASSUME NEW r \in Requests, Join(r) PROVE PolicyTakesEffect'
  BY <1>6 DEF Join, Goto, service, request
<1>7. ASSUME NEW r \in Requests, Recheck(r) PROVE PolicyTakesEffect'
  BY <1>7 DEF Recheck, Goto, service, request
<1>8. ASSUME NEW r \in Requests, Ask(r) PROVE PolicyTakesEffect'
  BY <1>8 DEF Ask, Goto, service, request
<1>9. ASSUME NEW r \in Requests, ServiceAnswers(r) PROVE PolicyTakesEffect'
  BY <1>9 DEF ServiceAnswers, Goto, service, request
<1>10. ASSUME NEW r \in Requests, Arrive(r) PROVE PolicyTakesEffect'
  BY <1>10 DEF Arrive, Goto, service, request
<1>11. ASSUME NEW r \in Requests, ExchangeFails(r) PROVE PolicyTakesEffect'
  BY <1>11 DEF ExchangeFails, Goto, service, request
<1>12. ASSUME NEW r \in Requests, Cool(r) PROVE PolicyTakesEffect'
  BY <1>12 DEF Cool, Goto, service, request
<1>13. ASSUME NEW r \in Requests, Keep(r) PROVE PolicyTakesEffect'
  BY <1>13 DEF Keep, Goto, service, request
<1>14. ASSUME NEW r \in Requests, Finish(r) PROVE PolicyTakesEffect'
  <2> HIDE DEF TypeOK, Labels, Stages, EntriesAge, Ages
  <2>1. UNCHANGED <<clock, policy, changed, failedAt, began, ttl, profile>> /\ pc[r] = "finish"
    BY <1>14 DEF Finish, service, request
  <2>2. ASSUME NEW q \in Requests, pc'[q] = "done", ~profile[q].internal,
               changed[Key(q)] + MaxTTL + Timeout <= began[q], failedAt + Cooldown <= began[q]
        PROVE  outcome'[q] = policy[Key(q)]
    <3>1. CASE pc[q] = "done" /\ outcome'[q] = outcome[q]
      BY <2>2, <3>1
    <3>2. CASE /\ Key(q) = Key(r) /\ (q # r => ttl[r] # 0)
               /\ outcome'[q] = IF answer[r] = None THEN "unchecked" ELSE answer[r].says
      <4>1. /\ began[q] \in Nat /\ began[r] \in Nat /\ clock \in Nat /\ failedAt \in Int
            /\ changed[Key(q)] \in Nat
        BY Reads DEF TypeOK
      <4>2. began[q] <= clock
        BY DEF Ages
      <4>3. answer[r] # None
        <5>1. answer[r] = None => failedAt = clock
          BY <2>1 DEF Ages
        <5>2. QED
          BY <2>2, <4>1, <4>2, <5>1
      <4>4. answer[r].said \in Nat
        BY <4>3, Reads, AnswerFields
      <4>5. StillTrue(answer[r], Key(r))
        BY <2>1, <4>3 DEF Ages
      <4>6. \/ clock < answer[r].said + Timeout + MaxTTL
            \/ ttl[r] = 0 /\ began[r] <= answer[r].said
        BY <2>1, <4>3 DEF Ages
      <4>7. ~(answer[r].said <= changed[Key(r)])
        <5>1. CASE clock < answer[r].said + Timeout + MaxTTL
          BY <2>2, <3>2, <4>1, <4>2, <4>4, <5>1
        <5>2. CASE ttl[r] = 0 /\ began[r] <= answer[r].said
          BY <2>2, <3>2, <4>1, <4>4, <5>2
        <5>3. QED
          BY <4>6, <5>1, <5>2
      <4>8. QED
        BY <3>2, <4>3, <4>5, <4>7
    <3>3. QED
      BY <1>14, <2>2, <3>1, <3>2, FinishServes
  <2>3. QED
    BY <2>1, <2>2
<1>15. ASSUME NEW k \in Keys, Invalidate(k) PROVE PolicyTakesEffect'
  BY <1>15 DEF Invalidate, Spend, service, request
<1>16. ASSUME NEW k \in Subjects, NEW says \in Answers, ServiceChangesMind(k, says) PROVE PolicyTakesEffect'
  BY <1>16 DEF ServiceChangesMind, Spend, service, request
<1>17. ASSUME NEW cfg \in Configs, SetAuthConfig(cfg) PROVE PolicyTakesEffect'
  BY <1>17 DEF SetAuthConfig, Spend, service, request
<1>18. CASE ClearAuthCache
  BY <1>18 DEF ClearAuthCache, Spend, service, request
<1>19. CASE Tick
  BY <1>19 DEF Tick, Spend, service, request
<1>20. CASE UNCHANGED vars
  BY <1>20 DEF vars, service, request
<1>21. QED
  BY <1>1, <1>2, <1>3, <1>4, <1>5, <1>6, <1>7, <1>8, <1>9, <1>10, <1>11, <1>12, <1>13, <1>14, <1>15, <1>16, <1>17, <1>18, <1>19, <1>20 DEF Next, RequestStep

\* An FN app whose flight ends with a refusal has asked for it.
AppsAsked ==
    \A r \in Requests :
        /\ pc[r] = "finish" /\ profile[r].app /\ answer[r] # None /\ answer[r].says \in Refusals
        => AskedItself(r)

\* Every step keeps it so.
LEMMA AppsStep ==
    ASSUME TypeOK, TypeOK', Ages, AppsAsked, [Next]_vars
    PROVE  AppsAsked'
<1> USE PreflightAssumption DEF Subjects, Key, TypeOK, Labels, Ages, Times, AppsAsked, AskedItself, BypassNegative
<1>1. ASSUME NEW r \in Requests, NEW p \in left.profiles, Begin(r, p) PROVE AppsAsked'
  BY <1>1 DEF Begin, Spend, Goto, service
<1>2. ASSUME NEW r \in Requests, Hit(r) PROVE AppsAsked'
  BY <1>2 DEF Hit, Goto, service, request
<1>3. ASSUME NEW r \in Requests, Miss(r) PROVE AppsAsked'
  BY <1>3 DEF Miss, Goto, service, request
<1>4. ASSUME NEW r \in Requests, DropEntry(r) PROVE AppsAsked'
  BY <1>4 DEF DropEntry, Goto, service, request
<1>5. ASSUME NEW r \in Requests, Skip(r) PROVE AppsAsked'
  BY <1>5 DEF Skip, Goto, service, request
<1>6. ASSUME NEW r \in Requests, Join(r) PROVE AppsAsked'
  BY <1>6 DEF Join, Goto, service, request
<1>7. ASSUME NEW r \in Requests, Recheck(r) PROVE AppsAsked'
  BY <1>7 DEF Recheck, Goto, service, request
<1>8. ASSUME NEW r \in Requests, Ask(r) PROVE AppsAsked'
  BY <1>8 DEF Ask, Goto, service, request
<1>9. ASSUME NEW r \in Requests, ServiceAnswers(r) PROVE AppsAsked'
  BY <1>9 DEF ServiceAnswers, Goto, service, request
<1>10. ASSUME NEW r \in Requests, Arrive(r) PROVE AppsAsked'
  BY <1>10 DEF Arrive, Goto, service, request
<1>11. ASSUME NEW r \in Requests, ExchangeFails(r) PROVE AppsAsked'
  BY <1>11 DEF ExchangeFails, Goto, service, request
<1>12. ASSUME NEW r \in Requests, Cool(r) PROVE AppsAsked'
  BY <1>12 DEF Cool, Goto, service, request
<1>13. ASSUME NEW r \in Requests, Keep(r) PROVE AppsAsked'
  <2> HIDE DEF TypeOK, Labels, Ages
  <2>1. /\ answer'[r].by = r /\ answer'[r].said = answer[r].said
        /\ \A q \in Requests : q # r => answer'[q] = answer[q] /\ pc'[q] = pc[q]
    BY <1>13, KeepStores DEF TypeOK, Ages
  <2>2. began[r] <= answer[r].said
    <3>1. answer[r] \in AnswerType
      BY <1>13, KeepStores DEF Ages
    <3>2. answer[r].said \in Nat /\ asked[r] \in Nat /\ began[r] \in Nat
      BY <3>1, AnswerFields DEF TypeOK
    <3>3. began[r] <= asked[r] /\ asked[r] <= answer[r].said
      BY <1>13 DEF Keep, Ages
    <3>4. QED
      BY <3>2, <3>3
  <2>3. UNCHANGED <<began, profile>>
    BY <1>13 DEF Keep, request
  <2>4. QED
    BY <2>1, <2>2, <2>3
<1>14. ASSUME NEW r \in Requests, Finish(r) PROVE AppsAsked'
  BY <1>14 DEF Finish, Goto, service, request
<1>15. ASSUME NEW k \in Keys, Invalidate(k) PROVE AppsAsked'
  BY <1>15 DEF Invalidate, Spend, service, request
<1>16. ASSUME NEW k \in Subjects, NEW says \in Answers, ServiceChangesMind(k, says) PROVE AppsAsked'
  BY <1>16 DEF ServiceChangesMind, Spend, service, request
<1>17. ASSUME NEW cfg \in Configs, SetAuthConfig(cfg) PROVE AppsAsked'
  BY <1>17 DEF SetAuthConfig, Spend, service, request
<1>18. CASE ClearAuthCache
  BY <1>18 DEF ClearAuthCache, Spend, service, request
<1>19. CASE Tick
  BY <1>19 DEF Tick, Spend, service, request
<1>20. CASE UNCHANGED vars
  BY <1>20 DEF vars, service, request
<1>21. QED
  BY <1>1, <1>2, <1>3, <1>4, <1>5, <1>6, <1>7, <1>8, <1>9, <1>10, <1>11, <1>12, <1>13, <1>14, <1>15, <1>16, <1>17, <1>18, <1>19, <1>20 DEF Next, RequestStep

\* Who waited for a flight that ends waited for the leader that ends it.
LEMMA FinishTells ==
    ASSUME NEW r \in Requests, Finish(r), NEW q \in Requests, pc[q] # "done", pc'[q] = "done"
    PROVE  /\ q # r => pc[q] = "wait" /\ leader[Key(q)] = r
           /\ outcome'[q] = IF answer[r] = None THEN "unchecked" ELSE answer[r].says
           /\ pc[r] = "finish"
BY DEF Finish, Followers

\* A step that refuses an FN app ends a flight whose leader asked, unless the
\* leader is no app.
LEMMA RefusalsAreAsked ==
    ASSUME TypeOK, Ages, AppsAsked, Next, NEW q \in Requests, pc[q] # "done", pc'[q] = "done",
           profile[q].app, outcome'[q] \in Refusals, profile[Teller(q)].app
    PROVE  AskedItself(Teller(q))
<1>1. ASSUME NEW r \in Requests, Finish(r) PROVE AskedItself(Teller(q))
  <2>1. /\ q # r => pc[q] = "wait" /\ leader[Key(q)] = r
        /\ outcome'[q] = IF answer[r] = None THEN "unchecked" ELSE answer[r].says
        /\ pc[r] = "finish"
    BY <1>1, FinishTells
  <2>2. Teller(q) = r
    BY <2>1 DEF Teller
  <2>3. answer[r] # None /\ answer[r].says \in Refusals
    BY <2>1 DEF Refusals
  <2>4. QED
    BY <2>1, <2>2, <2>3 DEF AppsAsked
<1>2. ASSUME NEW r \in Requests, Hit(r) PROVE FALSE
  <2>1. q = r /\ outcome'[r] = entries[Key(r)].says /\ ~BypassNegative(r, entries[Key(r)])
    BY <1>2 DEF Hit, Goto, TypeOK
  <2>2. QED
    BY <2>1 DEF BypassNegative
<1>3. ASSUME NEW r \in Requests, Skip(r) PROVE FALSE
  <2>1. q = r /\ outcome'[r] = "unchecked"
    BY <1>3 DEF Skip, Goto, TypeOK
  <2>2. QED
    BY <2>1 DEF Refusals
<1>4. ASSUME NEW r \in Requests, NEW p \in left.profiles, Begin(r, p) PROVE FALSE
  <2>1. q = r /\ outcome'[r] \in {"unchecked", "none"}
    BY <1>4 DEF Begin, Goto, TypeOK
  <2>2. QED
    BY <2>1 DEF Refusals
<1>5. ASSUME NEW r \in Requests,
             \/ Miss(r) \/ DropEntry(r) \/ Join(r) \/ Recheck(r) \/ Ask(r) \/ ServiceAnswers(r)
             \/ Arrive(r) \/ ExchangeFails(r) \/ Cool(r) \/ Keep(r)
      PROVE  FALSE
  BY <1>5 DEF Miss, DropEntry, Join, Recheck, Ask, ServiceAnswers, Arrive, ExchangeFails, Cool, Keep,
              Goto, TypeOK
<1>6. ASSUME \/ \E k \in Keys : Invalidate(k)
             \/ \E k \in Subjects, says \in Answers : ServiceChangesMind(k, says)
             \/ \E cfg \in Configs : SetAuthConfig(cfg)
             \/ ClearAuthCache \/ Tick
      PROVE  FALSE
  BY <1>6 DEF Invalidate, ServiceChangesMind, SetAuthConfig, ClearAuthCache, Tick
<1>7. QED
  BY <1>1, <1>2, <1>3, <1>4, <1>5, <1>6 DEF Next, RequestStep

-----------------------------------------------------------------------------
(* The theorems *)

\* The preflight check fails open for no longer than it has to, for any number
\* of requests and keys and any sequence of failures.
THEOREM OpenOnlyAfterFailure == Spec => []UncheckedOnlyAfterFailure
<1>1. Init => UncheckedOnlyAfterFailure
  BY DEF Init, UncheckedOnlyAfterFailure, Unchecked
<1>2. TypeOK /\ TypeOK' /\ Ages /\ UncheckedOnlyAfterFailure /\ [Next]_vars => UncheckedOnlyAfterFailure'
  BY UncheckedStep
<1>3. QED
  BY <1>1, <1>2, Invariant, PTL DEF Spec

\* What the service says of a key takes effect a TTL, a timeout and a cool-down
\* later, whatever is cached and whatever flights requests share.
THEOREM ServiceTakesEffect == Spec => []PolicyTakesEffect
<1>1. Init => PolicyTakesEffect
  BY DEF Init, PolicyTakesEffect
<1>2. TypeOK /\ TypeOK' /\ Ages /\ PolicyTakesEffect /\ [Next]_vars => PolicyTakesEffect'
  BY PolicyStep
<1>3. QED
  BY <1>1, <1>2, Invariant, PTL DEF Spec

\* No cache refuses an FN app, at either look-up (runPreflight), for any number
\* of requests that share flights: what it is refused was asked for by itself or
\* by the app whose flight it shared.
THEOREM NoAppIsRefusedByTheCache == Spec => AppsAskThemselves
<1>1. Init => AppsAsked
  BY DEF Init, AppsAsked
<1>2. TypeOK /\ TypeOK' /\ Ages /\ AppsAsked /\ [Next]_vars => AppsAsked'
  BY AppsStep
<1>3. ASSUME TypeOK, Ages, AppsAsked, Next, NEW q \in Requests, pc[q] # "done", pc'[q] = "done",
             profile[q].app, outcome'[q] \in Refusals, profile[Teller(q)].app
      PROVE  AskedItself(Teller(q))
  BY <1>3, RefusalsAreAsked
<1>4. TypeOK /\ Ages /\ AppsAsked /\ [Next]_vars =>
        [\A r \in Requests :
            /\ pc[r] # "done" /\ pc'[r] = "done"
            /\ profile[r].app /\ outcome'[r] \in Refusals /\ profile[Teller(r)].app
            => AskedItself(Teller(r))]_vars
  BY <1>3
<1>5. QED
  BY <1>1, <1>2, <1>4, Invariant, PTL DEF Spec, AppsAskThemselves

================================================================================
