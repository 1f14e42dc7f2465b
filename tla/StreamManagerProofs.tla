-------------------------- MODULE StreamManagerProofs --------------------------
(***************************************************************************)
(* Theorems about the stream manager, for any number of overlapping calls, *)
(* keys, rules and connections.                                            *)
(***************************************************************************)
EXTENDS StreamManager, TLAPS

Held(c) == created[c] \union victims[c]
HasSockets(l) == sockets[l].state \in {"open", "closing"}

\* The map and the calls share the listener states out among themselves.
OwnInv ==
    /\ \A l \in Listeners : sockets[l].key = None <=> sockets[l].state = "free"
    /\ \A k \in Keys : listeners[k] # None =>
           sockets[listeners[k]].key = k /\ sockets[listeners[k]].state = "open"
    /\ \A k \in Keys, c \in Callers : listeners[k] \notin Held(c)
    /\ \A c \in Callers : \A l \in created[c] : sockets[l].state = "open"
    /\ \A c \in Callers : \A l \in victims[c] : sockets[l].state # "free"
    /\ \A c, d \in Callers : \A l \in Held(c) : l \in Held(d) => c = d
    /\ \A l \in Listeners : sockets[l].state # "free" =>
           (\E k \in Keys : listeners[k] = l) \/ (\E c \in Callers : l \in Held(c))
    /\ \A l, m \in Listeners :
           HasSockets(l) /\ HasSockets(m) /\ sockets[l].key = sockets[m].key => l = m

\* What a call holds at each of its steps.
CallInv ==
    /\ \A c \in Callers : created[c] # {} => pc[c] = "create"
    /\ \A c \in Callers : victims[c] # {} => pc[c] \in {"close", "abort"}

\* A connection is on a listener state that is not free.
ConnInv ==
    \A x \in Conns :
        /\ conn[x].at = None => conn[x] = NoConn
        /\ conn[x].at # None => sockets[conn[x].at].state # "free"

StopInv == closed => \A k \in Keys : listeners[k] = None

StreamInv == TypeOK /\ OwnInv /\ CallInv /\ ConnInv /\ StopInv

-----------------------------------------------------------------------------
\* Values of the initial state and of single updates have their types.
LEMMA StreamConstants ==
    /\ NoRules \in RuleSets
    /\ None \notin Rules /\ None \notin Listeners /\ None \notin Keys
    /\ TCPKeys \intersect UDPKeys = {}
BY StreamAssumption DEF NoRules, RuleSets, Keys

\* It starts of its types.
LEMMA TypesInit == Init => TypeOK
<1> SUFFICES ASSUME Init PROVE TypeOK
  OBVIOUS
<1>1. PICK started \in SUBSET {k \in Keys : saved[k] # None} :
        /\ rules = [k \in Keys |-> IF k \in started THEN saved[k] ELSE None]
        /\ listeners \in [Keys -> Listeners \union {None}]
        /\ sockets = [l \in Listeners |->
               IF \E k \in Keys : listeners[k] = l
               THEN [key |-> CHOOSE k \in Keys : listeners[k] = l, state |-> "open"]
               ELSE Free]
  BY DEF Init
<1>2. rules \in RuleSets /\ saved \in RuleSets
  BY <1>1 DEF Init, RuleSets
<1>3. sockets \in [Listeners -> [key : Keys \union {None},
                                 state : {"free", "open", "closing", "shut"}]]
  <2> SUFFICES ASSUME NEW l \in Listeners
               PROVE  sockets[l] \in [key : Keys \union {None},
                                      state : {"free", "open", "closing", "shut"}]
    BY <1>1
  <2>1. CASE \E k \in Keys : listeners[k] = l
    <3>1. (CHOOSE k \in Keys : listeners[k] = l) \in Keys
      BY <2>1
    <3> QED BY <1>1, <2>1, <3>1
  <2>2. CASE ~ \E k \in Keys : listeners[k] = l
    BY <1>1, <2>2 DEF Free
  <2> QED BY <2>1, <2>2
<1> QED
  BY <1>1, <1>2, <1>3, StreamConstants DEF Init, TypeOK, NoConn

\* The sockets it starts with have their owners.
LEMMA OwnershipInit == Init => OwnInv
<1> SUFFICES ASSUME Init PROVE OwnInv
  OBVIOUS
<1>1. /\ listeners \in [Keys -> Listeners \union {None}]
      /\ \A j, k \in Keys : j # k /\ listeners[k] # None => listeners[j] # listeners[k]
      /\ sockets = [l \in Listeners |->
             IF \E k \in Keys : listeners[k] = l
             THEN [key |-> CHOOSE k \in Keys : listeners[k] = l, state |-> "open"]
             ELSE Free]
  BY DEF Init
<1>2. \A c \in Callers : Held(c) = {} /\ created[c] = {} /\ victims[c] = {}
  BY DEF Init, Held
<1>3. \A l \in Listeners : (\E k \in Keys : listeners[k] = l) =>
        /\ sockets[l].key \in Keys /\ listeners[sockets[l].key] = l
        /\ sockets[l].state = "open"
  <2> SUFFICES ASSUME NEW l \in Listeners, \E k \in Keys : listeners[k] = l
               PROVE  /\ sockets[l].key \in Keys /\ listeners[sockets[l].key] = l
                      /\ sockets[l].state = "open"
    OBVIOUS
  <2> DEFINE key == CHOOSE k \in Keys : listeners[k] = l
  <2>1. key \in Keys /\ listeners[key] = l
    OBVIOUS
  <2>2. sockets[l] = [key |-> key, state |-> "open"]
    BY <1>1
  <2> HIDE DEF key
  <2> QED BY <2>1, <2>2
<1>4. \A l \in Listeners : (~ \E k \in Keys : listeners[k] = l) =>
        sockets[l].key = None /\ sockets[l].state = "free"
  BY <1>1 DEF Free
<1>5. \A l \in Listeners : sockets[l].key = None <=> sockets[l].state = "free"
  BY <1>3, <1>4, StreamConstants
<1>6. \A k \in Keys : listeners[k] # None =>
           sockets[listeners[k]].key = k /\ sockets[listeners[k]].state = "open"
  <2> SUFFICES ASSUME NEW k \in Keys, listeners[k] # None
               PROVE  sockets[listeners[k]].key = k /\ sockets[listeners[k]].state = "open"
    OBVIOUS
  <2>1. listeners[k] \in Listeners
    BY <1>1
  <2> QED BY <1>1, <1>3, <2>1
<1>7. \A l, m \in Listeners :
           HasSockets(l) /\ HasSockets(m) /\ sockets[l].key = sockets[m].key => l = m
  BY <1>3, <1>4 DEF HasSockets
<1>8. \A l \in Listeners : sockets[l].state # "free" => \E k \in Keys : listeners[k] = l
  BY <1>4
<1> QED
  BY <1>2, <1>5, <1>6, <1>7, <1>8 DEF OwnInv

\* The inductive invariant holds at the start.
LEMMA StreamInit == Init => StreamInv
<1> SUFFICES ASSUME Init PROVE StreamInv
  OBVIOUS
<1>1. CallInv /\ ConnInv /\ StopInv
  BY DEF Init, CallInv, ConnInv, StopInv, NoConn
<1> QED BY <1>1, TypesInit, OwnershipInit DEF StreamInv
-----------------------------------------------------------------------------
\* The locals of a call have their types at its beginning and its end.
Locals ==
    /\ pc \in [Callers -> {"idle", "flush", "plan", "create", "close", "abort", "save"}]
    /\ op \in [Callers -> {"none", "set", "flush", "stop"}]
    /\ next \in [Callers -> RuleSets]
    /\ planned \in [Callers -> SUBSET Keys]
    /\ created \in [Callers -> SUBSET Listeners]
    /\ alone \subseteq Callers
    /\ settled \in BOOLEAN

ConnTypes == [at : Listeners \union {None}, stage : {"none", "rule", "check", "relay"},
              client : BOOLEAN, upstream : BOOLEAN]

\* What a step makes of a connection is of its type.
LEMMA ConnUpdates ==
    ASSUME NEW r \in ConnTypes
    PROVE  /\ [r EXCEPT !.client = FALSE] \in ConnTypes
           /\ [r EXCEPT !.upstream = FALSE] \in ConnTypes
           /\ [r EXCEPT !.stage = "check"] \in ConnTypes
           /\ [r EXCEPT !.stage = "relay", !.upstream = TRUE] \in ConnTypes
BY DEF ConnTypes

\* A call that begins keeps the types of its locals.
LEMMA BeginTypes ==
    ASSUME TypeOK, NEW c \in Callers, NEW ruleSet \in RuleSets,
           NEW what \in {"set", "flush", "stop"}, NEW there \in {"plan", "flush", "close"},
           Begin(c, what, there, ruleSet), UNCHANGED <<planned, created>>
    PROVE  Locals'
<1>1. settled' \in BOOLEAN
  BY DEF Begin
<1>2. alone' \subseteq Callers
  BY DEF Begin
<1>3. pc' \in [Callers -> {"idle", "flush", "plan", "create", "close", "abort", "save"}]
  BY DEF Begin, Go, TypeOK
<1>4. op' \in [Callers -> {"none", "set", "flush", "stop"}] /\ next' \in [Callers -> RuleSets]
  BY DEF Begin, TypeOK
<1> QED BY <1>1, <1>2, <1>3, <1>4 DEF Locals, TypeOK

\* A call that returns keeps the types of its locals.
LEMMA ReturnTypes ==
    ASSUME TypeOK, NEW c \in Callers, NEW succeeded \in BOOLEAN, Return(c, succeeded)
    PROVE  Locals'
<1>1. settled' \in BOOLEAN
  BY Zenon DEF Return
<1>2. alone' \subseteq Callers
  BY DEF Return, TypeOK
<1>3. pc' \in [Callers -> {"idle", "flush", "plan", "create", "close", "abort", "save"}]
  BY DEF Return, TypeOK
<1>4. op' \in [Callers -> {"none", "set", "flush", "stop"}] /\ next' \in [Callers -> RuleSets]
  BY StreamConstants DEF Return, TypeOK
<1>5. planned' \in [Callers -> SUBSET Keys] /\ created' \in [Callers -> SUBSET Listeners]
  BY DEF Return, TypeOK
<1> QED BY <1>1, <1>2, <1>3, <1>4, <1>5 DEF Locals

\* Every action keeps the types.
LEMMA TypesStep == TypeOK /\ [Next]_vars => TypeOK'
<1> SUFFICES ASSUME TypeOK, [Next]_vars PROVE TypeOK'
  OBVIOUS
<1> USE StreamConstants DEF manager, history, calls
<1>1. ASSUME NEW c \in Callers, SetRules(c) \/ FlushRules(c) PROVE TypeOK'
  <2>1. PICK what \in {"set", "flush"}, there \in {"plan", "flush"}, ruleSet \in RuleSets :
          Begin(c, what, there, ruleSet)
    BY <1>1 DEF SetRules, FlushRules
  <2>2. UNCHANGED <<manager, saved, sockets, planned, created, victims, conn>>
    BY <1>1 DEF SetRules, FlushRules
  <2>3. Locals'
    BY <2>1, <2>2, BeginTypes
  <2> QED BY <2>2, <2>3 DEF Locals, TypeOK
<1>2. ASSUME NEW c \in Callers, SaveNoRules(c) \/ SaveRules(c) PROVE TypeOK'
  <2>1. CASE SaveNoRules(c)
    BY <2>1 DEF SaveNoRules, Go, TypeOK
  <2>2. CASE SaveRules(c)
    <3>1. Locals'
      BY <2>2, ReturnTypes DEF SaveRules
    <3>2. saved' \in RuleSets /\ UNCHANGED <<manager, sockets, victims, conn>>
      BY <2>2 DEF SaveRules, TypeOK
    <3> QED BY <3>1, <3>2 DEF Locals, TypeOK
  <2> QED BY <1>2, <2>1, <2>2
<1>3. ASSUME NEW c \in Callers, Plan(c) PROVE TypeOK'
  <2>1. Locals'
    <3>1. CASE closed
      BY <1>3, <3>1, ReturnTypes DEF Plan
    <3>2. CASE ~closed
      BY <1>3, <3>2 DEF Plan, Go, Locals, TypeOK
    <3> QED BY <3>1, <3>2
  <2> QED BY <1>3, <2>1 DEF Plan, Locals, TypeOK
<1>4. ASSUME NEW c \in Callers, Listen(c) PROVE TypeOK'
  <2>1. PICK k \in Keys, l \in Listeners :
          /\ sockets' = [sockets EXCEPT ![l] = [key |-> k, state |-> "open"]]
          /\ created' = [created EXCEPT ![c] = @ \union {l}]
    BY <1>4 DEF Listen, Missing, ToAdd
  <2> QED BY <1>4, <2>1 DEF Listen, TypeOK
<1>5. ASSUME NEW c \in Callers, ListenFails(c) PROVE TypeOK'
  BY <1>5 DEF ListenFails, TypeOK
<1>6. ASSUME NEW c \in Callers, Commit(c) PROVE TypeOK'
  <2>1. \A k \in Keys : WithCreated(c)[k] \in Listeners \union {None}
    <3> SUFFICES ASSUME NEW k \in Keys PROVE WithCreated(c)[k] \in Listeners \union {None}
      OBVIOUS
    <3>1. CASE \E l \in created[c] : sockets[l].key = k
      <4>1. (CHOOSE l \in created[c] : sockets[l].key = k) \in created[c]
        BY <3>1
      <4> QED BY <3>1, <4>1 DEF WithCreated, TypeOK
    <3>2. CASE ~ \E l \in created[c] : sockets[l].key = k
      BY <3>2 DEF WithCreated, TypeOK
    <3> QED BY <3>1, <3>2
  <2>2. Removed(c) \subseteq Listeners
    BY <2>1 DEF Removed, ToRemove, TypeOK
  <2>3. listeners' \in [Keys -> Listeners \union {None}]
    BY <1>6, <2>1 DEF Commit, TypeOK
  <2>4. /\ rules' \in {rules, next[c]}
        /\ \E gone \in {created[c], Removed(c)} : victims' = [victims EXCEPT ![c] = gone]
    <3>1. CASE closed
      BY <1>6, <3>1 DEF Commit
    <3>2. CASE ~closed
      BY <1>6, <3>2 DEF Commit
    <3>3. QED
      BY <3>1, <3>2
  <2>5. rules' \in RuleSets
    BY <2>4 DEF TypeOK
  <2>6. victims' \in [Callers -> SUBSET Listeners]
    BY <2>2, <2>4 DEF TypeOK
  <2> QED BY <1>6, <2>3, <2>5, <2>6 DEF Commit, TypeOK
<1>7. ASSUME NEW c \in Callers, Stop(c) PROVE TypeOK'
  <2>1. Locals'
    BY <1>7, BeginTypes DEF Stop
  <2>2. victims' \in [Callers -> SUBSET Listeners]
    BY <1>7 DEF Stop, TypeOK
  <2>3. closed' \in BOOLEAN /\ UNCHANGED <<saved, sockets, conn>>
    BY <1>7 DEF Stop
  <2>4. listeners' \in [Keys -> Listeners \union {None}] /\ rules' \in RuleSets
    BY <1>7 DEF Stop
  <2> QED BY <2>1, <2>2, <2>3, <2>4 DEF Locals, TypeOK
<1>8. ASSUME NEW c \in Callers, BeginClose(c) PROVE TypeOK'
  <2>1. PICK l \in Listeners : sockets' = [sockets EXCEPT ![l].state = "closing"]
    BY <1>8 DEF BeginClose, TypeOK
  <2> QED BY <1>8, <2>1 DEF BeginClose, TypeOK
<1>9. ASSUME NEW c \in Callers, Shut(c) PROVE TypeOK'
  <2>1. PICK l \in Listeners :
          /\ sockets' = [sockets EXCEPT ![l].state = "shut"]
          /\ conn' = [x \in Conns |->
                 IF x \notin OnListener(l) THEN conn[x]
                 ELSE IF sockets[l].key \in TCPKeys THEN [conn[x] EXCEPT !.client = FALSE]
                 ELSE [conn[x] EXCEPT !.upstream = FALSE]]
    BY <1>9 DEF Shut, TypeOK
  <2>2. UNCHANGED <<manager, saved, pc, op, next, planned, created, victims, history>>
    BY <1>9 DEF Shut
  <2> DEFINE Connection == [at : Listeners \union {None}, stage : {"none", "rule", "check", "relay"},
                            client : BOOLEAN, upstream : BOOLEAN]
  <2>3. conn' \in [Conns -> Connection]
    <3>1. \A x \in Conns : conn[x] \in Connection
      BY DEF TypeOK
    <3>2. \A x \in Conns : [conn[x] EXCEPT !.client = FALSE] \in Connection
      BY <3>1
    <3>3. \A x \in Conns : [conn[x] EXCEPT !.upstream = FALSE] \in Connection
      BY <3>1
    <3> HIDE DEF Connection
    <3>4. QED
      BY <2>1, <3>1, <3>2, <3>3
  <2>4. sockets' \in [Listeners -> [key : Keys \union {None},
                                    state : {"free", "open", "closing", "shut"}]]
    BY <2>1 DEF TypeOK
  <2> QED BY <2>2, <2>3, <2>4 DEF TypeOK
<1>10. ASSUME NEW c \in Callers, Closed(c) PROVE TypeOK'
  BY <1>10 DEF Closed, Free, TypeOK
<1>11. ASSUME NEW c \in Callers, AllClosed(c) PROVE TypeOK'
  <2>1. Locals'
    <3>1. CASE pc[c] = "close" /\ op[c] = "set"
      BY <1>11, <3>1 DEF AllClosed, Go, Locals, TypeOK
    <3>2. CASE ~(pc[c] = "close" /\ op[c] = "set")
      <4>1. Return(c, pc[c] = "close") /\ (pc[c] = "close") \in BOOLEAN
        BY <1>11, <3>2 DEF AllClosed
      <4> QED BY <4>1, ReturnTypes
    <3> QED BY <3>1, <3>2
  <2> QED BY <1>11, <2>1 DEF AllClosed, Locals, TypeOK
<1>12. ASSUME NEW x \in Conns, NEW l \in Listeners, Accept(x, l) PROVE TypeOK'
  BY <1>12 DEF Accept, TypeOK
<1>13. ASSUME NEW x \in Conns, ReadRule(x) \/ Refuse(x) \/ Connect(x) \/ RelayEnds(x)
       PROVE  TypeOK'
  <2>1. UNCHANGED <<manager, calls>>
    BY <1>13 DEF ReadRule, Refuse, Connect, RelayEnds, RelayOver, SessionOver
  <2>2. \/ conn' = [conn EXCEPT ![x] = NoConn]
        \/ conn' = [conn EXCEPT ![x].stage = "check"]
        \/ conn' = [conn EXCEPT ![x].stage = "relay", ![x].upstream = TRUE]
    BY <1>13 DEF ReadRule, Refuse, Connect, RelayEnds, RelayOver, SessionOver, End
  <2>3. NoConn \in ConnTypes
    BY DEF NoConn, ConnTypes
  <2>4. conn \in [Conns -> ConnTypes] /\ conn[x] \in ConnTypes
    BY DEF ConnTypes, TypeOK
  <2>5. \E r \in ConnTypes : conn' = [conn EXCEPT ![x] = r]
    BY <2>2, <2>3, <2>4, ConnUpdates
  <2>6. conn' \in [Conns -> ConnTypes]
    BY <2>4, <2>5
  <2> QED BY <2>1, <2>6 DEF ConnTypes, TypeOK
<1>14. ASSUME NEW x \in Conns, PacketFails(x) \/ ClientLeaves(x) \/ UpstreamEnds(x) PROVE TypeOK'
  <2>1. UNCHANGED <<manager, calls>>
    BY <1>14 DEF PacketFails, ClientLeaves, UpstreamEnds
  <2>2. \/ conn' = [conn EXCEPT ![x].client = FALSE]
        \/ conn' = [conn EXCEPT ![x].upstream = FALSE]
    BY <1>14 DEF PacketFails, ClientLeaves, UpstreamEnds
  <2>3. conn \in [Conns -> ConnTypes] /\ conn[x] \in ConnTypes
    BY DEF ConnTypes, TypeOK
  <2>4. \E r \in ConnTypes : conn' = [conn EXCEPT ![x] = r]
    BY <2>2, <2>3, ConnUpdates
  <2>5. conn' \in [Conns -> ConnTypes]
    BY <2>3, <2>4
  <2> QED BY <2>1, <2>5 DEF ConnTypes, TypeOK
<1>15. CASE UNCHANGED vars
  BY <1>15 DEF vars, TypeOK
<1> QED
  BY <1>1, <1>2, <1>3, <1>4, <1>5, <1>6, <1>7, <1>8, <1>9, <1>10, <1>11, <1>12, <1>13,
     <1>14, <1>15 DEF Next, CallStep, ConnStep

-----------------------------------------------------------------------------
(* The listener states keep their owners *)

\* A call opens a listener on a key that no open socket has.
LEMMA ListenOwns ==
    ASSUME TypeOK, OwnInv, CallInv, NEW c \in Callers, Listen(c)
    PROVE  OwnInv' /\ CallInv'
<1>1. PICK k \in Keys, n \in Listeners :
        /\ ~PortInUse(k) /\ sockets[n] = Free
        /\ sockets' = [sockets EXCEPT ![n] = [key |-> k, state |-> "open"]]
        /\ created' = [created EXCEPT ![c] = @ \union {n}]
  BY DEF Listen, Missing, ToAdd
<1>2. UNCHANGED <<listeners, pc, victims>> /\ pc[c] = "create"
  BY DEF Listen, manager
<1>3. sockets[n].key = None /\ sockets[n].state = "free"
  BY <1>1 DEF Free
<1>4. /\ sockets'[n].key = k /\ sockets'[n].state = "open"
      /\ \A l \in Listeners \ {n} : sockets'[l] = sockets[l]
  BY <1>1 DEF TypeOK
<1>5. \A d \in Callers : n \notin Held(d)
  BY <1>3 DEF OwnInv, Held
<1>6. \A j \in Keys : listeners[j] # n
  BY <1>3, StreamConstants DEF OwnInv
<1>7. \A d \in Callers : created'[d] = IF d = c THEN created[d] \union {n} ELSE created[d]
  BY <1>1 DEF TypeOK
<1>8. \A d \in Callers : Held(d)' = IF d = c THEN Held(d) \union {n} ELSE Held(d)
  BY <1>2, <1>7 DEF Held
<1>9. \A d \in Callers : Held(d) \subseteq Listeners
  BY DEF Held, TypeOK
<1>10. OwnInv'
  <2>1. \A l \in Listeners : sockets'[l].key = None <=> sockets'[l].state = "free"
    BY <1>4, StreamConstants DEF OwnInv
  <2>2. \A j \in Keys : listeners'[j] # None =>
          sockets'[listeners'[j]].key = j /\ sockets'[listeners'[j]].state = "open"
    BY <1>2, <1>4, <1>6 DEF OwnInv, TypeOK
  <2>3. \A j \in Keys, d \in Callers : listeners'[j] \notin Held(d)'
    BY <1>2, <1>6, <1>8 DEF OwnInv
  <2>4. \A d \in Callers : \A l \in created'[d] : sockets'[l].state = "open"
    <3> SUFFICES ASSUME NEW d \in Callers, NEW l \in created'[d]
                 PROVE  sockets'[l].state = "open"
      OBVIOUS
    <3>1. l = n \/ l \in created[d]
      BY <1>7
    <3>2. l \in created[d] => l \in Listeners /\ sockets[l].state = "open"
      BY <1>9 DEF OwnInv, Held
    <3> QED BY <1>4, <3>1, <3>2
  <2>5. \A d \in Callers : \A l \in victims'[d] : sockets'[l].state # "free"
    BY <1>2, <1>4, <1>9 DEF OwnInv, Held
  <2>6. \A d, e \in Callers : \A l \in Held(d)' : l \in Held(e)' => d = e
    BY <1>5, <1>8 DEF OwnInv
  <2>7. \A l \in Listeners : sockets'[l].state # "free" =>
          (\E j \in Keys : listeners'[j] = l) \/ (\E d \in Callers : l \in Held(d)')
    BY <1>2, <1>4, <1>8 DEF OwnInv
  <2>8. \A l, m \in Listeners :
          HasSockets(l)' /\ HasSockets(m)' /\ sockets'[l].key = sockets'[m].key => l = m
    <3>1. \A l \in Listeners : HasSockets(l) => sockets[l].key # k
      BY <1>1 DEF PortInUse, HasSockets
    <3>2. \A l \in Listeners : HasSockets(l)' <=> (l = n \/ HasSockets(l))
      BY <1>4 DEF HasSockets
    <3> QED BY <1>4, <3>1, <3>2 DEF OwnInv
  <2> QED BY <2>1, <2>2, <2>3, <2>4, <2>5, <2>6, <2>7, <2>8 DEF OwnInv
<1>11. CallInv'
  BY <1>2, <1>7 DEF CallInv
<1> QED BY <1>10, <1>11

\* What a call has opened becomes what it has to close.
LEMMA AbortOwns ==
    ASSUME TypeOK, OwnInv, CallInv, NEW c \in Callers, pc[c] = "create",
           pc' = [pc EXCEPT ![c] = "abort"],
           victims' = [victims EXCEPT ![c] = created[c]],
           created' = [created EXCEPT ![c] = {}],
           UNCHANGED <<listeners, sockets>>
    PROVE  OwnInv' /\ CallInv'
<1>1. victims[c] = {}
  BY DEF CallInv
<1>2. \A d \in Callers : Held(d)' = Held(d)
  BY <1>1 DEF Held, TypeOK
<1>3. \A d \in Callers : created'[d] = (IF d = c THEN {} ELSE created[d])
                     /\ victims'[d] = (IF d = c THEN created[c] ELSE victims[d])
  BY DEF TypeOK
<1>4. OwnInv'
  BY <1>2, <1>3 DEF OwnInv, HasSockets
<1>5. CallInv'
  BY <1>3 DEF CallInv, TypeOK
<1> QED BY <1>4, <1>5

\* What the map holds after what was opened went in: each key's listener is
\* open, in nobody else's hands, and nothing that was there is overwritten.
LEMMA WithCreatedOwns ==
    ASSUME TypeOK, OwnInv, CallInv, NEW c \in Callers, pc[c] = "create"
    PROVE  /\ \A k \in Keys : WithCreated(c)[k] \in Listeners \union {None}
           /\ \A k \in Keys : WithCreated(c)[k] # None =>
                  /\ sockets[WithCreated(c)[k]].key = k
                  /\ sockets[WithCreated(c)[k]].state = "open"
           /\ \A l \in created[c] : \E k \in Keys : WithCreated(c)[k] = l
           /\ \A k \in Keys : listeners[k] # None => WithCreated(c)[k] = listeners[k]
           /\ \A k \in Keys, d \in Callers : d # c => WithCreated(c)[k] \notin Held(d)
<1>1. victims[c] = {} /\ Held(c) = created[c] /\ created[c] \subseteq Listeners
  BY DEF CallInv, Held, TypeOK
<1>2. ASSUME NEW l \in created[c]
      PROVE  sockets[l].state = "open" /\ sockets[l].key \in Keys
  BY <1>1 DEF OwnInv, TypeOK
<1>3. ASSUME NEW k \in Keys, \E l \in created[c] : sockets[l].key = k
      PROVE  WithCreated(c)[k] \in created[c] /\ sockets[WithCreated(c)[k]].key = k
  <2> DEFINE m == CHOOSE l \in created[c] : sockets[l].key = k
  <2>1. m \in created[c] /\ sockets[m].key = k
    BY <1>3
  <2>2. WithCreated(c)[k] = m
    BY <1>3 DEF WithCreated
  <2> HIDE DEF m
  <2> QED BY <2>1, <2>2
<1>4. ASSUME NEW k \in Keys, ~ \E l \in created[c] : sockets[l].key = k
      PROVE  WithCreated(c)[k] = listeners[k]
  BY <1>4 DEF WithCreated
<1>5. ASSUME NEW k \in Keys
      PROVE  /\ WithCreated(c)[k] \in Listeners \union {None}
             /\ WithCreated(c)[k] # None =>
                    /\ sockets[WithCreated(c)[k]].key = k
                    /\ sockets[WithCreated(c)[k]].state = "open"
             /\ \A d \in Callers : d # c => WithCreated(c)[k] \notin Held(d)
  <2>1. CASE \E l \in created[c] : sockets[l].key = k
    <3>1. WithCreated(c)[k] \in created[c] /\ sockets[WithCreated(c)[k]].key = k
      BY <1>3, <2>1
    <3>2. \A d \in Callers : d # c => WithCreated(c)[k] \notin Held(d)
      BY <1>1, <3>1 DEF OwnInv
    <3> QED BY <1>1, <1>2, <3>1, <3>2
  <2>2. CASE ~ \E l \in created[c] : sockets[l].key = k
    BY <1>4, <2>2 DEF OwnInv, TypeOK
  <2> QED BY <2>1, <2>2
<1>6. ASSUME NEW l \in created[c] PROVE \E k \in Keys : WithCreated(c)[k] = l
  <2> DEFINE k == sockets[l].key
            m == WithCreated(c)[k]
  <2>1. k \in Keys /\ sockets[l].state = "open"
    BY <1>2
  <2>2. m \in created[c] /\ sockets[m].key = k
    BY <1>3, <2>1
  <2>3. sockets[m].state = "open" /\ m \in Listeners /\ l \in Listeners
    BY <1>1, <1>2, <2>2
  <2>4. m = l
    BY <2>1, <2>2, <2>3 DEF OwnInv, HasSockets
  <2> QED BY <2>1, <2>4
<1>7. ASSUME NEW k \in Keys, listeners[k] # None PROVE WithCreated(c)[k] = listeners[k]
  <2>1. listeners[k] \in Listeners /\ HasSockets(listeners[k]) /\ sockets[listeners[k]].key = k
    BY <1>7 DEF OwnInv, HasSockets, TypeOK
  <2>2. listeners[k] \notin created[c]
    BY <1>1 DEF OwnInv
  <2>3. ASSUME NEW l \in created[c], sockets[l].key = k PROVE FALSE
    <3>1. l \in Listeners /\ HasSockets(l)
      BY <1>1, <1>2 DEF HasSockets
    <3>2. l = listeners[k]
      BY <2>1, <2>3, <3>1 DEF OwnInv
    <3> QED BY <2>2, <3>2
  <2> QED BY <1>4, <2>3
<1> QED BY <1>5, <1>6, <1>7

\* The commit moves what was opened into the map, and out of it what is left
\* over, for the call to close.
LEMMA CommitOwns ==
    ASSUME TypeOK, OwnInv, CallInv, NEW c \in Callers, ~closed, Commit(c)
    PROVE  OwnInv' /\ CallInv'
<1> DEFINE W == WithCreated(c)
<1>1. /\ pc[c] = "create" /\ pc' = [pc EXCEPT ![c] = "close"]
      /\ victims' = [victims EXCEPT ![c] = Removed(c)]
      /\ created' = [created EXCEPT ![c] = {}]
      /\ listeners' = [k \in Keys |-> IF k \in ToRemove(c) THEN None ELSE W[k]]
      /\ sockets' = sockets
  BY DEF Commit
<1>2. /\ \A k \in Keys : W[k] \in Listeners \union {None}
      /\ \A k \in Keys : W[k] # None => sockets[W[k]].key = k /\ sockets[W[k]].state = "open"
      /\ \A l \in created[c] : \E k \in Keys : W[k] = l
      /\ \A k \in Keys : listeners[k] # None => W[k] = listeners[k]
      /\ \A k \in Keys, d \in Callers : d # c => W[k] \notin Held(d)
  BY <1>1, WithCreatedOwns
<1>3. Removed(c) = {W[k] : k \in ToRemove(c)} \ {None} /\ ToRemove(c) \subseteq Keys
  BY DEF Removed, ToRemove, TypeOK
<1>4. victims[c] = {} /\ Held(c) = created[c]
  BY <1>1 DEF CallInv, Held
<1>5. \A d \in Callers : created'[d] = (IF d = c THEN {} ELSE created[d])
                     /\ victims'[d] = (IF d = c THEN Removed(c) ELSE victims[d])
  BY <1>1 DEF TypeOK
<1>6. \A d \in Callers : Held(d)' = IF d = c THEN Removed(c) ELSE Held(d)
  BY <1>5 DEF Held
<1>7. \A k \in Keys : listeners'[k] = IF k \in ToRemove(c) THEN None ELSE W[k]
  BY <1>1
<1> HIDE DEF W
<1>8. \A k \in Keys : listeners'[k] # None =>
        sockets'[listeners'[k]].key = k /\ sockets'[listeners'[k]].state = "open"
  BY <1>1, <1>2, <1>7
<1>9. \A k \in Keys, d \in Callers : listeners'[k] \notin Held(d)'
  <2> SUFFICES ASSUME NEW k \in Keys, NEW d \in Callers, listeners'[k] \in Held(d)'
               PROVE  FALSE
    OBVIOUS
  <2>1. CASE d # c
    <3>1. listeners'[k] \in Held(d)
      BY <1>6, <2>1
    <3>2. Held(d) \subseteq Listeners
      BY DEF Held, TypeOK
    <3> QED BY <1>2, <1>7, <2>1, <3>1, <3>2, StreamConstants
  <2>2. CASE d = c
    <3>1. listeners'[k] \in Removed(c)
      BY <1>6, <2>2
    <3>2. PICK j \in ToRemove(c) : listeners'[k] = W[j] /\ W[j] # None
      BY <1>3, <3>1
    <3>3. W[k] = W[j] /\ k \notin ToRemove(c)
      BY <1>7, <3>2
    <3>4. j = k
      BY <1>2, <1>3, <3>2, <3>3
    <3> QED BY <3>2, <3>3, <3>4
  <2> QED BY <2>1, <2>2
<1>10. \A l \in Removed(c) : sockets'[l].state # "free"
  BY <1>1, <1>2, <1>3
<1>11. \A d, e \in Callers : \A l \in Held(d)' : l \in Held(e)' => d = e
  <2>1. \A d \in Callers : d # c => \A l \in Removed(c) : l \notin Held(d)
    BY <1>2, <1>3
  <2> QED BY <1>6, <2>1 DEF OwnInv
<1>12. \A l \in Listeners : sockets'[l].state # "free" =>
         (\E k \in Keys : listeners'[k] = l) \/ (\E d \in Callers : l \in Held(d)')
  <2> SUFFICES ASSUME NEW l \in Listeners, sockets[l].state # "free"
               PROVE  (\E k \in Keys : listeners'[k] = l) \/ (\E d \in Callers : l \in Held(d)')
    BY <1>1
  <2>1. ASSUME NEW k \in Keys, W[k] = l
        PROVE  (\E j \in Keys : listeners'[j] = l) \/ (\E d \in Callers : l \in Held(d)')
    <3>1. CASE k \in ToRemove(c)
      <4>1. l \in Removed(c)
        BY <1>3, <2>1, <3>1, StreamConstants
      <4> QED BY <1>6, <4>1
    <3>2. CASE k \notin ToRemove(c)
      BY <1>7, <2>1, <3>2
    <3> QED BY <3>1, <3>2
  <2>2. ASSUME NEW d \in Callers, l \in Held(d)
        PROVE  (\E j \in Keys : listeners'[j] = l) \/ (\E e \in Callers : l \in Held(e)')
    <3>1. CASE d = c
      BY <1>2, <1>4, <2>1, <2>2, <3>1
    <3>2. CASE d # c
      BY <1>6, <2>2, <3>2
    <3> QED BY <3>1, <3>2
  <2>3. (\E k \in Keys : listeners[k] = l) \/ (\E d \in Callers : l \in Held(d))
    BY DEF OwnInv
  <2>4. ASSUME NEW k \in Keys, listeners[k] = l PROVE W[k] = l
    BY <1>2, <2>4, StreamConstants
  <2> QED BY <2>1, <2>2, <2>3, <2>4
<1>13. OwnInv'
  BY <1>1, <1>5, <1>8, <1>9, <1>10, <1>11, <1>12 DEF OwnInv, HasSockets
<1>14. CallInv'
  BY <1>1, <1>5 DEF CallInv, TypeOK
<1> QED BY <1>13, <1>14

\* Stop takes over the whole map.
LEMMA StopOwns ==
    ASSUME TypeOK, OwnInv, CallInv, NEW c \in Callers, Stop(c)
    PROVE  OwnInv' /\ CallInv'
<1> DEFINE all == {listeners[k] : k \in Keys} \ {None}
<1>1. /\ pc[c] = "idle" /\ pc' = [pc EXCEPT ![c] = "close"]
      /\ victims' = [victims EXCEPT ![c] = all]
      /\ listeners' = [k \in Keys |-> None]
      /\ UNCHANGED <<sockets, created>>
  BY DEF Stop, Begin, Go
<1>2. Held(c) = {} /\ created[c] = {}
  BY <1>1 DEF CallInv, Held
<1>3. \A d \in Callers : victims'[d] = IF d = c THEN all ELSE victims[d]
  BY <1>1 DEF TypeOK
<1>4. \A d \in Callers : Held(d)' = IF d = c THEN all ELSE Held(d)
  BY <1>1, <1>2, <1>3 DEF Held
<1>5. \A l \in all : \E k \in Keys : listeners[k] = l /\ l # None
  OBVIOUS
<1>6. \A k \in Keys : listeners[k] # None => listeners[k] \in all
  OBVIOUS
<1> HIDE DEF all
<1>7. \A k \in Keys : listeners'[k] = None
  BY <1>1
<1>8. \A d \in Callers : None \notin Held(d)'
  <2>1. \A d \in Callers : None \notin Held(d)
    BY StreamConstants DEF Held, TypeOK
  <2> QED BY <1>4, <1>5, <2>1
<1>9. \A l \in all : sockets[l].state = "open" /\ \A d \in Callers : l \notin Held(d)
  BY <1>5 DEF OwnInv
<1>10. \A d, e \in Callers : \A l \in Held(d)' : l \in Held(e)' => d = e
  BY <1>4, <1>9 DEF OwnInv
<1>11. \A l \in Listeners : sockets[l].state # "free" => \E d \in Callers : l \in Held(d)'
  <2> SUFFICES ASSUME NEW l \in Listeners, sockets[l].state # "free"
               PROVE  \E d \in Callers : l \in Held(d)'
    OBVIOUS
  <2>1. CASE \E k \in Keys : listeners[k] = l
    BY <1>4, <1>6, <2>1, StreamConstants
  <2>2. CASE \E d \in Callers : l \in Held(d)
    BY <1>2, <1>4, <2>2
  <2> QED BY <2>1, <2>2 DEF OwnInv
<1>12. OwnInv'
  BY <1>1, <1>3, <1>7, <1>8, <1>9, <1>10, <1>11 DEF OwnInv, HasSockets
<1>13. CallInv'
  BY <1>1, <1>3 DEF CallInv, TypeOK
<1> QED BY <1>12, <1>13

\* A listener state that a call closes goes through its states unmapped.
LEMMA ClosingOwns ==
    ASSUME TypeOK, OwnInv, CallInv, NEW c \in Callers, NEW n \in victims[c],
           NEW state \in {"closing", "shut"},
           HasSockets(n),
           sockets' = [sockets EXCEPT ![n].state = state],
           UNCHANGED <<listeners, pc, created, victims>>
    PROVE  OwnInv' /\ CallInv'
<1>1. n \in Listeners /\ n \in Held(c)
  BY DEF TypeOK, Held
<1>2. \A d \in Callers : Held(d)' = Held(d)
  BY DEF Held
<1>3. /\ \A l \in Listeners \ {n} : sockets'[l] = sockets[l]
      /\ sockets'[n].state = state /\ sockets'[n].key = sockets[n].key
  BY <1>1 DEF TypeOK
<1>4. \A d \in Callers : n \notin created[d]
  <2>1. \A d \in Callers : n \in created[d] => d = c
    BY <1>1 DEF OwnInv, Held
  <2>2. created[c] = {}
    BY <1>1 DEF CallInv
  <2> QED BY <2>1, <2>2
<1>5. \A k \in Keys : listeners[k] # n
  BY <1>1 DEF OwnInv
<1>6. \A d \in Callers : Held(d) \subseteq Listeners
  BY DEF Held, TypeOK
<1>7. \A l \in Listeners : sockets'[l].key = None <=> sockets'[l].state = "free"
  BY <1>1, <1>3 DEF OwnInv, HasSockets
<1>8. \A k \in Keys : listeners'[k] # None =>
        sockets'[listeners'[k]].key = k /\ sockets'[listeners'[k]].state = "open"
  BY <1>3, <1>5 DEF OwnInv, TypeOK
<1>9. \A d \in Callers : \A l \in created'[d] : sockets'[l].state = "open"
  BY <1>3, <1>4, <1>6 DEF OwnInv, Held
<1>10. \A d \in Callers : \A l \in victims'[d] : sockets'[l].state # "free"
  BY <1>3, <1>6 DEF OwnInv, Held
<1>11. \A l \in Listeners : sockets'[l].state # "free" =>
         (\E k \in Keys : listeners'[k] = l) \/ (\E d \in Callers : l \in Held(d)')
  BY <1>1, <1>2, <1>3 DEF OwnInv
<1>12. \A l, m \in Listeners :
         HasSockets(l)' /\ HasSockets(m)' /\ sockets'[l].key = sockets'[m].key => l = m
  <2>1. \A l \in Listeners : HasSockets(l)' => HasSockets(l)
    BY <1>3 DEF HasSockets
  <2> QED BY <1>3, <2>1 DEF OwnInv
<1>13. OwnInv'
  BY <1>2, <1>7, <1>8, <1>9, <1>10, <1>11, <1>12 DEF OwnInv
<1> QED BY <1>13 DEF CallInv

\* A listener state that is closed is given back.
LEMMA ClosedOwns ==
    ASSUME TypeOK, OwnInv, CallInv, NEW c \in Callers, NEW n \in victims[c],
           sockets' = [sockets EXCEPT ![n] = Free],
           victims' = [victims EXCEPT ![c] = @ \ {n}],
           UNCHANGED <<listeners, pc, created>>
    PROVE  OwnInv' /\ CallInv'
<1>1. n \in Listeners /\ n \in Held(c) /\ created[c] = {}
  BY DEF TypeOK, Held, CallInv
<1>2. \A d \in Callers : victims'[d] = IF d = c THEN victims[c] \ {n} ELSE victims[d]
  BY DEF TypeOK
<1>3. \A d \in Callers : Held(d)' = Held(d) \ {n}
  <2>1. \A d \in Callers : d # c => n \notin Held(d)
    BY <1>1 DEF OwnInv
  <2> QED BY <1>1, <1>2, <2>1 DEF Held
<1>4. /\ \A l \in Listeners \ {n} : sockets'[l] = sockets[l]
      /\ sockets'[n].state = "free" /\ sockets'[n].key = None
  BY <1>1 DEF TypeOK, Free
<1>5. \A k \in Keys : listeners[k] # n
  BY <1>1 DEF OwnInv
<1>6. \A d \in Callers : Held(d) \subseteq Listeners
  BY DEF Held, TypeOK
<1>7. \A d \in Callers : n \notin created[d] /\ n \notin victims'[d]
  BY <1>1, <1>3 DEF Held, OwnInv
<1>8. \A l \in Listeners : sockets'[l].key = None <=> sockets'[l].state = "free"
  BY <1>4 DEF OwnInv
<1>9. \A k \in Keys : listeners'[k] # None =>
        sockets'[listeners'[k]].key = k /\ sockets'[listeners'[k]].state = "open"
  BY <1>4, <1>5 DEF OwnInv, TypeOK
<1>10. \A d \in Callers : \A l \in created'[d] : sockets'[l].state = "open"
  BY <1>4, <1>6, <1>7 DEF OwnInv, Held
<1>11. \A d \in Callers : \A l \in victims'[d] : sockets'[l].state # "free"
  BY <1>2, <1>4, <1>6, <1>7 DEF OwnInv, Held
<1>12. \A l \in Listeners : sockets'[l].state # "free" =>
         (\E k \in Keys : listeners'[k] = l) \/ (\E d \in Callers : l \in Held(d)')
  BY <1>3, <1>4 DEF OwnInv
<1>13. \A l, m \in Listeners :
         HasSockets(l)' /\ HasSockets(m)' /\ sockets'[l].key = sockets'[m].key => l = m
  <2>1. \A l \in Listeners : HasSockets(l)' => l # n /\ HasSockets(l)
    BY <1>4 DEF HasSockets
  <2> QED BY <1>4, <2>1 DEF OwnInv
<1>14. OwnInv'
  BY <1>3, <1>8, <1>9, <1>10, <1>11, <1>12, <1>13 DEF OwnInv
<1>15. CallInv'
  BY <1>2 DEF CallInv
<1> QED BY <1>14, <1>15

\* All other steps leave what the calls hold alone.
LEMMA SameOwners ==
    ASSUME TypeOK, OwnInv, CallInv, UNCHANGED <<listeners, sockets, created, victims>>,
           \A c \in Callers : created[c] # {} => pc'[c] = pc[c],
           \A c \in Callers : victims[c] # {} => pc'[c] = pc[c]
    PROVE  OwnInv' /\ CallInv'
BY DEF OwnInv, CallInv, Held, HasSockets

\* Every step keeps the owners and the calls.
LEMMA OwnersStep == TypeOK /\ OwnInv /\ CallInv /\ [Next]_vars => OwnInv' /\ CallInv'
<1> SUFFICES ASSUME TypeOK, OwnInv, CallInv, [Next]_vars PROVE OwnInv' /\ CallInv'
  OBVIOUS
<1> USE DEF manager, history, calls
<1>1. ASSUME NEW c \in Callers, SetRules(c) \/ FlushRules(c) \/ SaveNoRules(c)
      PROVE  OwnInv' /\ CallInv'
  <2>1. UNCHANGED <<listeners, sockets, created, victims>>
    BY <1>1 DEF SetRules, FlushRules, SaveNoRules
  <2>2. pc[c] \in {"idle", "flush"} /\ \A d \in Callers : d # c => pc'[d] = pc[d]
    BY <1>1 DEF SetRules, FlushRules, SaveNoRules, Begin, Go, TypeOK
  <2>3. created[c] = {} /\ victims[c] = {}
    BY <2>2 DEF CallInv
  <2> QED BY <2>1, <2>2, <2>3, SameOwners
<1>2. ASSUME NEW c \in Callers, Plan(c) \/ SaveRules(c) \/ AllClosed(c)
      PROVE  OwnInv' /\ CallInv'
  <2>1. pc[c] \in {"plan", "save", "close", "abort"} /\ victims[c] = {}
    BY <1>2 DEF Plan, SaveRules, AllClosed, CallInv
  <2>2. created[c] = {}
    BY <2>1 DEF CallInv
  <2>3. \A d \in Callers : d # c => pc'[d] = pc[d]
    BY <1>2 DEF Plan, SaveRules, AllClosed, Go, Return, TypeOK
  <2>4. UNCHANGED <<listeners, sockets, victims>>
    BY <1>2 DEF Plan, SaveRules, AllClosed
  <2>5. created' = created \/ created' = [created EXCEPT ![c] = {}]
    BY <1>2 DEF Plan, SaveRules, AllClosed, Return
  <2>6. created' = created
    <3>1. created \in [Callers -> SUBSET Listeners]
      BY DEF TypeOK
    <3>2. [created EXCEPT ![c] = created[c]] = created
      BY <3>1
    <3> QED BY <2>2, <2>5, <3>2
  <2>7. /\ \A d \in Callers : created[d] # {} => pc'[d] = pc[d]
        /\ \A d \in Callers : victims[d] # {} => pc'[d] = pc[d]
    BY <2>1, <2>2, <2>3
  <2>8. UNCHANGED <<listeners, sockets, created, victims>>
    BY <2>4, <2>6
  <2> QED BY <2>7, <2>8, SameOwners
<1>3. ASSUME NEW c \in Callers, Listen(c) PROVE OwnInv' /\ CallInv'
  BY <1>3, ListenOwns
<1>4. ASSUME NEW c \in Callers, ListenFails(c) PROVE OwnInv' /\ CallInv'
  BY <1>4, AbortOwns DEF ListenFails
<1>5. ASSUME NEW c \in Callers, Commit(c) PROVE OwnInv' /\ CallInv'
  <2>1. CASE closed
    BY <1>5, <2>1, AbortOwns DEF Commit
  <2>2. CASE ~closed
    BY <1>5, <2>2, CommitOwns
  <2> QED BY <2>1, <2>2
<1>6. ASSUME NEW c \in Callers, Stop(c) PROVE OwnInv' /\ CallInv'
  BY <1>6, StopOwns
<1>7. ASSUME NEW c \in Callers, BeginClose(c) PROVE OwnInv' /\ CallInv'
  <2>1. PICK l \in victims[c] : sockets' = [sockets EXCEPT ![l].state = "closing"]
    BY <1>7 DEF BeginClose
  <2>2. HasSockets(l)
    BY <1>7 DEF BeginClose, HasSockets
  <2> QED BY <1>7, <2>1, <2>2, ClosingOwns DEF BeginClose
<1>8. ASSUME NEW c \in Callers, Shut(c) PROVE OwnInv' /\ CallInv'
  <2>1. PICK l \in victims[c] : HasSockets(l) /\ sockets' = [sockets EXCEPT ![l].state = "shut"]
    BY <1>8 DEF Shut, HasSockets
  <2> QED BY <1>8, <2>1, ClosingOwns DEF Shut
<1>9. ASSUME NEW c \in Callers, Closed(c) PROVE OwnInv' /\ CallInv'
  BY <1>9, ClosedOwns DEF Closed
<1>10. ASSUME NEW x \in Conns, ConnStep(x) \/ PacketFails(x) \/ ClientLeaves(x) \/ UpstreamEnds(x)
                               \/ (\E l \in Listeners : Accept(x, l))
       PROVE  OwnInv' /\ CallInv'
  <2>1. UNCHANGED <<listeners, sockets, created, victims, pc>>
    BY <1>10 DEF ConnStep, ReadRule, Refuse, Connect, RelayEnds, RelayOver, SessionOver, PacketFails, ClientLeaves, UpstreamEnds, Accept
  <2> QED BY <2>1, SameOwners
<1>11. CASE UNCHANGED vars
  BY <1>11, SameOwners DEF vars
<1> QED
  BY <1>1, <1>2, <1>3, <1>4, <1>5, <1>6, <1>7, <1>8, <1>9, <1>10, <1>11 DEF Next, CallStep

-----------------------------------------------------------------------------
(* Connections and Stop *)

\* A connection that is there stays on its listener state, which is given back
\* only when nobody is on it.
LEMMA ConnsStep == TypeOK /\ OwnInv /\ ConnInv /\ [Next]_vars => ConnInv'
<1> SUFFICES ASSUME TypeOK, OwnInv, ConnInv, [Next]_vars PROVE ConnInv'
  OBVIOUS
<1> USE DEF manager, history, calls
<1>1. ASSUME UNCHANGED <<sockets, conn>> PROVE ConnInv'
  BY <1>1 DEF ConnInv
<1>2. ASSUME NEW c \in Callers, SetRules(c) \/ FlushRules(c) \/ SaveNoRules(c) \/ Plan(c)
        \/ ListenFails(c) \/ Commit(c) \/ SaveRules(c) \/ AllClosed(c) \/ Stop(c)
      PROVE  UNCHANGED <<sockets, conn>>
  BY <1>2 DEF SetRules, FlushRules, SaveNoRules, Plan, ListenFails, Commit, SaveRules,
              AllClosed, Stop
<1>3. ASSUME UNCHANGED conn,
             \A l \in Listeners : sockets[l].state # "free" /\ OnListener(l) # {}
                => sockets'[l].state # "free"
      PROVE  ConnInv'
  BY <1>3, StreamConstants DEF ConnInv, OnListener, TypeOK
<1>4. ASSUME NEW c \in Callers, Listen(c) PROVE ConnInv'
  <2>1. PICK l \in Listeners : \E k \in Keys :
          sockets' = [sockets EXCEPT ![l] = [key |-> k, state |-> "open"]]
    BY <1>4 DEF Listen, Missing, ToAdd
  <2>2. \A m \in Listeners : sockets[m].state # "free" => sockets'[m].state # "free"
    BY <2>1 DEF TypeOK
  <2> QED BY <1>3, <1>4, <2>2 DEF Listen
<1>5. ASSUME NEW c \in Callers, BeginClose(c) PROVE ConnInv'
  <2>1. PICK l \in Listeners : sockets' = [sockets EXCEPT ![l].state = "closing"]
    BY <1>5 DEF BeginClose, TypeOK
  <2>2. \A m \in Listeners : sockets[m].state # "free" => sockets'[m].state # "free"
    BY <2>1 DEF TypeOK
  <2> QED BY <1>3, <1>5, <2>2 DEF BeginClose
<1>6. ASSUME NEW c \in Callers, Shut(c) PROVE ConnInv'
  <2>1. PICK l \in Listeners :
          /\ sockets' = [sockets EXCEPT ![l].state = "shut"]
          /\ conn' = [x \in Conns |->
                 IF x \notin OnListener(l) THEN conn[x]
                 ELSE IF sockets[l].key \in TCPKeys THEN [conn[x] EXCEPT !.client = FALSE]
                 ELSE [conn[x] EXCEPT !.upstream = FALSE]]
    BY <1>6 DEF Shut, TypeOK
  <2>2. \A m \in Listeners : sockets[m].state # "free" => sockets'[m].state # "free"
    BY <2>1 DEF TypeOK
  <2>3. \A x \in Conns : conn[x].at = None => x \notin OnListener(l)
    BY StreamConstants DEF OnListener
  <2>4. \A x \in Conns : conn'[x].at = conn[x].at
    <3> SUFFICES ASSUME NEW x \in Conns PROVE conn'[x].at = conn[x].at
      OBVIOUS
    <3>1. conn[x] \in ConnTypes
      BY DEF TypeOK, ConnTypes
    <3>2. /\ [conn[x] EXCEPT !.client = FALSE].at = conn[x].at
          /\ [conn[x] EXCEPT !.upstream = FALSE].at = conn[x].at
      BY <3>1 DEF ConnTypes
    <3> QED BY <2>1, <3>2
  <2>5. \A x \in Conns : conn[x].at = None => conn'[x] = conn[x]
    BY <2>1, <2>3
  <2> QED BY <2>2, <2>4, <2>5 DEF ConnInv, TypeOK
<1>7. ASSUME NEW c \in Callers, Closed(c) PROVE ConnInv'
  <2>1. PICK l \in Listeners : sockets' = [sockets EXCEPT ![l] = Free] /\ OnListener(l) = {}
    BY <1>7 DEF Closed, TypeOK
  <2>2. \A m \in Listeners : m # l => sockets'[m] = sockets[m]
    BY <2>1 DEF TypeOK
  <2> QED BY <1>3, <1>7, <2>1, <2>2 DEF Closed
<1>8. ASSUME NEW x \in Conns, NEW r, UNCHANGED sockets, conn' = [conn EXCEPT ![x] = r],
             r.at = None => r = NoConn,
             r.at # None => sockets[r.at].state # "free"
      PROVE  ConnInv'
  BY <1>8 DEF ConnInv, TypeOK
<1>9. ASSUME NEW x \in Conns, NEW l \in Listeners, Accept(x, l) PROVE ConnInv'
  <2> DEFINE r == [at |-> l, stage |-> "rule", client |-> TRUE, upstream |-> FALSE]
  <2>1. r.at = l /\ l # None
    BY StreamConstants
  <2>2. conn' = [conn EXCEPT ![x] = r] /\ UNCHANGED sockets /\ sockets[l].state = "open"
    BY <1>9 DEF Accept
  <2> HIDE DEF r
  <2> QED BY <1>8, <2>1, <2>2
<1>10. ASSUME NEW x \in Conns, ReadRule(x) \/ Refuse(x) \/ Connect(x) \/ RelayEnds(x)
                               \/ PacketFails(x) \/ ClientLeaves(x) \/ UpstreamEnds(x)
       PROVE  ConnInv'
  <2>1. UNCHANGED sockets
    BY <1>10 DEF ReadRule, Refuse, Connect, RelayEnds, RelayOver, SessionOver, PacketFails, ClientLeaves, UpstreamEnds
  <2>2. conn[x].at # None
    BY <1>10 DEF ReadRule, Refuse, Connect, RelayEnds, RelayOver, SessionOver, PacketFails, ClientLeaves, UpstreamEnds, ConnInv, NoConn
  <2>3. \/ conn' = [conn EXCEPT ![x] = NoConn]
        \/ conn' = [conn EXCEPT ![x] = [conn[x] EXCEPT !.stage = "check"]]
        \/ conn' = [conn EXCEPT ![x] = [conn[x] EXCEPT !.stage = "relay", !.upstream = TRUE]]
        \/ conn' = [conn EXCEPT ![x] = [conn[x] EXCEPT !.client = FALSE]]
        \/ conn' = [conn EXCEPT ![x] = [conn[x] EXCEPT !.upstream = FALSE]]
    BY <1>10 DEF ReadRule, Refuse, Connect, RelayEnds, RelayOver, SessionOver, PacketFails, ClientLeaves, UpstreamEnds, End
  <2>4. PICK r \in ConnTypes : conn' = [conn EXCEPT ![x] = r] /\ (r = NoConn \/ r.at = conn[x].at)
    <3>1. conn[x] \in ConnTypes /\ NoConn \in ConnTypes
      BY DEF TypeOK, ConnTypes, NoConn
    <3>2. /\ [conn[x] EXCEPT !.stage = "check"].at = conn[x].at
          /\ [conn[x] EXCEPT !.stage = "relay", !.upstream = TRUE].at = conn[x].at
          /\ [conn[x] EXCEPT !.client = FALSE].at = conn[x].at
          /\ [conn[x] EXCEPT !.upstream = FALSE].at = conn[x].at
      BY <3>1 DEF ConnTypes
    <3> QED BY <2>3, <3>1, <3>2, ConnUpdates
  <2>5. (r.at = None => r = NoConn) /\ (r.at # None => sockets[r.at].state # "free")
    BY <2>2, <2>4 DEF ConnInv, NoConn
  <2> QED BY <1>8, <2>1, <2>4, <2>5
<1>11. CASE UNCHANGED vars
  BY <1>1, <1>11 DEF vars
<1> QED
  BY <1>1, <1>2, <1>4, <1>5, <1>6, <1>7, <1>9, <1>10, <1>11 DEF Next, CallStep, ConnStep

\* Nothing goes into the map of a manager that is closed.
LEMMA StopStep == TypeOK /\ StopInv /\ [Next]_vars => StopInv'
<1> SUFFICES ASSUME TypeOK, StopInv, [Next]_vars PROVE StopInv'
  OBVIOUS
<1> USE DEF manager, history, calls
<1>1. ASSUME UNCHANGED <<closed, listeners>> PROVE StopInv'
  BY <1>1 DEF StopInv
<1>2. ASSUME NEW c \in Callers, SetRules(c) \/ FlushRules(c) \/ SaveNoRules(c) \/ Plan(c)
        \/ Listen(c) \/ ListenFails(c) \/ SaveRules(c) \/ BeginClose(c) \/ Shut(c)
        \/ Closed(c) \/ AllClosed(c)
      PROVE  UNCHANGED <<closed, listeners>>
  BY <1>2 DEF SetRules, FlushRules, SaveNoRules, Plan, Listen, ListenFails, SaveRules,
              BeginClose, Shut, Closed, AllClosed
<1>3. ASSUME NEW c \in Callers, Commit(c) PROVE StopInv'
  BY <1>3 DEF Commit, StopInv
<1>4. ASSUME NEW c \in Callers, Stop(c) PROVE StopInv'
  BY <1>4 DEF Stop, StopInv
<1>5. ASSUME NEW x \in Conns, ConnStep(x) \/ PacketFails(x) \/ ClientLeaves(x) \/ UpstreamEnds(x)
                              \/ (\E l \in Listeners : Accept(x, l))
      PROVE  UNCHANGED <<closed, listeners>>
  BY <1>5 DEF ConnStep, ReadRule, Refuse, Connect, RelayEnds, RelayOver, SessionOver, PacketFails, ClientLeaves, UpstreamEnds, Accept
<1>6. CASE UNCHANGED vars
  BY <1>1, <1>6 DEF vars
<1> QED BY <1>1, <1>2, <1>3, <1>4, <1>5, <1>6 DEF Next, CallStep

-----------------------------------------------------------------------------
(* Calls that no other call overlaps *)

\* What a call has been told to do, at its places.
OpInv ==
    \A c \in Callers :
        /\ pc[c] = "flush" => op[c] = "flush"
        /\ pc[c] = "save" => op[c] = "set"
        /\ pc[c] # "idle" => op[c] # "none"
        /\ op[c] = "flush" => next[c] = NoRules
        /\ op[c] = "stop" => closed

\* The manager listens on the keys of its rules.
InEffect == \A k \in Keys : listeners[k] # None <=> rules[k] # None

\* How far a call has come that is alone.
Lone(c) ==
    c \in alone =>
        /\ \A d \in Callers \ {c} : pc[d] = "idle"
        /\ op[c] = "flush" /\ pc[c] \in {"plan", "create", "close"} => saved = NoRules
        /\ pc[c] = "create" =>
              /\ planned[c] = {k \in Keys : listeners[k] # None}
              /\ \A l \in created[c] : sockets[l].key \in ToAdd(c)
        /\ pc[c] \in {"close", "save"} /\ ~closed => rules = next[c] /\ InEffect

Settled ==
    settled =>
        /\ \A c \in Callers : pc[c] = "idle"
        /\ closed \/ (rules = saved /\ InEffect)

LoneInv == OpInv /\ (\A c \in Callers : Lone(c)) /\ Settled

\* Nobody has called yet.
LEMMA LoneInit == Init => LoneInv
BY DEF Init, LoneInv, OpInv, Lone, Settled

\* The variables of LoneInv, which connections leave alone.
LEMMA LoneAside ==
    ASSUME LoneInv,
           UNCHANGED <<closed, listeners, rules, saved, sockets, pc, op, next, planned, created,
                       alone, settled>>
    PROVE  LoneInv'
<1>1. \A c \in Callers : ToAdd(c)' = ToAdd(c)
  BY DEF ToAdd
<1>2. InEffect' <=> InEffect
  BY DEF InEffect
<1>3. OpInv' /\ Settled'
  BY <1>2 DEF LoneInv, OpInv, Settled
<1>4. ASSUME NEW c \in Callers PROVE Lone(c)'
  BY <1>1, <1>2 DEF LoneInv, Lone
<1> QED BY <1>3, <1>4 DEF LoneInv

\* A call begins: on its own it has done nothing yet, but for Stop.
LEMMA LoneBegin ==
    ASSUME TypeOK, LoneInv, NEW c \in Callers, SetRules(c) \/ FlushRules(c) \/ Stop(c)
    PROVE  LoneInv'
<1>1. PICK what, there, ruleSet :
        /\ Begin(c, what, there, ruleSet)
        /\ \/ what = "set" /\ there = "plan"
           \/ what = "flush" /\ there = "flush" /\ ruleSet = NoRules
           \/ what = "stop" /\ there = "close" /\ closed'
  BY DEF SetRules, FlushRules, Stop
<1>2. closed => closed'
  BY DEF SetRules, FlushRules, Stop, manager
<1>3. /\ pc[c] = "idle" /\ pc'[c] = there /\ op'[c] = what /\ next'[c] = ruleSet
      /\ \A d \in Callers \ {c} : pc'[d] = pc[d] /\ op'[d] = op[d] /\ next'[d] = next[d]
      /\ settled' = FALSE
      /\ \A d \in alone' : d = c /\ \A e \in Callers : pc[e] = "idle"
  BY <1>1 DEF Begin, Go, TypeOK
<1>4. OpInv'
  BY <1>1, <1>2, <1>3 DEF LoneInv, OpInv
<1>5. ASSUME NEW d \in Callers PROVE Lone(d)'
  BY <1>1, <1>3 DEF Lone
<1> QED BY <1>3, <1>4, <1>5 DEF LoneInv, Settled

\* A call on its way is the only one that may be alone, and nothing is settled:
\* what is left to show of its step is about the call itself.
LEMMA LoneCallStep ==
    ASSUME LoneInv, NEW c \in Callers, pc[c] # "idle", UNCHANGED closed,
           \A d \in Callers \ {c} : pc'[d] = pc[d] /\ op'[d] = op[d] /\ next'[d] = next[d],
           alone' \subseteq alone,
           /\ pc'[c] = "flush" => op'[c] = "flush"
           /\ pc'[c] = "save" => op'[c] = "set"
           /\ pc'[c] # "idle" => op'[c] # "none"
           /\ op'[c] = "flush" => next'[c] = NoRules
           /\ op'[c] = "stop" => closed',
           c \in alone => Lone(c)',
           settled' = settled \/ Settled'
    PROVE  LoneInv'
<1>1. \A d \in alone : d \in Callers => d = c
  BY DEF LoneInv, Lone
<1>2. ASSUME NEW d \in Callers PROVE Lone(d)'
  BY <1>1 DEF Lone
<1>3. Settled'
  BY DEF LoneInv, Settled
<1>4. OpInv'
  BY DEF LoneInv, OpInv
<1> QED BY <1>2, <1>3, <1>4 DEF LoneInv

\* A call returns; alone and with success, it has settled the rules.
LEMMA LoneReturn ==
    ASSUME TypeOK, LoneInv, NEW c \in Callers, pc[c] # "idle", UNCHANGED <<closed, listeners, rules>>,
           NEW succeeded \in BOOLEAN, Return(c, succeeded),
           succeeded /\ c \in alone => closed \/ (rules = saved' /\ InEffect)
    PROVE  LoneInv'
<1>1. /\ pc'[c] = "idle" /\ op'[c] = "none" /\ c \notin alone' /\ alone' \subseteq alone
      /\ \A d \in Callers \ {c} : pc'[d] = pc[d] /\ op'[d] = op[d] /\ next'[d] = next[d]
      /\ settled' <=> succeeded /\ c \in alone
  BY Zenon DEF Return, TypeOK
<1>2. InEffect' <=> InEffect
  BY DEF InEffect
<1>3. c \in alone => \A d \in Callers : pc'[d] = "idle"
  BY <1>1 DEF LoneInv, Lone
<1>4. Settled'
  BY <1>1, <1>2, <1>3 DEF Settled
<1>5. Lone(c)'
  BY <1>1 DEF Lone
<1> QED BY <1>1, <1>4, <1>5, LoneCallStep

\* What a lone call has planned and opened is what its commit puts in the map.
LEMMA LoneCommit ==
    ASSUME TypeOK, OwnInv, LoneInv, NEW c \in Callers, Commit(c), c \in alone, ~closed
    PROVE  rules' = next[c] /\ InEffect'
<1>1. /\ pc[c] = "create" /\ Missing(c) = {} /\ rules' = next[c]
      /\ listeners' = [k \in Keys |-> IF k \in ToRemove(c) THEN None ELSE WithCreated(c)[k]]
  BY DEF Commit
<1>2. /\ planned[c] = {k \in Keys : listeners[k] # None}
      /\ \A l \in created[c] : sockets[l].key \in ToAdd(c)
  BY <1>1 DEF LoneInv, Lone
<1>3. ASSUME NEW k \in Keys PROVE listeners'[k] # None <=> next[c][k] # None
  <2>1. CASE k \in ToRemove(c)
    BY <1>1, <2>1 DEF ToRemove
  <2>2. CASE k \notin ToRemove(c) /\ \E l \in created[c] : sockets[l].key = k
    <3>1. (CHOOSE l \in created[c] : sockets[l].key = k) \in created[c]
      BY <2>2
    <3>2. WithCreated(c)[k] \in created[c]
      BY <2>2, <3>1 DEF WithCreated
    <3>3. WithCreated(c)[k] # None
      BY <3>2, StreamConstants DEF TypeOK
    <3>4. next[c][k] # None
      BY <1>2, <2>2 DEF ToAdd
    <3> QED BY <1>1, <2>2, <3>3, <3>4
  <2>3. CASE k \notin ToRemove(c) /\ ~\E l \in created[c] : sockets[l].key = k
    <3>1. listeners'[k] = listeners[k]
      BY <1>1, <2>3 DEF WithCreated
    <3>2. k \notin ToAdd(c)
      BY <1>1, <2>3 DEF Missing
    <3> QED BY <1>2, <2>3, <3>1, <3>2 DEF ToAdd, ToRemove
  <2> QED BY <2>1, <2>2, <2>3
<1> QED BY <1>1, <1>3 DEF InEffect

\* Every step keeps LoneInv.
LEMMA LoneStep == TypeOK /\ OwnInv /\ CallInv /\ LoneInv /\ [Next]_vars => LoneInv'
<1> SUFFICES ASSUME TypeOK, OwnInv, CallInv, LoneInv, [Next]_vars PROVE LoneInv'
  OBVIOUS
<1> USE DEF manager, history, calls
<1>1. ASSUME NEW c \in Callers, SaveNoRules(c) PROVE LoneInv'
  <2>1. /\ pc[c] = "flush" /\ pc'[c] = "plan" /\ saved' = NoRules
        /\ \A d \in Callers \ {c} : pc'[d] = pc[d]
        /\ UNCHANGED <<closed, op, next, alone, settled>>
    BY <1>1 DEF SaveNoRules, Go, TypeOK
  <2>2. c \in alone => Lone(c)'
    BY <2>1 DEF LoneInv, Lone
  <2> QED BY <2>1, <2>2, LoneCallStep DEF LoneInv, OpInv
<1>2. ASSUME NEW c \in Callers, Plan(c) PROVE LoneInv'
  <2>1. CASE closed
    BY <1>2, <2>1, LoneReturn DEF Plan
  <2>2. CASE ~closed
    <3>1. /\ pc[c] = "plan" /\ pc'[c] = "create"
          /\ \A d \in Callers \ {c} : pc'[d] = pc[d]
          /\ UNCHANGED <<closed, listeners, saved, op, next, created, alone, settled>>
          /\ planned'[c] = {k \in Keys : listeners[k] # None}
      BY <1>2, <2>2 DEF Plan, Go, TypeOK
    <3>2. created[c] = {}
      BY <3>1 DEF CallInv
    <3>3. c \in alone => Lone(c)'
      BY <3>1, <3>2 DEF LoneInv, Lone
    <3> QED BY <3>1, <3>3, LoneCallStep DEF LoneInv, OpInv
  <2> QED BY <2>1, <2>2
<1>3. ASSUME NEW c \in Callers, Listen(c) PROVE LoneInv'
  <2>1. PICK k \in Missing(c), l \in Listeners :
          /\ sockets[l] = Free
          /\ sockets' = [sockets EXCEPT ![l] = [key |-> k, state |-> "open"]]
          /\ created' = [created EXCEPT ![c] = @ \union {l}]
    BY <1>3 DEF Listen
  <2>2. /\ pc[c] = "create"
        /\ UNCHANGED <<closed, listeners, rules, saved, pc, op, next, planned, alone, settled>>
    BY <1>3 DEF Listen
  <2>3. ToAdd(c)' = ToAdd(c) /\ k \in ToAdd(c)
    BY <2>2 DEF ToAdd, Missing
  <2>4. l \notin created[c]
    BY <2>1 DEF OwnInv, Free
  <2>5. ASSUME \A m \in created[c] : sockets[m].key \in ToAdd(c)
        PROVE  \A m \in created'[c] : sockets'[m].key \in ToAdd(c)
    BY <2>1, <2>3, <2>4, <2>5 DEF TypeOK
  <2>6. c \in alone => Lone(c)'
    BY <2>2, <2>3, <2>5 DEF LoneInv, Lone
  <2> QED BY <2>2, <2>6, LoneCallStep DEF LoneInv, OpInv
<1>4. ASSUME NEW c \in Callers, ListenFails(c) PROVE LoneInv'
  <2>1. /\ pc[c] = "create" /\ pc'[c] = "abort"
        /\ \A d \in Callers \ {c} : pc'[d] = pc[d]
        /\ UNCHANGED <<closed, op, next, alone, settled>>
    BY <1>4 DEF ListenFails, TypeOK
  <2>2. c \in alone => Lone(c)'
    BY <2>1 DEF LoneInv, Lone
  <2> QED BY <2>1, <2>2, LoneCallStep DEF LoneInv, OpInv
<1>5. ASSUME NEW c \in Callers, Commit(c) PROVE LoneInv'
  <2>1. /\ pc[c] = "create" /\ pc'[c] = (IF closed THEN "abort" ELSE "close")
        /\ \A d \in Callers \ {c} : pc'[d] = pc[d]
        /\ UNCHANGED <<closed, saved, op, next, alone, settled>>
    BY <1>5 DEF Commit, TypeOK
  <2>2. ASSUME c \in alone PROVE Lone(c)'
    <3>1. ~closed => rules' = next[c] /\ InEffect'
      BY <1>5, <2>2, LoneCommit
    <3> QED BY <2>1, <2>2, <3>1 DEF LoneInv, Lone
  <2> QED BY <2>1, <2>2, LoneCallStep DEF LoneInv, OpInv
<1>6. ASSUME NEW c \in Callers, SaveRules(c) PROVE LoneInv'
  <2>1. pc[c] = "save" /\ saved' = next[c] /\ Return(c, TRUE) /\ UNCHANGED <<closed, listeners, rules>>
    BY <1>6 DEF SaveRules
  <2>2. c \in alone => closed \/ (rules = saved' /\ InEffect)
    BY <2>1 DEF LoneInv, Lone
  <2> QED BY <2>1, <2>2, LoneReturn
<1>7. ASSUME NEW c \in Callers, BeginClose(c) \/ Shut(c) \/ Closed(c) PROVE LoneInv'
  <2>1. /\ victims[c] # {}
        /\ UNCHANGED <<closed, listeners, rules, saved, pc, op, next, planned, created, alone, settled>>
    BY <1>7 DEF BeginClose, Shut, Closed
  <2>2. pc[c] \in {"close", "abort"}
    BY <2>1 DEF CallInv
  <2>3. InEffect' <=> InEffect
    BY <2>1 DEF InEffect
  <2>4. c \in alone => Lone(c)'
    BY <2>1, <2>2, <2>3 DEF LoneInv, Lone
  <2> QED BY <2>1, <2>2, <2>4, LoneCallStep DEF LoneInv, OpInv
<1>8. ASSUME NEW c \in Callers, AllClosed(c) PROVE LoneInv'
  <2>1. pc[c] \in {"close", "abort"} /\ UNCHANGED <<closed, listeners, rules, saved>>
    BY <1>8 DEF AllClosed
  <2>2. CASE pc[c] = "close" /\ op[c] = "set"
    <3>1. /\ pc'[c] = "save" /\ \A d \in Callers \ {c} : pc'[d] = pc[d]
          /\ UNCHANGED <<op, next, alone, settled>>
      BY <1>8, <2>2 DEF AllClosed, Go, TypeOK
    <3>2. InEffect' <=> InEffect
      BY <2>1 DEF InEffect
    <3>3. c \in alone => Lone(c)'
      BY <2>1, <2>2, <3>1, <3>2 DEF LoneInv, Lone
    <3> QED BY <2>1, <2>2, <3>1, <3>3, LoneCallStep DEF LoneInv, OpInv
  <2>3. CASE ~(pc[c] = "close" /\ op[c] = "set")
    <3>1. Return(c, pc[c] = "close") /\ (pc[c] = "close") \in BOOLEAN
      BY <1>8, <2>3 DEF AllClosed
    <3>2. ASSUME pc[c] = "close", c \in alone PROVE closed \/ (rules = saved' /\ InEffect)
      <4>1. op[c] \in {"flush", "stop"} /\ (op[c] = "stop" => closed)
        BY <2>3, <3>2 DEF LoneInv, OpInv, TypeOK
      <4>2. op[c] = "flush" => next[c] = NoRules /\ saved = NoRules
        BY <3>2 DEF LoneInv, OpInv, Lone
      <4>3. ~closed => rules = next[c] /\ InEffect
        BY <3>2 DEF LoneInv, Lone
      <4> QED BY <2>1, <4>1, <4>2, <4>3
    <3> QED BY <2>1, <3>1, <3>2, LoneReturn
  <2> QED BY <2>2, <2>3
<1>9. ASSUME NEW x \in Conns, ConnStep(x) \/ PacketFails(x) \/ ClientLeaves(x) \/ UpstreamEnds(x)
                              \/ (\E l \in Listeners : Accept(x, l))
      PROVE  LoneInv'
  <2>1. UNCHANGED <<manager, calls>>
    BY <1>9 DEF ConnStep, ReadRule, Refuse, Connect, RelayEnds, RelayOver, SessionOver, PacketFails,
                ClientLeaves, UpstreamEnds, Accept
  <2> QED BY <2>1, LoneAside
<1>10. CASE UNCHANGED vars
  BY <1>10, LoneAside DEF vars
<1> QED
  BY <1>1, <1>2, <1>3, <1>4, <1>5, <1>6, <1>7, <1>8, <1>9, <1>10, LoneBegin DEF Next, CallStep

-----------------------------------------------------------------------------
(* Theorems *)

\* However calls overlap, and whichever ports are taken, the variables keep
\* their types and every socket is in the map or in the hands of one call.
THEOREM SocketsOwned == Spec => [](TypeOK /\ SocketsAreOwned)
<1>1. StreamInv /\ [Next]_vars => StreamInv'
  BY TypesStep, OwnersStep, ConnsStep, StopStep DEF StreamInv
<1>2. StreamInv => SocketsAreOwned
  <2> SUFFICES ASSUME StreamInv, NEW l \in Listeners
               PROVE  LET mapped == {k \in Keys : listeners[k] = l}
                      IN  IF sockets[l] = Free
                          THEN mapped = {} /\ Owners(l) = {} /\ OnListener(l) = {}
                          ELSE \/ /\ mapped = {sockets[l].key} /\ sockets[l].state = "open"
                                  /\ Owners(l) = {}
                               \/ mapped = {} /\ \E c \in Callers : Owners(l) = {c}
    BY DEF SocketsAreOwned
  <2> DEFINE mapped == {k \in Keys : listeners[k] = l}
  <2>1. /\ TypeOK /\ OwnInv /\ ConnInv /\ l # None
        /\ Owners(l) = {c \in Callers : l \in Held(c)}
    BY StreamConstants DEF StreamInv, Owners, Held
  <2>2. sockets[l] = Free <=> sockets[l].state = "free"
    BY <2>1 DEF OwnInv, TypeOK, Free
  <2>3. CASE sockets[l] = Free
    <3>1. sockets[l].state = "free"
      BY <2>2, <2>3
    <3>2. mapped = {}
      BY <2>1, <3>1 DEF OwnInv
    <3>3. Owners(l) = {}
      BY <2>1, <3>1 DEF OwnInv, Held
    <3>4. OnListener(l) = {}
      BY <2>1, <3>1 DEF ConnInv, OnListener
    <3> QED BY <2>3, <3>2, <3>3, <3>4
  <2>4. CASE sockets[l] # Free
    <3>1. sockets[l].state # "free"
      BY <2>2, <2>4
    <3>2. CASE \E k \in Keys : listeners[k] = l
      <4>1. PICK k \in Keys : listeners[k] = l
        BY <3>2
      <4>2. sockets[l].key = k /\ sockets[l].state = "open" /\ Owners(l) = {}
        BY <2>1, <4>1 DEF OwnInv
      <4>3. \A j \in Keys : listeners[j] = l => j = k
        BY <2>1, <4>2 DEF OwnInv
      <4>4. mapped = {k}
        BY <4>1, <4>3
      <4> QED BY <2>4, <4>2, <4>4
    <3>3. CASE mapped = {}
      <4>1. PICK c \in Callers : l \in Held(c)
        BY <2>1, <3>1, <3>3 DEF OwnInv
      <4>2. Owners(l) = {c}
        BY <2>1, <4>1 DEF OwnInv
      <4> QED BY <2>4, <3>3, <4>2
    <3> QED BY <3>2, <3>3
  <2> QED BY <2>3, <2>4
<1>3. StreamInv => TypeOK
  BY DEF StreamInv
<1> QED BY <1>1, <1>2, <1>3, StreamInit, PTL DEF Spec

\* After Stop, and when the calls that were on their way have returned, no
\* port is open and no connection is left.
THEOREM StoppedIsSilent == Spec => []StopSilences
<1>1. StreamInv /\ [Next]_vars => StreamInv'
  BY TypesStep, OwnersStep, ConnsStep, StopStep DEF StreamInv
<1>2. StreamInv => StopSilences
  <2> SUFFICES ASSUME StreamInv, closed, \A c \in Callers : pc[c] = "idle"
               PROVE  /\ \A l \in Listeners : sockets[l] = Free
                      /\ \A x \in Conns : conn[x] = NoConn
    BY DEF StopSilences
  <2>1. \A l \in Listeners : sockets[l].state = "free"
    <3>1. \A c \in Callers : Held(c) = {}
      BY DEF StreamInv, CallInv, Held
    <3>2. \A l \in Listeners, k \in Keys : listeners[k] # l
      BY StreamConstants DEF StreamInv, StopInv
    <3> QED BY <3>1, <3>2 DEF StreamInv, OwnInv
  <2>2. \A l \in Listeners : sockets[l] = Free
    BY <2>1 DEF StreamInv, OwnInv, TypeOK, Free
  <2>3. \A x \in Conns : conn[x].at = None
    BY <2>1 DEF StreamInv, ConnInv, TypeOK
  <2> QED BY <2>2, <2>3 DEF StreamInv, ConnInv
<1> QED BY <1>1, <1>2, StreamInit, PTL DEF Spec

\* A call that succeeds with no other at its side leaves the manager with the
\* rules that are saved, listening on their keys and on no other, and with no
\* connection of a removed key, whatever overlapping calls had left before.
THEOREM LoneCallsMend == Spec => []LoneCallTakesEffect
<1> DEFINE Inv == StreamInv /\ LoneInv
<1>1. Init => Inv
  BY StreamInit, LoneInit
<1>2. Inv /\ [Next]_vars => Inv'
  BY TypesStep, OwnersStep, ConnsStep, StopStep, LoneStep DEF StreamInv
<1>3. Inv => LoneCallTakesEffect
  <2> SUFFICES ASSUME StreamInv, LoneInv, settled, ~closed
               PROVE  /\ rules = saved
                      /\ \A k \in Keys : listeners[k] # None <=> rules[k] # None
                      /\ \A x \in Conns : conn[x] # NoConn => rules[KeyOf(x)] # None
    BY DEF LoneCallTakesEffect
  <2>1. rules = saved /\ InEffect /\ \A c \in Callers : pc[c] = "idle"
    BY DEF LoneInv, Settled
  <2>2. \A c \in Callers : Held(c) = {}
    BY <2>1 DEF StreamInv, CallInv, Held
  <2>3. ASSUME NEW x \in Conns, conn[x] # NoConn PROVE rules[KeyOf(x)] # None
    <3>1. conn[x].at \in Listeners /\ sockets[conn[x].at].state # "free"
      BY <2>3 DEF StreamInv, ConnInv, TypeOK
    <3>2. PICK k \in Keys : listeners[k] = conn[x].at
      BY <2>2, <3>1 DEF StreamInv, OwnInv
    <3>3. listeners[k] # None /\ KeyOf(x) = k
      BY <3>1, <3>2, StreamConstants DEF StreamInv, OwnInv, KeyOf
    <3> QED BY <2>1, <3>3 DEF InEffect
  <2> QED BY <2>1, <2>3 DEF InEffect
<1> HIDE DEF Inv
<1> QED BY <1>1, <1>2, <1>3, PTL DEF Spec

=============================================================================
