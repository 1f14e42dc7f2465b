----------------------------- MODULE StreamManager -----------------------------
(***************************************************************************)
(* The stream proxy (pkg/stream/manager.go) and the admin calls that       *)
(* change its rules (handleSetStreamRules, handleFlushStreamRules).        *)
(*                                                                         *)
(* Reconcile reads the keys it listens on under the read lock, opens the   *)
(* listeners that are missing without a lock, commits under the write      *)
(* lock, and closes what is left over without one; only then is the change *)
(* saved.  Calls can overlap at each of these points, and with Stop.       *)
(* Closing a listener waits for every connection it has accepted.          *)
(***************************************************************************)
EXTENDS Naturals, FiniteSets

CONSTANTS
    Callers,        \* goroutines that call the manager: admin handlers, main
    TCPKeys,        \* tcp/<port>
    UDPKeys,        \* udp/<port>
    Rules,          \* targets, with or without authentication
    Listeners,      \* identities of listener states, used again when free
    Conns,          \* TCP connections and UDP clients
    ListenMayFail,  \* whether a port may be taken by another program
    ReadLoops,    \* read loops of a UDP listener, one per address family it has
    None

ASSUME StreamAssumption ==
    /\ TCPKeys \intersect UDPKeys = {}
    /\ None \notin TCPKeys \union UDPKeys \union Rules \union Listeners
    /\ ListenMayFail \in BOOLEAN /\ ReadLoops \in Nat \ {0}

Keys == TCPKeys \union UDPKeys
RuleSets == [Keys -> Rules \union {None}]
NoRules == [k \in Keys |-> None]

VARIABLES
    closed,      \* m.closed
    listeners,   \* m.listeners
    rules,       \* m.rules
    saved,       \* h.StreamRules, as saved in the configuration file
    sockets,     \* of each listener state: key, and whether its sockets are open
    pc, op, next, planned, created, victims,  \* of each call
    alone,       \* history: calls that no other call has overlapped
    settled,     \* history: the last call succeeded alone, and none began since
    conn         \* of each connection: its listener state, and where it is

vars == <<closed, listeners, rules, saved, sockets, pc, op, next, planned, created,
          victims, alone, settled, conn>>
manager == <<closed, listeners, rules>>
history == <<alone, settled>>

Free == [key |-> None, state |-> "free"]
NoConn == [at |-> None, stage |-> "none", client |-> FALSE, upstream |-> FALSE]

TypeOK ==
    /\ closed \in BOOLEAN
    /\ listeners \in [Keys -> Listeners \union {None}]
    /\ rules \in RuleSets /\ saved \in RuleSets
    /\ sockets \in [Listeners -> [key : Keys \union {None},
                                  state : {"free", "open", "closing", "shut"}]]
    /\ pc \in [Callers -> {"idle", "flush", "plan", "create", "close", "abort", "save"}]
    /\ op \in [Callers -> {"none", "set", "flush", "stop"}]
    /\ next \in [Callers -> RuleSets]
    /\ planned \in [Callers -> SUBSET Keys]
    /\ created \in [Callers -> SUBSET Listeners]
    /\ victims \in [Callers -> SUBSET Listeners]
    /\ alone \subseteq Callers
    /\ settled \in BOOLEAN
    /\ conn \in [Conns -> [at : Listeners \union {None},
                           stage : {"none", "rule", "check", "relay"},
                           client : BOOLEAN, upstream : BOOLEAN]]

\* The program starts with the rules of the file, as far as ReconcileBestEffort
\* can listen; the admin server starts after it.
Init ==
    /\ closed = FALSE
    /\ saved \in RuleSets
    /\ \E started \in SUBSET {k \in Keys : saved[k] # None} :
        /\ ~ListenMayFail => started = {k \in Keys : saved[k] # None}
        /\ rules = [k \in Keys |-> IF k \in started THEN saved[k] ELSE None]
        /\ listeners \in [Keys -> Listeners \union {None}]
        /\ \A k \in Keys : listeners[k] # None <=> k \in started
        /\ \A j, k \in Keys : j # k /\ listeners[k] # None => listeners[j] # listeners[k]
        /\ sockets = [l \in Listeners |->
               IF \E k \in Keys : listeners[k] = l
               THEN [key |-> CHOOSE k \in Keys : listeners[k] = l, state |-> "open"]
               ELSE Free]
    /\ pc = [c \in Callers |-> "idle"]
    /\ op = [c \in Callers |-> "none"]
    /\ next = [c \in Callers |-> NoRules]
    /\ planned = [c \in Callers |-> {}]
    /\ created = [c \in Callers |-> {}]
    /\ victims = [c \in Callers |-> {}]
    /\ alone = {} /\ settled = FALSE
    /\ conn = [x \in Conns |-> NoConn]

-----------------------------------------------------------------------------
(* The calls *)

Go(c, here, there) ==
    /\ pc[c] = here
    /\ pc' = [pc EXCEPT ![c] = there]

Begin(c, what, there, ruleSet) ==
    /\ Go(c, "idle", there)
    /\ op' = [op EXCEPT ![c] = what]
    /\ next' = [next EXCEPT ![c] = ruleSet]
    /\ alone' = IF \A d \in Callers : pc[d] = "idle" THEN {c} ELSE {}
    /\ settled' = FALSE

\* The call is over, and its locals are gone.
Return(c, succeeded) ==
    /\ pc' = [pc EXCEPT ![c] = "idle"]
    /\ op' = [op EXCEPT ![c] = "none"]
    /\ next' = [next EXCEPT ![c] = NoRules]
    /\ planned' = [planned EXCEPT ![c] = {}]
    /\ created' = [created EXCEPT ![c] = {}]
    /\ alone' = alone \ {c}
    /\ settled' = (succeeded /\ c \in alone)

\* handleSetStreamRules, with rules that are valid.
SetRules(c) ==
    /\ \E ruleSet \in RuleSets : Begin(c, "set", "plan", ruleSet)
    /\ UNCHANGED <<manager, saved, sockets, planned, created, victims, conn>>

FlushRules(c) ==
    /\ Begin(c, "flush", "flush", NoRules)
    /\ UNCHANGED <<manager, saved, sockets, planned, created, victims, conn>>

\* FlushStreamRules: the empty list is saved before the listeners are closed.
SaveNoRules(c) ==
    /\ Go(c, "flush", "plan")
    /\ saved' = NoRules
    /\ UNCHANGED <<manager, sockets, op, next, planned, created, victims, history, conn>>

\* The keys of m.listeners under the read lock; a closed manager refuses.
Plan(c) ==
    /\ pc[c] = "plan"
    /\ IF closed
       THEN Return(c, FALSE)
       ELSE /\ Go(c, "plan", "create")
            /\ planned' = [planned EXCEPT ![c] = {k \in Keys : listeners[k] # None}]
            /\ UNCHANGED <<op, next, created, history>>
    /\ UNCHANGED <<manager, saved, sockets, victims, conn>>

\* The keys still to listen on, and those to close.
ToAdd(c) == {k \in Keys : next[c][k] # None} \ planned[c]
Missing(c) == ToAdd(c) \ {sockets[l].key : l \in created[c]}

\* Mutant: no listener is given up.
ToRemoveNothing(c) == {}

ToRemove(c) == planned[c] \ {k \in Keys : next[c][k] # None}

PortInUse(k) == \E l \in Listeners : sockets[l].key = k /\ sockets[l].state \in {"open", "closing"}

\* newManagedListener: the sockets are open, and connections are accepted.
Listen(c) ==
    /\ pc[c] = "create"
    /\ \E k \in Missing(c), l \in Listeners :
        /\ ~PortInUse(k) /\ sockets[l] = Free
        /\ sockets' = [sockets EXCEPT ![l] = [key |-> k, state |-> "open"]]
        /\ created' = [created EXCEPT ![c] = @ \union {l}]
    /\ UNCHANGED <<manager, saved, pc, op, next, planned, victims, history, conn>>

\* Mutant: what the call has opened so far stays open.
ListenFailsKeepOthers(c) ==
    /\ pc[c] = "create"
    /\ \E k \in Missing(c) : PortInUse(k) \/ ListenMayFail
    /\ pc' = [pc EXCEPT ![c] = "abort"]
    /\ created' = [created EXCEPT ![c] = {}]
    /\ UNCHANGED <<manager, saved, sockets, op, next, planned, victims, history, conn>>

\* The port is taken: what the call has opened so far is closed again.
ListenFails(c) ==
    /\ pc[c] = "create"
    /\ \E k \in Missing(c) : PortInUse(k) \/ ListenMayFail
    /\ pc' = [pc EXCEPT ![c] = "abort"]
    /\ victims' = [victims EXCEPT ![c] = created[c]]
    /\ created' = [created EXCEPT ![c] = {}]
    /\ UNCHANGED <<manager, saved, sockets, op, next, planned, history, conn>>

\* m.listeners with what the call has opened.
WithCreated(c) ==
    [k \in Keys |-> IF \E l \in created[c] : sockets[l].key = k
                    THEN CHOOSE l \in created[c] : sockets[l].key = k
                    ELSE listeners[k]]

\* What the map holds now under the keys to close, if it still holds any.
Removed(c) == {WithCreated(c)[k] : k \in ToRemove(c)} \ {None}

\* Mutant: the commit does not look whether the manager was stopped meanwhile.
CommitUnchecked(c) ==
    /\ pc[c] = "create" /\ Missing(c) = {}
    /\ pc' = [pc EXCEPT ![c] = "close"]
    /\ victims' = [victims EXCEPT ![c] = Removed(c)]
    /\ listeners' = [k \in Keys |-> IF k \in ToRemove(c) THEN None ELSE WithCreated(c)[k]]
    /\ rules' = next[c]
    /\ created' = [created EXCEPT ![c] = {}]
    /\ UNCHANGED <<closed, saved, sockets, op, next, planned, history, conn>>

\* Under the write lock: the new listeners go into the map, the rules are
\* replaced, and the listeners to close are taken out; or the manager has been
\* stopped, and the new listeners are closed again.
Commit(c) ==
    /\ pc[c] = "create" /\ Missing(c) = {}
    /\ IF closed
       THEN /\ pc' = [pc EXCEPT ![c] = "abort"]
            /\ victims' = [victims EXCEPT ![c] = created[c]]
            /\ UNCHANGED <<listeners, rules>>
       ELSE /\ pc' = [pc EXCEPT ![c] = "close"]
            /\ victims' = [victims EXCEPT ![c] = Removed(c)]
            /\ listeners' = [k \in Keys |-> IF k \in ToRemove(c) THEN None ELSE WithCreated(c)[k]]
            /\ rules' = next[c]
    /\ created' = [created EXCEPT ![c] = {}]
    /\ UNCHANGED <<closed, saved, sockets, op, next, planned, history, conn>>

\* SetStreamRules: the handler's copy and the file.
SaveRules(c) ==
    /\ pc[c] = "save"
    /\ saved' = next[c]
    /\ Return(c, TRUE)
    /\ UNCHANGED <<manager, sockets, victims, conn>>

\* Stop, from main: no reconciliation commits after it.
Stop(c) ==
    /\ ~closed
    /\ Begin(c, "stop", "close", NoRules)
    /\ closed' = TRUE
    /\ victims' = [victims EXCEPT ![c] = {listeners[k] : k \in Keys} \ {None}]
    /\ listeners' = [k \in Keys |-> None]
    /\ rules' = NoRules
    /\ UNCHANGED <<saved, sockets, planned, created, conn>>

-----------------------------------------------------------------------------
(* close of a listener state, one after the other *)

OnListener(l) == {x \in Conns : conn[x].at = l}

BeginClose(c) ==
    /\ \A l \in victims[c] : sockets[l].state = "open"
    /\ \E l \in victims[c] : sockets' = [sockets EXCEPT ![l].state = "closing"]
    /\ UNCHANGED <<manager, saved, pc, op, next, planned, created, victims, history, conn>>

\* Mutant: the accepted connections are left to their clients.
ShutListenerOnly(c) ==
    /\ \E l \in victims[c] :
        /\ sockets[l].state = "closing"
        /\ sockets' = [sockets EXCEPT ![l].state = "shut"]
    /\ UNCHANGED <<manager, saved, pc, op, next, planned, created, victims, history, conn>>

\* The sockets are closed, then the clients of the TCP connections, or the
\* upstream side of the UDP sessions.
Shut(c) ==
    /\ \E l \in victims[c] :
        /\ sockets[l].state = "closing"
        /\ sockets' = [sockets EXCEPT ![l].state = "shut"]
        /\ conn' = [x \in Conns |->
               IF x \notin OnListener(l) THEN conn[x]
               ELSE IF sockets[l].key \in TCPKeys THEN [conn[x] EXCEPT !.client = FALSE]
               ELSE [conn[x] EXCEPT !.upstream = FALSE]]
    /\ UNCHANGED <<manager, saved, pc, op, next, planned, created, victims, history>>

\* s.wg.Wait(): until the last connection has ended.
Closed(c) ==
    /\ \E l \in victims[c] :
        /\ sockets[l].state = "shut" /\ OnListener(l) = {}
        /\ sockets' = [sockets EXCEPT ![l] = Free]
        /\ victims' = [victims EXCEPT ![c] = @ \ {l}]
    /\ UNCHANGED <<manager, saved, pc, op, next, planned, created, history, conn>>

AllClosed(c) ==
    /\ pc[c] \in {"close", "abort"} /\ victims[c] = {}
    /\ IF pc[c] = "close" /\ op[c] = "set"
       THEN Go(c, "close", "save") /\ UNCHANGED <<op, next, planned, created, history>>
       ELSE Return(c, pc[c] = "close")
    /\ UNCHANGED <<manager, saved, sockets, victims, conn>>

-----------------------------------------------------------------------------
(* Connections: handleConn, handleUDPPacket and runUDPSession *)

KeyOf(x) == sockets[conn[x].at].key

End(x) == conn' = [conn EXCEPT ![x] = NoConn]

calls == <<saved, sockets, pc, op, next, planned, created, victims, history>>

\* Each readLoop has one packet in hand at a time, until its session is there.
ReadsOn(l) == Cardinality({y \in OnListener(l) : conn[y].stage # "relay"}) < ReadLoops

\* A connection is accepted (beginConn refuses it when the listener is
\* closing), or the first packet of a UDP client is read.
Accept(x, l) ==
    /\ conn[x] = NoConn
    /\ sockets[l].state = "open"
    /\ sockets[l].key \in UDPKeys => ReadsOn(l)
    /\ conn' = [conn EXCEPT ![x] = [at |-> l, stage |-> "rule", client |-> TRUE, upstream |-> FALSE]]
    /\ UNCHANGED <<manager, calls>>

\* A listener without a rule, not yet committed or removed, serves nobody.
ReadRule(x) ==
    /\ conn[x].stage = "rule"
    /\ IF rules[KeyOf(x)] = None
       THEN End(x)
       ELSE conn' = [conn EXCEPT ![x].stage = "check"]
    /\ UNCHANGED <<manager, calls>>

\* The address is not visible, the auth service refuses or fails, or the
\* target cannot be dialled.
Refuse(x) ==
    /\ conn[x].stage = "check"
    /\ End(x)
    /\ UNCHANGED <<manager, calls>>

\* storeSession refuses the session of a closing listener.
Stored(x) == sockets[conn[x].at].state = "open"

\* The target is dialled, and the relay starts.
Connect(x) ==
    /\ conn[x].stage = "check"
    /\ IF KeyOf(x) \in UDPKeys /\ ~Stored(x)
       THEN End(x)
       ELSE conn' = [conn EXCEPT ![x].stage = "relay", ![x].upstream = TRUE]
    /\ UNCHANGED <<manager, calls>>

ClientLeaves(x) ==
    /\ conn[x].client /\ KeyOf(x) \in TCPKeys
    /\ conn' = [conn EXCEPT ![x].client = FALSE]
    /\ UNCHANGED <<manager, calls>>

\* Another packet of a UDP client goes to the session it has, as long as there
\* is a rule, whatever it says by now; a write that fails closes the session.
PacketFails(x) ==
    /\ conn[x].stage = "relay" /\ conn[x].upstream
    /\ KeyOf(x) \in UDPKeys /\ rules[KeyOf(x)] # None
    /\ conn' = [conn EXCEPT ![x].upstream = FALSE]
    /\ UNCHANGED <<manager, calls>>

\* The target closes its side, or a UDP session is idle too long.
UpstreamEnds(x) ==
    /\ conn[x].upstream
    /\ conn' = [conn EXCEPT ![x].upstream = FALSE]
    /\ UNCHANGED <<manager, calls>>

\* relayBidirectional waits for both directions; runUDPSession reads only from
\* the upstream side.
RelayOver(x) == ~conn[x].upstream /\ ~conn[x].client
SessionOver(x) == ~conn[x].upstream

RelayEnds(x) ==
    /\ conn[x].stage = "relay"
    /\ IF KeyOf(x) \in TCPKeys THEN RelayOver(x) ELSE SessionOver(x)
    /\ End(x)
    /\ UNCHANGED <<manager, calls>>

-----------------------------------------------------------------------------
CallStep(c) ==
    \/ SaveNoRules(c) \/ Plan(c) \/ Listen(c) \/ ListenFails(c) \/ Commit(c)
    \/ SaveRules(c) \/ BeginClose(c) \/ Shut(c) \/ Closed(c) \/ AllClosed(c)

ConnStep(x) == ReadRule(x) \/ Refuse(x) \/ Connect(x) \/ RelayEnds(x)

Next ==
    \/ \E c \in Callers : SetRules(c) \/ FlushRules(c) \/ Stop(c) \/ CallStep(c)
    \/ \E x \in Conns :
        \/ ConnStep(x) \/ PacketFails(x) \/ ClientLeaves(x) \/ UpstreamEnds(x)
        \/ \E l \in Listeners : Accept(x, l)

Spec == Init /\ [][Next]_vars

\* Goroutines run, and timeouts end what the auth service and a dial take.
FairSpec ==
    /\ Spec
    /\ \A c \in Callers : WF_vars(CallStep(c))
    /\ \A x \in Conns : WF_vars(ConnStep(x))

\* In addition, a target closes its side once the gateway has half-closed it.
FriendlySpec == FairSpec /\ \A x \in Conns : WF_vars(~conn[x].client /\ UpstreamEnds(x))

-----------------------------------------------------------------------------
(* Properties *)

Owners(l) == {c \in Callers : l \in created[c] \union victims[c]}

\* Every listener state with a socket or a connection is in the map under its
\* key or in the hands of exactly one call, never both and never nowhere:
\* however calls overlap, no port stays open that nobody can close, and none
\* is closed twice (Reconcile, Stop).
SocketsAreOwned ==
    \A l \in Listeners :
        LET mapped == {k \in Keys : listeners[k] = l}
        IN  IF sockets[l] = Free
            THEN mapped = {} /\ Owners(l) = {} /\ OnListener(l) = {}
            ELSE \/ mapped = {sockets[l].key} /\ sockets[l].state = "open" /\ Owners(l) = {}
                 \/ mapped = {} /\ \E c \in Callers : Owners(l) = {c}

\* Once the manager is stopped and the calls have returned, nothing listens
\* and nothing is relayed, although a reconciliation may have been on its way.
StopSilences ==
    closed /\ (\A c \in Callers : pc[c] = "idle") =>
        /\ \A l \in Listeners : sockets[l] = Free
        /\ \A x \in Conns : conn[x] = NoConn

\* A call that succeeds with no other at its side leaves what it asked for, and
\* mends what overlapping calls have left: it listens on the keys of the rules,
\* the rules are the saved ones, and connections of removed keys are gone.
LoneCallTakesEffect ==
    settled /\ ~closed =>
        /\ rules = saved
        /\ \A k \in Keys : listeners[k] # None <=> rules[k] # None
        /\ \A x \in Conns : conn[x] # NoConn => rules[KeyOf(x)] # None

\* Every call returns: closing a listener does not wait for ever.
EveryCallReturns == \A c \in Callers : pc[c] # "idle" ~> pc[c] = "idle"

\* README.md: changes of the configuration are saved in config.json.  With no
\* call on its way, the rules in effect are the saved ones.  The code does not
\* keep this: of two calls one can commit last and the other save last.
RulesInEffectAreSaved ==
    ~closed /\ (\A c \in Callers : pc[c] = "idle") => rules = saved

\* README.md, the same promise over time: rules that took effect are saved.  The
\* code does not keep this: a silent target blocks the call before it saves.
CommittedRulesGetSaved ==
    \A c \in Callers : op[c] = "set" /\ pc[c] = "close" ~> pc[c] = "save"

=============================================================================
