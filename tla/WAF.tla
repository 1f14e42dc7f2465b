--------------------------------- MODULE WAF ---------------------------------
(***************************************************************************)
(* The web application firewall of pkg/waf as pkg/proxy uses it: Runtime,   *)
(* whose engine, configuration and exclusions are three values that the     *)
(* calls of the admin API replace one after another and that requests read  *)
(* one after another, none under a lock; the loader, which selects the rule *)
(* files that are enabled and compiles them; and EventStore, which keeps    *)
(* what the requests tripped over until somebody drains it.                 *)
(*                                                                          *)
(* The rule engine is Coraza's: which files' rules catch which request is   *)
(* given, and an engine compiled "On" interrupts what it catches.           *)
(***************************************************************************)
EXTENDS Integers, FiniteSets, Sequences, SequencesExt, Keeping

CONSTANTS
    Admins,       \* callers of SetWAFConfig and ReloadWAFBundle
    Requests,
    Files,        \* rule files, in the order system/*.conf, custom/*.conf sort
    Always,       \* the initialization file, which cannot be disabled
    DefaultOff,   \* the system files that are off unless the state says on
    Text,         \* the lines of every file that matter: rules with their
                  \* number, and SecRuleUpdateTargetById of a number
    Catches,      \* the files whose rules catch a request, by its headers or by
                  \* what of its body can be read
    Broken,       \* requests whose body cannot be read
    Disks,        \* what may be found under rules_dir
    RawConfigs,   \* configurations as they arrive: enabled, mode, and lists of
                  \* hosts and of paths that are excluded, each blank or the
                  \* requests'
    NoEngine,     \* a nil CompiledRuntime
    MaxEvents,    \* EventStore.maxEntries
    TTL,          \* EventStore.ttl
    Limits,       \* limits of Drain, as they are asked for
    DrainDefault, DrainMax,   \* what becomes of none (500), and of all others (5000)
    Budgets       \* bounds: how many ticks, calls, edits of the rule files,
                  \* evaluations, restarts and looks at the
                  \* events a behaviour has

Modes == {"off", "detection", "blocking"}
Line == [is : {"rule", "update", "comment"}, id : Nat]
DiskType == [present : SUBSET Range(Files), state : [Range(Files) -> {"on", "off", "unset"}],
             bad : SUBSET Range(Files), corrupt : BOOLEAN]

ASSUME WAFAssumption ==
    /\ MaxEvents \in Nat \ {0} /\ TTL \in Nat \ {0} /\ Limits \subseteq Int
    /\ DrainDefault \in Nat \ {0} /\ DrainMax \in Nat \ {0}
    /\ Files \in Seq(Range(Files)) /\ Always \in Range(Files) /\ DefaultOff \subseteq Range(Files)
    /\ Text \in [Range(Files) -> Seq(Line)] /\ Catches \in [Requests -> SUBSET Range(Files)]
    /\ Broken \subseteq Requests /\ Disks \subseteq DiskType
    /\ RawConfigs \subseteq [enabled : BOOLEAN, mode : Modes \union {"", "unknown"},
                       hosts : SUBSET {"", "host"}, paths : SUBSET {"", "path"}]
    /\ Budgets \subseteq [time : Nat, calls : Nat, edits : Nat, evals : Nat,
                          restarts : Nat, drains : Nat]

VARIABLES
    disk,       \* the rule files and rules-state.json
    rt,         \* Runtime: current, config, exclusions
    saved,      \* Handler.WAFConfig, and what is on disk of it
    admin,      \* the call every admin is making
    req,        \* the evaluation of every request
    events,     \* EventStore.order, with the time every event expires at
    clock,
    regimes,    \* what the last call that ran alone, and the call that is
                \* being made alone, put in force
    torn,       \* calls overlapped, and none has run alone since
    added, drained,   \* the events added, and those handed out, in order
    left        \* what is left of the budget

vars == <<disk, rt, saved, admin, req, events, clock, regimes, torn, added, drained, left>>

Spend(what) == left[what] > 0 /\ left' = [left EXCEPT ![what] = @ - 1]

-----------------------------------------------------------------------------
(* config.go                                                                *)

\* A blank path is left out before it could become the root of all paths.
NormalizeStringList(values) == values \ {""}
NormalizePathPrefixes(values) == values \ {""}

NormalizeConfig(cfg) ==
    [enabled |-> cfg.enabled, mode |-> IF cfg.mode \in Modes THEN cfg.mode ELSE "blocking",
     excluded |-> NormalizeStringList(cfg.hosts) \union NormalizePathPrefixes(cfg.paths) # {}]

Configs == {NormalizeConfig(cfg) : cfg \in RawConfigs}

IsActive(cfg) == cfg.enabled /\ cfg.mode # "off"

-----------------------------------------------------------------------------
(* loader.go                                                                *)

EnabledByDefault(file) == file \notin DefaultOff

Enabled(file, d) == \/ file = Always
                    \/ d.state[file] = "on"
                    \/ d.state[file] = "unset" /\ EnabledByDefault(file)

LoadOrder(d) == Kept(Files, {i \in DOMAIN Files : Files[i] \in d.present /\ Enabled(Files[i], d)})

RuleIDActionIDs(line) == IF line.is = "rule" THEN {line.id} ELSE {}
DefinedRuleIDs(targets) ==
    UNION {UNION {RuleIDActionIDs(Text[file][i]) : i \in DOMAIN Text[file]} : file \in Range(targets)}

\* A mutant: the directives are compiled as they are.
FilteredKeepsAll(lines, defined) == lines

\* SecRuleUpdateTargetById of a rule that no target defines becomes a comment.
MissingUpdateTarget(line, defined) == line.is = "update" /\ line.id \notin defined
Filtered(lines, defined) ==
    [i \in DOMAIN lines |->
        IF MissingUpdateTarget(lines[i], defined) THEN [lines[i] EXCEPT !.is = "comment"] ELSE lines[i]]

\* Coraza compiles the targets if it can read them all, and every rule whose
\* target is updated is defined before that.
Compiles(targets, d) ==
    LET lines == FlattenSeq([i \in DOMAIN targets |-> Filtered(Text[targets[i]], DefinedRuleIDs(targets))])
    IN  /\ \A i \in DOMAIN targets : targets[i] \in d.present /\ targets[i] \notin d.bad
        /\ \A i \in DOMAIN lines :
              lines[i].is = "update" => \E j \in 1..(i - 1) : lines[j] = [is |-> "rule", id |-> lines[i].id]

SecRuleEngine(cfg) ==
    CASE cfg.mode = "blocking" -> "On" [] cfg.mode = "off" -> "Off" [] OTHER -> "DetectionOnly"

\* The rule sets that can be loaded, and what a configuration makes of them.
Selections == {LoadOrder(d) : d \in Disks} \union {<<>>}
RuleSets == {Range(targets) : targets \in Selections} \union {{}}
Regimes == [cfg : Configs, rules : RuleSets]

\* A nil CompiledRuntime is none that buildCompiledRuntime returns.
ASSUME NoEngineAssumption == NoEngine \notin Regimes

-----------------------------------------------------------------------------
(* Calls of the admin API                                                   *)

NoCall == [pc |-> "idle", name |-> "none", cfg |-> CHOOSE c \in Configs : TRUE, engine |-> NoEngine,
           targets |-> <<>>, scanned |-> NoEngine, alone |-> TRUE]
Calling == {a \in Admins : admin[a].pc # "idle"}

\* The rules of an engine, of which there are none without one.
RulesOf(engine) == IF engine = NoEngine THEN {} ELSE engine.rules

Caught(r, rules) == Catches[r] \intersect rules # {}

\* What a configuration and the rules loaded for it make of a request.
Blocks(r, regime) == /\ IsActive(regime.cfg) /\ regime.cfg.mode = "blocking"
                     /\ ~regime.cfg.excluded /\ Caught(r, regime.rules)

\* The first thing a call that runs alone stores puts its regime in force, in
\* part; requests may go by the old one or the new one until it returns.
Enter(a, regime) ==
    IF admin[a].alone /\ regime \notin regimes
    THEN /\ regimes' = regimes \union {regime}
         /\ req' = [r \in Requests |-> [req[r] EXCEPT !.may = @ \union {regime}]]
    ELSE UNCHANGED <<regimes, req>>

Settle(a, ok) ==
    /\ torn' = IF admin[a].alone THEN torn /\ ~ok ELSE TRUE
    /\ regimes' = IF admin[a].alone /\ ok THEN {[cfg |-> rt.config, rules |-> RulesOf(rt.current)]}
                  ELSE regimes
    /\ admin' = [admin EXCEPT ![a] = NoCall]

Begin(a, name) ==
    /\ a \notin Calling /\ Spend("calls")
    /\ \E cfg \in Configs :
          admin' = [b \in Admins |->
              IF b = a THEN [NoCall EXCEPT !.name = name, !.cfg = cfg, !.alone = Calling = {},
                                           !.pc = IF ~IsActive(cfg) THEN "clear"
                                                  ELSE IF name = "set" THEN "look" ELSE "scan"]
              ELSE [admin[b] EXCEPT !.alone = b \notin Calling]]
    /\ torn' = (torn \/ Calling # {})
    /\ req' = [r \in Requests |-> [req[r] EXCEPT !.torn = @ \/ Calling # {}]]
    /\ UNCHANGED <<disk, rt, saved, events, clock, regimes, added, drained>>

SetConfig(a) == Begin(a, "set")
Reload(a) == Begin(a, "reload")

\* The configuration is inactive: the engine goes first.
ClearEngine(a) ==
    /\ admin[a].pc = "clear"
    /\ rt' = [rt EXCEPT !.current = NoEngine]
    /\ admin' = [admin EXCEPT ![a].pc = "config"]
    /\ Enter(a, [cfg |-> admin[a].cfg, rules |-> {}])
    /\ UNCHANGED <<disk, saved, events, clock, torn, added, drained, left>>

\* SetConfig builds an engine only where there is one.
LookForEngine(a) ==
    /\ admin[a].pc = "look"
    /\ admin' = [admin EXCEPT ![a].pc = IF rt.current = NoEngine THEN "config" ELSE "scan"]
    /\ UNCHANGED <<disk, rt, saved, req, events, clock, regimes, torn, added, drained, left>>

\* buildCompiledRuntime reads which files are enabled, and the rules they define,
\* and compiles them later.
ScanRules(a) ==
    /\ admin[a].pc = "scan" /\ ~disk.corrupt
    /\ admin' = [admin EXCEPT ![a].pc = "compile", ![a].targets = LoadOrder(disk), ![a].scanned = disk]
    /\ UNCHANGED <<disk, rt, saved, req, events, clock, regimes, torn, added, drained, left>>

CompileRules(a) ==
    /\ admin[a].pc = "compile" /\ Compiles(admin[a].targets, disk)
    /\ admin' = [admin EXCEPT ![a].pc = "install",
                              ![a].engine = [cfg |-> admin[a].cfg, rules |-> Range(admin[a].targets)]]
    /\ UNCHANGED <<disk, rt, saved, req, events, clock, regimes, torn, added, drained, left>>

\* rules-state.json cannot be parsed, or the rules do not compile.
CannotBuild(a) ==
    \/ admin[a].pc = "scan" /\ disk.corrupt
    \/ admin[a].pc = "compile" /\ ~Compiles(admin[a].targets, disk)

\* A mutant: an engine that cannot be built again is dropped.
BuildFailsDrop(a) ==
    /\ CannotBuild(a)
    /\ Settle(a, FALSE)
    /\ rt' = [rt EXCEPT !.current = NoEngine]
    /\ UNCHANGED <<disk, saved, req, events, clock, added, drained, left>>

\* The call fails, and what was in force stays.
BuildFails(a) ==
    /\ CannotBuild(a)
    /\ Settle(a, FALSE)
    /\ UNCHANGED <<disk, rt, saved, req, events, clock, added, drained, left>>

InstallEngine(a) ==
    /\ admin[a].pc = "install"
    /\ rt' = [rt EXCEPT !.current = admin[a].engine]
    /\ admin' = [admin EXCEPT ![a].pc = "config"]
    /\ Enter(a, [cfg |-> admin[a].cfg, rules |-> admin[a].engine.rules])
    /\ UNCHANGED <<disk, saved, events, clock, torn, added, drained, left>>

StoreConfig(a) ==
    /\ admin[a].pc = "config"
    /\ rt' = [rt EXCEPT !.config = admin[a].cfg]
    /\ admin' = [admin EXCEPT ![a].pc = "exclusions"]
    /\ Enter(a, [cfg |-> admin[a].cfg, rules |-> RulesOf(rt.current)])
    /\ UNCHANGED <<disk, saved, events, clock, torn, added, drained, left>>

StoreExclusions(a) ==
    /\ admin[a].pc = "exclusions"
    /\ rt' = [rt EXCEPT !.exclusions = admin[a].cfg.excluded]
    /\ admin' = [admin EXCEPT ![a].pc = IF admin[a].name = "set" THEN "save" ELSE "reread"]
    /\ UNCHANGED <<disk, saved, req, events, clock, regimes, torn, added, drained, left>>

\* ReloadWAFBundle saves what the runtime has by then.
RereadConfig(a) ==
    /\ admin[a].pc = "reread"
    /\ admin' = [admin EXCEPT ![a].cfg = rt.config, ![a].pc = "save"]
    /\ UNCHANGED <<disk, rt, saved, req, events, clock, regimes, torn, added, drained, left>>

SaveConfig(a) ==
    /\ admin[a].pc = "save"
    /\ saved' = admin[a].cfg
    /\ Settle(a, TRUE)
    /\ UNCHANGED <<disk, rt, req, events, clock, added, drained, left>>

\* Somebody changes the files under rules_dir.
EditRules ==
    /\ Spend("edits")
    /\ disk' \in Disks \ {disk}
    /\ UNCHANGED <<rt, saved, admin, req, events, clock, regimes, torn, added, drained>>

-----------------------------------------------------------------------------
(* Evaluate                                                                 *)

NoEval == [pc |-> "idle", mode |-> "off", at |-> 0, blocked |-> FALSE, may |-> {}, torn |-> FALSE]

Return(r, blocked) == req' = [req EXCEPT ![r].pc = "done", ![r].blocked = blocked]

ReadConfig(r) ==
    /\ req[r].pc \in {"idle", "done"} /\ Spend("evals")
    /\ req' = [req EXCEPT ![r] = [NoEval EXCEPT !.mode = rt.config.mode, !.may = regimes, !.torn = torn,
                                                !.pc = IF IsActive(rt.config) THEN "exclusions" ELSE "done"]]
    /\ UNCHANGED <<disk, rt, saved, admin, events, clock, regimes, torn, added, drained>>

ReadExclusions(r) ==
    /\ req[r].pc = "exclusions"
    /\ req' = [req EXCEPT ![r].pc = IF rt.exclusions THEN "done" ELSE "engine"]
    /\ UNCHANGED <<disk, rt, saved, admin, events, clock, regimes, torn, added, drained, left>>

\* What is left of the engine's answer: an interruption if it was compiled to
\* block, and whether there is anything to record.
Interrupts(r, engine) == Caught(r, engine.rules) /\ SecRuleEngine(engine.cfg) = "On"
Recorded(r, engine) == r \in Broken \/ Caught(r, engine.rules)

\* A mutant: whatever the engine catches is blocked when the mode read says so.
RunEngineByMode(r) ==
    /\ req[r].pc = "engine"
    /\ IF rt.current = NoEngine \/ ~Recorded(r, rt.current) THEN Return(r, FALSE)
       ELSE req' = [req EXCEPT ![r].pc = "event", ![r].at = clock,
                               ![r].blocked = Caught(r, rt.current.rules) /\ req[r].mode = "blocking"]
    /\ UNCHANGED <<disk, rt, saved, admin, events, clock, regimes, torn, added, drained, left>>

\* The request that is interrupted is let through all the same when the
\* configuration it read says to detect.  One whose body cannot be read is
\* recorded, and blocked if it is caught all the same.  The event takes its time before it gets the store's lock.
RunEngine(r) ==
    /\ req[r].pc = "engine"
    /\ IF rt.current = NoEngine \/ ~Recorded(r, rt.current) THEN Return(r, FALSE)
       ELSE req' = [req EXCEPT ![r].pc = "event", ![r].at = clock,
                               ![r].blocked = Interrupts(r, rt.current) /\ req[r].mode # "detection"]
    /\ UNCHANGED <<disk, rt, saved, admin, events, clock, regimes, torn, added, drained, left>>

-----------------------------------------------------------------------------
(* EventStore                                                               *)

NewTraceID == Len(added) + 1
BuildEvent(r) == [id |-> NewTraceID, expires |-> req[r].at + TTL]

Unexpired(store, now) == Kept(store, {i \in DOMAIN store : now <= store[i].expires})
Newest(store, n) == IF Len(store) <= n THEN store ELSE SubSeq(store, Len(store) - n + 1, Len(store))

\* A mutant: the event is refused when the store is full.
AddEventIfRoom(r) ==
    /\ req[r].pc = "event"
    /\ events' = LET store == Unexpired(events, req[r].at)
                 IN  IF Len(store) >= MaxEvents THEN store ELSE Append(store, BuildEvent(r))
    /\ added' = Append(added, req[r].at)
    /\ Return(r, req[r].blocked)
    /\ UNCHANGED <<disk, rt, saved, admin, clock, regimes, torn, drained, left>>

AddEvent(r) ==
    /\ req[r].pc = "event"
    /\ events' = Newest(Append(Unexpired(events, req[r].at), BuildEvent(r)), MaxEvents)
    /\ added' = Append(added, req[r].at)
    /\ Return(r, req[r].blocked)
    /\ UNCHANGED <<disk, rt, saved, admin, clock, regimes, torn, drained, left>>

\* Status asks for the number of events, which removes those that expired.
Status ==
    /\ Spend("drains")
    /\ events' = Unexpired(events, clock)
    /\ UNCHANGED <<disk, rt, saved, admin, req, clock, regimes, torn, added, drained>>

AskedLimits ==
    {IF limit <= 0 THEN DrainDefault ELSE IF limit > DrainMax THEN DrainMax ELSE limit : limit \in Limits}

Drain ==
    /\ Spend("drains")
    /\ \E limit \in AskedLimits :
          LET n == IF limit <= 0 \/ limit > MaxEvents THEN MaxEvents ELSE limit
              store == Unexpired(events, clock)
              m == IF n < Len(store) THEN n ELSE Len(store)
          IN  /\ drained' = drained \o [i \in 1..m |-> store[i].id]
              /\ events' = SubSeq(store, m + 1, Len(store))
    /\ UNCHANGED <<disk, rt, saved, admin, req, clock, regimes, torn, added>>

Tick ==
    /\ Spend("time") /\ clock' = clock + 1
    /\ UNCHANGED <<disk, rt, saved, admin, req, events, regimes, torn, added, drained>>

-----------------------------------------------------------------------------

\* NewHandler: the runtime has the saved configuration, and an engine if that is
\* active and the rules compile.
NewRuntime(cfg) ==
    [current |-> IF IsActive(cfg) /\ ~disk.corrupt /\ Compiles(LoadOrder(disk), disk)
                 THEN [cfg |-> cfg, rules |-> Range(LoadOrder(disk))] ELSE NoEngine,
     config |-> cfg, exclusions |-> cfg.excluded]

\* The program stops and starts again; calls, requests and events are lost.
Restart ==
    /\ Spend("restarts")
    /\ rt' = NewRuntime(saved)
    /\ regimes' = {[cfg |-> saved, rules |-> RulesOf(rt'.current)]} /\ torn' = FALSE
    /\ admin' = [a \in Admins |-> NoCall] /\ req' = [r \in Requests |-> NoEval]
    /\ events' = <<>> /\ added' = <<>> /\ drained' = <<>>
    /\ UNCHANGED <<disk, saved, clock>>

Init ==
    /\ disk \in Disks /\ left \in Budgets
    /\ saved \in Configs /\ rt = NewRuntime(saved)
    /\ regimes = {[cfg |-> saved, rules |-> RulesOf(rt.current)]} /\ torn = FALSE
    /\ admin = [a \in Admins |-> NoCall] /\ req = [r \in Requests |-> NoEval]
    /\ events = <<>> /\ added = <<>> /\ drained = <<>> /\ clock = 0

AdminStep(a) ==
    \/ SetConfig(a) \/ Reload(a) \/ ClearEngine(a) \/ LookForEngine(a) \/ ScanRules(a) \/ CompileRules(a)
    \/ BuildFails(a) \/ InstallEngine(a) \/ StoreConfig(a) \/ StoreExclusions(a) \/ RereadConfig(a)
    \/ SaveConfig(a)
RequestStep(r) == ReadConfig(r) \/ ReadExclusions(r) \/ RunEngine(r) \/ AddEvent(r)

Next == \/ \E a \in Admins : AdminStep(a)
        \/ \E r \in Requests : RequestStep(r)
        \/ EditRules \/ Status \/ Drain \/ Tick \/ Restart

Spec == Init /\ [][Next]_vars

-----------------------------------------------------------------------------
(* Properties                                                               *)

EngineType == {NoEngine} \union Regimes

\* The state is of its types, and no engine is ever in place that was compiled
\* for an inactive configuration.
TypeOK ==
    /\ disk \in Disks /\ clock \in Nat /\ torn \in BOOLEAN
    /\ rt \in [current : EngineType, config : Configs, exclusions : BOOLEAN]
    /\ saved \in Configs /\ saved.mode \in Modes
    /\ \A a \in Admins : admin[a].cfg \in Configs /\ admin[a].engine \in EngineType
    /\ \A r \in Requests : req[r].may \subseteq Regimes
    /\ rt.current # NoEngine => IsActive(rt.current.cfg)

\* Whatever requests read of a configuration, exclusions and an engine that are
\* being replaced one after the other, a request is blocked, or let through,
\* only if that is what one configuration in force while it was evaluated says;
\* unless calls of the admin API overlapped, or one call changed both what is
\* excluded and what is done with the rest.
DecisionExplained ==
    \A r \in Requests :
        LET rest(regime) == <<regime.cfg.enabled, regime.cfg.mode, regime.rules>>
        IN  /\ req[r].pc = "done" /\ ~req[r].torn
            /\ \/ \A p, q \in req[r].may : p.cfg.excluded = q.cfg.excluded
               \/ \A p, q \in req[r].may : rest(p) = rest(q)
            => \E regime \in req[r].may : req[r].blocked = Blocks(r, regime)

\* Between calls, if the last to succeed overlapped with no other: the engine
\* was compiled for the configuration that requests read, the exclusions and
\* the saved configuration are its own, and a call that failed since changed
\* nothing.
RuntimeAgrees ==
    Calling = {} /\ ~torn =>
        /\ regimes = {[cfg |-> rt.config, rules |-> RulesOf(rt.current)]}
        /\ rt.current # NoEngine => rt.current.cfg = rt.config
        /\ rt.exclusions = rt.config.excluded /\ saved = rt.config

\* What the rule files see to: every rule is defined before its targets are
\* updated, in the order in which the files are loaded.
DefinedFirst ==
    \A m, n \in DOMAIN Files : \A l \in DOMAIN Text[Files[m]], k \in DOMAIN Text[Files[n]] :
        LET rule == Text[Files[m]][l]
            update == Text[Files[n]][k]
        IN  rule.is = "rule" /\ update.is = "update" /\ rule.id = update.id => m < n \/ (m = n /\ l < k)

\* Whichever files are switched off, what is left compiles, though it may update
\* the targets of rules that are gone: a build fails only if an enabled file is
\* bad, or the files changed under it.
AnySelectionCompiles ==
    \A a \in Admins :
        admin[a].pc = "compile" /\ admin[a].scanned = disk /\ Range(LoadOrder(disk)) \intersect disk.bad = {}
        => Compiles(admin[a].targets, disk)

\* Events are handed out in the order they were added, each once, and one that
\* was neither handed out nor is in the store is too old, or followed by as
\* many as the store can hold.
EventsLostOnlyByLimits ==
    LET ids == [i \in DOMAIN events |-> events[i].id]
        seen == drained \o ids
    IN  /\ Len(events) <= MaxEvents
        /\ \A i, j \in DOMAIN seen : i < j => seen[i] < seen[j]
        /\ \A n \in DOMAIN added :
              n \in Range(seen) \/ clock > added[n] + TTL \/ Len(added) - n >= MaxEvents

=============================================================================
