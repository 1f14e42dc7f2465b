------------------------------- MODULE WAFProofs -------------------------------
(***************************************************************************)
(* Proofs about WAF: what the runtime is between calls of the admin API,   *)
(* and that a request is dealt with as one configuration says, for any     *)
(* numbers of callers and requests, any rule files and any configurations; *)
(* that events are lost by the store's limits only, and that any selection *)
(* of the rule files compiles.                                             *)
(***************************************************************************)
EXTENDS WAF, WellFoundedInduction, TLAPS

-----------------------------------------------------------------------------
(* The inductive invariant *)

\* Where a call has stored nothing yet, and everywhere.
Before == {"idle", "clear", "look", "scan", "compile", "install"}
Stages == Before \union {"config", "exclusions", "reread", "save"}

Call == [pc : Stages, name : {"none", "set", "reload"}, cfg : Configs, engine : EngineType,
         targets : Selections, scanned : Disks \union {NoEngine}, alone : BOOLEAN]
Eval == [pc : {"idle", "exclusions", "engine", "event", "done"}, mode : Modes, at : Nat,
         blocked : BOOLEAN, may : SUBSET Regimes, torn : BOOLEAN]

\* The types of what the calls and the requests use.
Types ==
    /\ disk \in Disks /\ clock \in Nat /\ torn \in BOOLEAN /\ regimes \subseteq Regimes
    /\ rt \in [current : EngineType, config : Configs, exclusions : BOOLEAN] /\ saved \in Configs
    /\ admin \in [Admins -> Call] /\ req \in [Requests -> Eval]

\* The regime that the engine and the configuration in place make.
InPlace == [cfg |-> rt.config, rules |-> RulesOf(rt.current)]

\* How far a call is: it builds engines for its own active configuration, and if
\* it is alone, what it stored is still there.
CallStages ==
    /\ rt.current # NoEngine => IsActive(rt.current.cfg)
    /\ \A a \in Admins :
        /\ admin[a].pc \in {"look", "scan", "compile", "install"} => IsActive(admin[a].cfg)
        /\ admin[a].pc = "install" => admin[a].engine \in Regimes /\ admin[a].engine.cfg = admin[a].cfg
        /\ admin[a].pc # "idle" /\ ~admin[a].alone => torn
        /\ admin[a].pc # "idle" /\ admin[a].alone =>
            /\ \A b \in Admins \ {a} : admin[b].pc = "idle"
            /\ admin[a].pc \notin Before =>
                  rt.current = NoEngine \/ rt.current.cfg = admin[a].cfg
            /\ admin[a].pc \in {"exclusions", "reread", "save"} =>
                  rt.config = admin[a].cfg /\ InPlace \in regimes
            /\ admin[a].pc \in {"reread", "save"} => rt.exclusions = admin[a].cfg.excluded

\* What the last call that ran alone left, until the next one stores something.
Agreed ==
    ~torn /\ (\A a \in Admins : admin[a].pc \in Before) =>
        /\ regimes = {InPlace}
        /\ rt.current # NoEngine => rt.current.cfg = rt.config
        /\ rt.exclusions = rt.config.excluded /\ saved = rt.config

\* Unless calls overlapped, whatever a request can read is of a regime in force.
InForce ==
    ~torn =>
        /\ \E g \in regimes : g.cfg = rt.config
        /\ \E g \in regimes : g.cfg.excluded = rt.exclusions
        /\ \E g \in regimes : g.rules = RulesOf(rt.current)
        /\ rt.current # NoEngine =>
              \E g \in regimes : g.cfg = rt.current.cfg /\ g.rules = rt.current.rules

Rest(regime) == <<regime.cfg.enabled, regime.cfg.mode, regime.rules>>
OneChange(may) ==
    \/ \A p, q \in may : p.cfg.excluded = q.cfg.excluded
    \/ \A p, q \in may : Rest(p) = Rest(q)

\* What a request read so far is of a regime that was in force meanwhile.
Evaluations ==
    \A r \in Requests : req[r].pc # "idle" /\ ~req[r].torn =>
        /\ ~torn /\ regimes \subseteq req[r].may
        /\ req[r].pc \in {"exclusions", "engine"} => \E g \in req[r].may : g.cfg.mode = req[r].mode
        /\ req[r].pc \in {"exclusions", "engine"} => req[r].blocked = FALSE
        /\ req[r].pc = "engine" => \E g \in req[r].may : ~g.cfg.excluded
        /\ req[r].pc \in {"event", "done"} /\ OneChange(req[r].may) =>
              \E g \in req[r].may : req[r].blocked = Blocks(r, g)

-----------------------------------------------------------------------------
(* What the state is made of *)

\* A configuration, as it is normalised (NormalizeConfig).
LEMMA ConfigFields ==
    \A cfg \in Configs : cfg.enabled \in BOOLEAN /\ cfg.mode \in Modes /\ cfg.excluded \in BOOLEAN
<1> SUFFICES ASSUME NEW cfg \in Configs
             PROVE  cfg.enabled \in BOOLEAN /\ cfg.mode \in Modes /\ cfg.excluded \in BOOLEAN
  OBVIOUS
<1>1. PICK raw \in RawConfigs : cfg = NormalizeConfig(raw)
  BY DEF Configs
<1>2. raw.enabled \in BOOLEAN
  BY WAFAssumption
<1>3. "blocking" \in Modes
  BY DEF Modes
<1>4. QED
  BY <1>1, <1>2, <1>3 DEF NormalizeConfig

\* What a call and an evaluation start from.
LEMMA NothingTyped ==
    ASSUME Types
    PROVE  NoCall \in Call /\ NoEval \in Eval
<1>1. (CHOOSE c \in Configs : TRUE) \in Configs
  BY DEF Types
<1>2. <<>> \in Selections /\ NoEngine \in EngineType
  BY DEF Selections, EngineType
<1>3. NoCall \in Call
  BY <1>1, <1>2 DEF NoCall, Call, Stages, Before
<1>4. NoEval \in Eval
  BY DEF NoEval, Eval, Modes
<1>5. QED
  BY <1>3, <1>4

\* The fields of what the calls and the requests use.
LEMMA Fields ==
    ASSUME Types
    PROVE  /\ rt.config \in Configs /\ rt.current \in EngineType /\ rt.exclusions \in BOOLEAN
           /\ rt.current # NoEngine => rt.current \in Regimes
           /\ \A a \in Admins : /\ admin[a].pc \in Stages /\ admin[a].cfg \in Configs
                                /\ admin[a].engine \in EngineType /\ admin[a].alone \in BOOLEAN
                                /\ admin[a].targets \in Selections
           /\ \A r \in Requests : /\ req[r].mode \in Modes /\ req[r].blocked \in BOOLEAN
                                  /\ req[r].may \subseteq Regimes /\ req[r].torn \in BOOLEAN
BY DEF Types, Call, Eval, EngineType

\* The rules of an engine, or none (RulesOf), and what is in place is a regime.
LEMMA RegimesTyped ==
    ASSUME Types
    PROVE  /\ RulesOf(rt.current) \in RuleSets /\ InPlace \in Regimes
           /\ \A cfg \in Configs : [cfg |-> cfg, rules |-> {}] \in Regimes
           /\ \A cfg \in Configs : [cfg |-> cfg, rules |-> RulesOf(rt.current)] \in Regimes
           /\ LoadOrder(disk) \in Selections
           /\ \A cfg \in Configs, targets \in Selections : [cfg |-> cfg, rules |-> Range(targets)] \in Regimes
<1>1. RulesOf(rt.current) \in RuleSets
  BY Fields DEF RulesOf, Regimes, RuleSets
<1>2. {} \in RuleSets /\ \A targets \in Selections : Range(targets) \in RuleSets
  BY DEF RuleSets
<1>3. LoadOrder(disk) \in Selections
  BY DEF Types, Selections
<1>4. rt.config \in Configs
  BY Fields
<1>5. QED
  BY <1>1, <1>2, <1>3, <1>4 DEF InPlace, Regimes

-----------------------------------------------------------------------------
(* What the steps do to calls and evaluations *)

\* A call goes on.
LEMMA CallMoves ==
    ASSUME Types, NEW a \in Admins, NEW pc \in Stages, admin' = [admin EXCEPT ![a].pc = pc]
    PROVE  /\ admin' \in [Admins -> Call]
           /\ admin'[a].pc = pc /\ admin'[a].name = admin[a].name /\ admin'[a].cfg = admin[a].cfg
           /\ admin'[a].engine = admin[a].engine /\ admin'[a].alone = admin[a].alone
           /\ \A b \in Admins \ {a} : admin'[b] = admin[b]
BY DEF Call, Types

\* An evaluation goes on, or returns.
LEMMA EvalMoves ==
    ASSUME Types, NEW r \in Requests, NEW pc \in {"exclusions", "engine", "event", "done"},
           \/ req' = [req EXCEPT ![r].pc = pc]
           \/ \E b \in BOOLEAN : req' = [req EXCEPT ![r].pc = pc, ![r].blocked = b]
           \/ \E b \in BOOLEAN : req' = [req EXCEPT ![r].pc = pc, ![r].at = clock, ![r].blocked = b]
    PROVE  /\ req' \in [Requests -> Eval]
           /\ req'[r].pc = pc /\ req'[r].may = req[r].may /\ req'[r].torn = req[r].torn
           /\ req'[r].mode = req[r].mode
           /\ \A q \in Requests \ {r} : req'[q] = req[q]
BY DEF Eval, Types

\* What Enter does: the regime is in force if the call is alone, and for every
\* request that is being evaluated.
LEMMA EnterAdds ==
    ASSUME Types, NEW a \in Admins, NEW g \in Regimes, Enter(a, g)
    PROVE  /\ regimes' \subseteq Regimes /\ regimes \subseteq regimes'
           /\ admin[a].alone => g \in regimes'
           /\ req' \in [Requests -> Eval]
           /\ \A q \in Requests :
                /\ req'[q].pc = req[q].pc /\ req'[q].mode = req[q].mode
                /\ req'[q].blocked = req[q].blocked /\ req'[q].torn = req[q].torn
                /\ req[q].may \subseteq req'[q].may
                /\ regimes \subseteq req[q].may => regimes' \subseteq req'[q].may
<1>1. CASE admin[a].alone /\ g \notin regimes
  <2>1. /\ regimes' = regimes \union {g}
        /\ req' = [r \in Requests |-> [req[r] EXCEPT !.may = @ \union {g}]]
    BY <1>1 DEF Enter
  <2>2. /\ req' \in [Requests -> Eval]
        /\ \A q \in Requests :
                /\ req'[q].pc = req[q].pc /\ req'[q].mode = req[q].mode
                /\ req'[q].blocked = req[q].blocked /\ req'[q].torn = req[q].torn
                /\ req'[q].may = req[q].may \union {g}
    BY <2>1 DEF Types, Eval
  <2>3. regimes' \subseteq Regimes
    BY <2>1 DEF Types
  <2>4. QED
    BY <2>1, <2>2, <2>3
<1>2. CASE ~(admin[a].alone /\ g \notin regimes)
  <2>1. UNCHANGED <<regimes, req>>
    BY <1>2 DEF Enter
  <2>2. QED
    BY <1>2, <2>1 DEF Types
<1>3. QED
  BY <1>1, <1>2

\* What Settle does when a call returns.
LEMMA SettleEnds ==
    ASSUME Types, NEW a \in Admins, NEW ok \in BOOLEAN, Settle(a, ok)
    PROVE  /\ admin' \in [Admins -> Call] /\ admin'[a].pc = "idle"
           /\ \A b \in Admins \ {a} : admin'[b] = admin[b]
           /\ torn' \in BOOLEAN /\ regimes' \subseteq Regimes
           /\ ~admin[a].alone => torn' /\ regimes' = regimes
           /\ admin[a].alone => (torn' <=> torn /\ ~ok) /\ regimes' = IF ok THEN {InPlace} ELSE regimes
<1>1. admin' = [admin EXCEPT ![a] = NoCall]
  BY DEF Settle
<1>2. /\ admin' \in [Admins -> Call] /\ admin'[a] = NoCall
      /\ \A b \in Admins \ {a} : admin'[b] = admin[b]
  BY <1>1, NothingTyped DEF Types
<1>3. NoCall.pc = "idle"
  BY DEF NoCall
<1>4. CASE admin[a].alone
  <2>1. torn' = (torn /\ ~ok) /\ regimes' = IF ok THEN {InPlace} ELSE regimes
    BY <1>4 DEF Settle, InPlace
  <2>2. QED
    BY <1>2, <1>3, <1>4, <2>1, RegimesTyped DEF Types
<1>5. CASE ~admin[a].alone
  BY <1>2, <1>3, <1>5 DEF Settle, Types
<1>6. QED
  BY <1>4, <1>5

\* What Begin does: nothing is stored, and calls that overlap are no longer alone.
LEMMA BeginCalls ==
    ASSUME Types, NEW a \in Admins, NEW name \in {"set", "reload"}, Begin(a, name)
    PROVE  /\ admin' \in [Admins -> Call] /\ admin[a].pc = "idle"
           /\ admin'[a].pc \in {"clear", "look", "scan"}
           /\ admin'[a].pc \in {"look", "scan"} => IsActive(admin'[a].cfg)
           /\ admin'[a].alone <=> Calling = {}
           /\ \A b \in Admins \ {a} :
                /\ admin'[b].pc = admin[b].pc /\ admin'[b].cfg = admin[b].cfg
                /\ admin'[b].engine = admin[b].engine
                /\ admin'[b].alone <=> admin[b].pc = "idle"
           /\ torn' \in BOOLEAN /\ (torn' <=> torn \/ Calling # {})
           /\ req' \in [Requests -> Eval]
           /\ \A q \in Requests :
                /\ req'[q].pc = req[q].pc /\ req'[q].mode = req[q].mode
                /\ req'[q].blocked = req[q].blocked /\ req'[q].may = req[q].may
                /\ req'[q].torn <=> req[q].torn \/ Calling # {}
<1>1. PICK cfg \in Configs :
          admin' = [b \in Admins |->
              IF b = a THEN [NoCall EXCEPT !.name = name, !.cfg = cfg, !.alone = Calling = {},
                                           !.pc = IF ~IsActive(cfg) THEN "clear"
                                                  ELSE IF name = "set" THEN "look" ELSE "scan"]
              ELSE [admin[b] EXCEPT !.alone = b \notin Calling]]
  BY DEF Begin
<1> DEFINE pc == IF ~IsActive(cfg) THEN "clear" ELSE IF name = "set" THEN "look" ELSE "scan"
           lone == Calling = {}
<1>2. pc \in Stages /\ pc \in {"clear", "look", "scan"} /\ (pc \in {"look", "scan"} => IsActive(cfg))
  BY DEF Stages, Before
<1>3. lone \in BOOLEAN /\ (lone <=> Calling = {})
  OBVIOUS
<1> HIDE DEF pc, lone
<1>4. admin'[a] = [NoCall EXCEPT !.name = name, !.cfg = cfg, !.alone = lone, !.pc = pc]
  BY <1>1 DEF pc, lone
<1>5. /\ admin'[a] \in Call /\ admin'[a].pc = pc /\ admin'[a].cfg = cfg /\ admin'[a].alone = lone
  BY <1>2, <1>3, <1>4, NothingTyped DEF Call
<1>6. ASSUME NEW b \in Admins \ {a}
      PROVE  /\ admin'[b] \in Call
             /\ admin'[b].pc = admin[b].pc /\ admin'[b].cfg = admin[b].cfg
             /\ admin'[b].engine = admin[b].engine
             /\ admin'[b].alone <=> admin[b].pc = "idle"
  <2> DEFINE idle == b \notin Calling
  <2>1. idle \in BOOLEAN /\ (idle <=> admin[b].pc = "idle")
    BY DEF Calling
  <2> HIDE DEF idle
  <2>2. admin'[b] = [admin[b] EXCEPT !.alone = idle]
    BY <1>1 DEF idle
  <2>3. QED
    BY <2>1, <2>2 DEF Types, Call
<1>7. admin' \in [Admins -> Call]
  BY <1>1, <1>5, <1>6
<1>8. admin[a].pc = "idle" /\ torn' = (torn \/ Calling # {})
  BY DEF Begin, Calling
<1>9. ASSUME NEW q \in Requests
      PROVE  /\ req'[q] \in Eval
             /\ req'[q].pc = req[q].pc /\ req'[q].mode = req[q].mode
             /\ req'[q].blocked = req[q].blocked /\ req'[q].may = req[q].may
             /\ req'[q].torn <=> req[q].torn \/ Calling # {}
  <2> DEFINE over == req[q].torn \/ Calling # {}
  <2>1. over \in BOOLEAN /\ (over <=> req[q].torn \/ Calling # {})
    OBVIOUS
  <2> HIDE DEF over
  <2>2. req'[q] = [req[q] EXCEPT !.torn = over]
    BY DEF Begin, over
  <2>3. req[q] \in Eval
    BY DEF Types
  <2>4. QED
    BY <2>1, <2>2, <2>3 DEF Eval
<1>10. req' \in [Requests -> Eval]
  <2>1. req' = [r \in Requests |-> [req[r] EXCEPT !.torn = @ \/ Calling # {}]]
    BY DEF Begin
  <2>2. QED
    BY <2>1, <1>9
<1>11. QED
  BY <1>2, <1>3, <1>5, <1>6, <1>7, <1>8, <1>9, <1>10 DEF Types

\* Steps of requests and of the environment leave the runtime and the calls alone.
LEMMA OthersStandBack ==
    ASSUME (\E r \in Requests : RequestStep(r)) \/ EditRules \/ Status \/ Drain \/ Tick \/ UNCHANGED vars
    PROVE  UNCHANGED <<rt, saved, admin, regimes, torn>>
BY DEF RequestStep, ReadConfig, ReadExclusions, RunEngine, AddEvent, EditRules, Status, Drain, Tick, vars

\* A call reads the rules, compiles them, or reads its configuration again.
LEMMA CallBuilds ==
    ASSUME Types, NEW a \in Admins, ScanRules(a) \/ CompileRules(a) \/ RereadConfig(a)
    PROVE  /\ admin' \in [Admins -> Call]
           /\ \A b \in Admins \ {a} : admin'[b] = admin[b]
           /\ admin'[a].alone = admin[a].alone
           /\ ScanRules(a) => admin'[a].pc = "compile" /\ admin'[a].cfg = admin[a].cfg
           /\ CompileRules(a) => /\ admin'[a].pc = "install" /\ admin'[a].cfg = admin[a].cfg
                                /\ admin'[a].engine \in Regimes /\ admin'[a].engine.cfg = admin[a].cfg
           /\ RereadConfig(a) => admin'[a].pc = "save" /\ admin'[a].cfg = rt.config
<1>1. {"compile", "install", "save"} \subseteq Stages
  BY DEF Stages, Before
<1>2. CASE ScanRules(a)
  <2> DEFINE targets == LoadOrder(disk)
  <2>1. targets \in Selections /\ disk \in Disks
    BY RegimesTyped DEF Types
  <2> HIDE DEF targets
  <2>2. /\ admin' = [admin EXCEPT ![a].pc = "compile", ![a].targets = targets, ![a].scanned = disk]
        /\ ~CompileRules(a) /\ ~RereadConfig(a)
    BY <1>2 DEF ScanRules, CompileRules, RereadConfig, targets
  <2>3. disk \in Disks \union {NoEngine}
    BY <2>1
  <2> DEFINE call == [admin[a] EXCEPT !.pc = "compile", !.targets = targets, !.scanned = disk]
  <2>4. admin[a] \in Call
    BY DEF Types
  <2>5. call \in Call /\ call.pc = "compile" /\ call.cfg = admin[a].cfg /\ call.alone = admin[a].alone
    BY <1>1, <2>1, <2>3, <2>4 DEF Call
  <2>6. admin' = [admin EXCEPT ![a] = call]
    BY <2>2
  <2> HIDE DEF call
  <2>7. /\ admin' \in [Admins -> Call] /\ admin'[a] = call
        /\ \A b \in Admins \ {a} : admin'[b] = admin[b]
    BY <2>5, <2>6 DEF Types
  <2>8. QED
    BY <2>2, <2>5, <2>7
<1>3. CASE CompileRules(a)
  <2> DEFINE engine == [cfg |-> admin[a].cfg, rules |-> Range(admin[a].targets)]
  <2>1. engine \in Regimes /\ engine \in EngineType /\ engine.cfg = admin[a].cfg
    BY Fields, RegimesTyped DEF EngineType
  <2>2. admin' = [admin EXCEPT ![a].pc = "install", ![a].engine = engine]
    BY <1>3 DEF CompileRules
  <2>3. ~ScanRules(a) /\ ~RereadConfig(a)
    BY <1>3 DEF ScanRules, CompileRules, RereadConfig
  <2> HIDE DEF engine
  <2> DEFINE call == [admin[a] EXCEPT !.pc = "install", !.engine = engine]
  <2>4. admin[a] \in Call
    BY DEF Types
  <2>5. /\ call \in Call /\ call.pc = "install" /\ call.cfg = admin[a].cfg
        /\ call.alone = admin[a].alone /\ call.engine = engine
    BY <1>1, <2>1, <2>4 DEF Call
  <2>6. admin' = [admin EXCEPT ![a] = call]
    BY <2>2
  <2> HIDE DEF call
  <2>7. /\ admin' \in [Admins -> Call] /\ admin'[a] = call
        /\ \A b \in Admins \ {a} : admin'[b] = admin[b]
    BY <2>5, <2>6 DEF Types
  <2>8. QED
    BY <2>1, <2>3, <2>5, <2>7
<1>4. CASE RereadConfig(a)
  <2>1. rt.config \in Configs
    BY Fields
  <2>2. /\ admin' = [admin EXCEPT ![a].cfg = rt.config, ![a].pc = "save"]
        /\ ~CompileRules(a) /\ ~ScanRules(a)
    BY <1>4 DEF ScanRules, CompileRules, RereadConfig
  <2> DEFINE call == [admin[a] EXCEPT !.cfg = rt.config, !.pc = "save"]
  <2>3. admin[a] \in Call
    BY DEF Types
  <2>4. call \in Call /\ call.pc = "save" /\ call.cfg = rt.config /\ call.alone = admin[a].alone
    BY <1>1, <2>1, <2>3 DEF Call
  <2>5. admin' = [admin EXCEPT ![a] = call]
    BY <2>2
  <2> HIDE DEF call
  <2>6. /\ admin' \in [Admins -> Call] /\ admin'[a] = call
        /\ \A b \in Admins \ {a} : admin'[b] = admin[b]
    BY <2>4, <2>5 DEF Types
  <2>7. QED
    BY <2>2, <2>4, <2>6
<1>5. QED
  BY <1>2, <1>3, <1>4

\* The engine that a call installs is of its own regime.
LEMMA InstalledRegime ==
    ASSUME Types, CallStages, NEW a \in Admins, admin[a].pc = "install"
    PROVE  /\ admin[a].engine \in Regimes /\ admin[a].engine.cfg = admin[a].cfg
           /\ [cfg |-> admin[a].cfg, rules |-> admin[a].engine.rules] \in Regimes
<1>1. admin[a].engine \in Regimes /\ admin[a].engine.cfg = admin[a].cfg
  BY DEF CallStages
<1>2. QED
  BY <1>1 DEF Regimes

-----------------------------------------------------------------------------
(* Types *)

\* The steps of a call keep the types.
LEMMA TypesAdmin ==
    ASSUME Types, CallStages, NEW a \in Admins, AdminStep(a)
    PROVE  Types'
<1>1. ASSUME NEW name \in {"set", "reload"}, Begin(a, name) PROVE Types'
  BY <1>1, BeginCalls DEF Begin, Types
<1>2. CASE ClearEngine(a)
  <2>1. admin' \in [Admins -> Call]
    BY <1>2, CallMoves DEF ClearEngine, Stages
  <2>2. regimes' \subseteq Regimes /\ req' \in [Requests -> Eval]
    BY <1>2, EnterAdds, Fields, RegimesTyped DEF ClearEngine
  <2>3. rt' \in [current : EngineType, config : Configs, exclusions : BOOLEAN]
    BY <1>2 DEF ClearEngine, Types, EngineType
  <2>4. QED
    BY <1>2, <2>1, <2>2, <2>3 DEF ClearEngine, Types
<1>3. CASE LookForEngine(a)
  <2>1. PICK pc \in {"config", "scan"} : admin' = [admin EXCEPT ![a].pc = pc]
    BY <1>3 DEF LookForEngine
  <2>2. admin' \in [Admins -> Call]
    BY <2>1, CallMoves DEF Stages, Before
  <2>3. QED
    BY <1>3, <2>2 DEF LookForEngine, Types
<1>4. CASE ScanRules(a)
  BY <1>4, CallBuilds DEF ScanRules, Types
<1>5. CASE CompileRules(a)
  BY <1>5, CallBuilds DEF CompileRules, Types
<1>6. CASE BuildFails(a)
  <2>1. Settle(a, FALSE) /\ UNCHANGED <<disk, rt, saved, req, clock>>
    BY <1>6 DEF BuildFails
  <2>2. QED
    BY <2>1, SettleEnds DEF Types
<1>7. CASE InstallEngine(a)
  <2>1. admin' \in [Admins -> Call]
    BY <1>7, CallMoves DEF InstallEngine, Stages
  <2>2. rt' \in [current : EngineType, config : Configs, exclusions : BOOLEAN]
    BY <1>7, Fields DEF InstallEngine, Types
  <2>3. regimes' \subseteq Regimes /\ req' \in [Requests -> Eval]
    BY <1>7, InstalledRegime, EnterAdds DEF InstallEngine
  <2>4. QED
    BY <1>7, <2>1, <2>2, <2>3 DEF InstallEngine, Types
<1>8. CASE StoreConfig(a)
  <2>1. admin' \in [Admins -> Call]
    BY <1>8, CallMoves DEF StoreConfig, Stages
  <2>2. rt' \in [current : EngineType, config : Configs, exclusions : BOOLEAN]
    BY <1>8, Fields DEF StoreConfig, Types
  <2>3. regimes' \subseteq Regimes /\ req' \in [Requests -> Eval]
    BY <1>8, EnterAdds, Fields, RegimesTyped DEF StoreConfig
  <2>4. QED
    BY <1>8, <2>1, <2>2, <2>3 DEF StoreConfig, Types
<1>9. CASE StoreExclusions(a)
  <2>1. PICK pc \in {"save", "reread"} : admin' = [admin EXCEPT ![a].pc = pc]
    BY <1>9 DEF StoreExclusions
  <2>2. admin' \in [Admins -> Call]
    BY <2>1, CallMoves DEF Stages
  <2>3. rt' \in [current : EngineType, config : Configs, exclusions : BOOLEAN]
    BY <1>9, Fields, ConfigFields DEF StoreExclusions, Types
  <2>4. QED
    BY <1>9, <2>2, <2>3 DEF StoreExclusions, Types
<1>10. CASE RereadConfig(a)
  BY <1>10, CallBuilds DEF RereadConfig, Types
<1>11. CASE SaveConfig(a)
  <2>1. Settle(a, TRUE) /\ saved' = admin[a].cfg /\ UNCHANGED <<disk, rt, req, clock>>
    BY <1>11 DEF SaveConfig
  <2>2. QED
    BY <2>1, SettleEnds, Fields DEF Types
<1>12. QED
  BY <1>1, <1>2, <1>3, <1>4, <1>5, <1>6, <1>7, <1>8, <1>9, <1>10, <1>11 DEF AdminStep, SetConfig, Reload

\* What ReadConfig makes of an evaluation.
LEMMA EvalBegins ==
    ASSUME Types, NEW r \in Requests, ReadConfig(r)
    PROVE  /\ req' \in [Requests -> Eval]
           /\ req'[r].pc = IF IsActive(rt.config) THEN "exclusions" ELSE "done"
           /\ req'[r].mode = rt.config.mode /\ req'[r].may = regimes
           /\ (req'[r].torn <=> torn) /\ req'[r].blocked = FALSE
           /\ \A q \in Requests \ {r} : req'[q] = req[q]
<1> DEFINE pc == IF IsActive(rt.config) THEN "exclusions" ELSE "done"
<1>1. pc \in {"exclusions", "done"}
  OBVIOUS
<1> HIDE DEF pc
<1>2. req' = [req EXCEPT ![r] = [NoEval EXCEPT !.mode = rt.config.mode, !.may = regimes, !.torn = torn, !.pc = pc]]
  BY DEF ReadConfig, pc
<1>3. rt.config.mode \in Modes /\ torn \in BOOLEAN /\ regimes \subseteq Regimes
  BY Fields, ConfigFields DEF Types
<1>4. QED
  BY <1>1, <1>2, <1>3, NothingTyped DEF Types, Eval, NoEval, pc

\* What RunEngine makes of it: it returns, or has an event to add.
LEMMA EngineAnswers ==
    ASSUME Types, NEW r \in Requests, RunEngine(r)
    PROVE  /\ req' \in [Requests -> Eval]
           /\ req'[r].pc \in {"done", "event"} /\ req'[r].may = req[r].may /\ req'[r].torn = req[r].torn
           /\ req'[r].mode = req[r].mode
           /\ \/ /\ rt.current = NoEngine \/ ~Recorded(r, rt.current)
                 /\ req'[r].blocked = FALSE
              \/ /\ rt.current # NoEngine
                 /\ req'[r].blocked <=> Interrupts(r, rt.current) /\ req[r].mode # "detection"
           /\ \A q \in Requests \ {r} : req'[q] = req[q]
<1>1. CASE rt.current = NoEngine \/ ~Recorded(r, rt.current)
  <2>1. req' = [req EXCEPT ![r].pc = "done", ![r].blocked = FALSE]
    BY <1>1 DEF RunEngine, Return
  <2> DEFINE eval == [req[r] EXCEPT !.pc = "done", !.blocked = FALSE]
  <2>2. req[r] \in Eval
    BY DEF Types
  <2>3. /\ eval \in Eval /\ eval.pc = "done" /\ eval.blocked = FALSE
        /\ eval.may = req[r].may /\ eval.torn = req[r].torn /\ eval.mode = req[r].mode
    BY <2>2 DEF Eval
  <2>4. req' = [req EXCEPT ![r] = eval]
    BY <2>1
  <2> HIDE DEF eval
  <2>5. /\ req' \in [Requests -> Eval] /\ req'[r] = eval
        /\ \A q \in Requests \ {r} : req'[q] = req[q]
    BY <2>3, <2>4 DEF Types
  <2>6. QED
    BY <1>1, <2>3, <2>5
<1>2. CASE ~(rt.current = NoEngine \/ ~Recorded(r, rt.current))
  <2> DEFINE blocked == Interrupts(r, rt.current) /\ req[r].mode # "detection"
  <2>1. blocked \in BOOLEAN
    OBVIOUS
  <2>2. rt.current # NoEngine /\ (blocked <=> Interrupts(r, rt.current) /\ req[r].mode # "detection")
    BY <1>2
  <2> HIDE DEF blocked
  <2>3. req' = [req EXCEPT ![r].pc = "event", ![r].at = clock, ![r].blocked = blocked]
    BY <1>2 DEF RunEngine, blocked
  <2>4. req[r] \in Eval /\ clock \in Nat
    BY DEF Types
  <2> DEFINE eval == [req[r] EXCEPT !.pc = "event", !.at = clock, !.blocked = blocked]
  <2>5. /\ eval \in Eval /\ eval.pc = "event" /\ eval.blocked = blocked
        /\ eval.may = req[r].may /\ eval.torn = req[r].torn /\ eval.mode = req[r].mode
    BY <2>1, <2>4 DEF Eval
  <2>6. req' = [req EXCEPT ![r] = eval]
    BY <2>3
  <2> HIDE DEF eval
  <2>7. /\ req' \in [Requests -> Eval] /\ req'[r] = eval
        /\ \A q \in Requests \ {r} : req'[q] = req[q]
    BY <2>5, <2>6 DEF Types
  <2>8. QED
    BY <2>2, <2>5, <2>7
<1>3. QED
  BY <1>1, <1>2

\* What is read and what AddEvent hands back.
LEMMA EvalGoesOn ==
    ASSUME Types, NEW r \in Requests, ReadExclusions(r) \/ AddEvent(r)
    PROVE  /\ req' \in [Requests -> Eval]
           /\ ReadExclusions(r) => req'[r].pc = IF rt.exclusions THEN "done" ELSE "engine"
           /\ AddEvent(r) => req'[r].pc = "done"
           /\ req'[r].may = req[r].may /\ req'[r].torn = req[r].torn /\ req'[r].mode = req[r].mode
           /\ req'[r].blocked = req[r].blocked
           /\ \A q \in Requests \ {r} : req'[q] = req[q]
<1>1. CASE ReadExclusions(r)
  <2>1. ~AddEvent(r)
    BY <1>1 DEF ReadExclusions, AddEvent
  <2>2. req' = [req EXCEPT ![r].pc = IF rt.exclusions THEN "done" ELSE "engine"]
    BY <1>1 DEF ReadExclusions
  <2>3. QED
    BY <2>1, <2>2 DEF Types, Eval
<1>2. CASE AddEvent(r)
  <2>1. ~ReadExclusions(r)
    BY <1>2 DEF ReadExclusions, AddEvent
  <2>2. req' = [req EXCEPT ![r].pc = "done", ![r].blocked = req[r].blocked]
    BY <1>2 DEF AddEvent, Return
  <2> DEFINE eval == [req[r] EXCEPT !.pc = "done", !.blocked = req[r].blocked]
  <2>3. req[r] \in Eval
    BY DEF Types
  <2>4. /\ eval \in Eval /\ eval.pc = "done" /\ eval.blocked = req[r].blocked
        /\ eval.may = req[r].may /\ eval.torn = req[r].torn /\ eval.mode = req[r].mode
    BY <2>3 DEF Eval
  <2>5. req' = [req EXCEPT ![r] = eval]
    BY <2>2
  <2> HIDE DEF eval
  <2>6. /\ req' \in [Requests -> Eval] /\ req'[r] = eval
        /\ \A q \in Requests \ {r} : req'[q] = req[q]
    BY <2>4, <2>5 DEF Types
  <2>7. QED
    BY <2>1, <2>4, <2>6
<1>3. QED
  BY <1>1, <1>2

\* What the program starts with, on any disk (NewHandler).
LEMMA Starts ==
    ASSUME disk \in Disks, NEW cfg \in Configs
    PROVE  /\ NewRuntime(cfg) \in [current : EngineType, config : Configs, exclusions : BOOLEAN]
           /\ NewRuntime(cfg).config = cfg /\ NewRuntime(cfg).exclusions = cfg.excluded
           /\ NewRuntime(cfg).current # NoEngine =>
                  NewRuntime(cfg).current.cfg = cfg /\ IsActive(cfg)
           /\ [cfg |-> cfg, rules |-> RulesOf(NewRuntime(cfg).current)] \in Regimes
<1> DEFINE current == IF IsActive(cfg) /\ ~disk.corrupt /\ Compiles(LoadOrder(disk), disk)
                      THEN [cfg |-> cfg, rules |-> Range(LoadOrder(disk))] ELSE NoEngine
<1>1. LoadOrder(disk) \in Selections
  BY DEF Selections
<1>2. Range(LoadOrder(disk)) \in RuleSets
  BY <1>1 DEF RuleSets
<1>3. current \in EngineType /\ (current # NoEngine => current.cfg = cfg /\ IsActive(cfg) /\ current.rules \in RuleSets)
  BY <1>2 DEF EngineType, Regimes
<1> HIDE DEF current
<1>4. NewRuntime(cfg) = [current |-> current, config |-> cfg, exclusions |-> cfg.excluded]
  BY DEF NewRuntime, current
<1>5. RulesOf(current) \in RuleSets
  BY <1>3 DEF RulesOf, RuleSets
<1>6. QED
  BY <1>3, <1>4, <1>5, ConfigFields DEF Regimes

\* Every step keeps the types.
LEMMA TypesStep ==
    ASSUME Types, CallStages, [Next]_vars
    PROVE  Types'
<1>1. ASSUME NEW a \in Admins, AdminStep(a) PROVE Types'
  BY <1>1, TypesAdmin
<1>2. ASSUME NEW r \in Requests, ReadConfig(r) PROVE Types'
  BY <1>2, EvalBegins DEF ReadConfig, Types
<1>3. ASSUME NEW r \in Requests, ReadExclusions(r) PROVE Types'
  BY <1>3, EvalGoesOn DEF ReadExclusions, Types
<1>4. ASSUME NEW r \in Requests, RunEngine(r) PROVE Types'
  BY <1>4, EngineAnswers DEF RunEngine, Types
<1>5. ASSUME NEW r \in Requests, AddEvent(r) PROVE Types'
  BY <1>5, EvalGoesOn DEF AddEvent, Types
<1>6. CASE EditRules
  BY <1>6 DEF EditRules, Types
<1>7. CASE Status \/ Drain
  BY <1>7 DEF Status, Drain, Types
<1>8. CASE Tick
  BY <1>8 DEF Tick, Types
<1>9. CASE Restart
  BY <1>9, Starts, NothingTyped DEF Restart, Types
<1>10. CASE UNCHANGED vars
  BY <1>10 DEF vars, Types
<1>11. QED
  BY <1>1, <1>2, <1>3, <1>4, <1>5, <1>6, <1>7, <1>8, <1>9, <1>10 DEF Next, RequestStep

-----------------------------------------------------------------------------
(* Calls *)

\* A call that goes on where it may, while nobody else moves: what has to be
\* shown of the step of one call.
LEMMA OneCallMoves ==
    ASSUME Types, CallStages, NEW a \in Admins, admin[a].pc # "idle",
           admin'[a].alone = admin[a].alone, torn' = torn,
           \A b \in Admins \ {a} : admin'[b] = admin[b],
           rt'.current # NoEngine => IsActive(rt'.current.cfg),
           admin'[a].pc \in {"look", "scan", "compile", "install"} => IsActive(admin'[a].cfg),
           admin'[a].pc = "install" => admin'[a].engine \in Regimes /\ admin'[a].engine.cfg = admin'[a].cfg,
           admin[a].alone /\ admin'[a].pc \notin Before =>
                  rt'.current = NoEngine \/ rt'.current.cfg = admin'[a].cfg,
           admin[a].alone /\ admin'[a].pc \in {"exclusions", "reread", "save"} =>
                  rt'.config = admin'[a].cfg /\ InPlace' \in regimes',
           admin[a].alone /\ admin'[a].pc \in {"reread", "save"} => rt'.exclusions = admin'[a].cfg.excluded
    PROVE  CallStages'
<1>1. ASSUME NEW b \in Admins \ {a}, admin[b].pc # "idle"
      PROVE  ~admin[b].alone /\ torn
  BY <1>1 DEF CallStages
<1>2. admin[a].alone => \A b \in Admins \ {a} : admin[b].pc = "idle"
  BY DEF CallStages
<1>3. ~admin[a].alone => torn
  BY DEF CallStages
<1>4. \A b \in Admins \ {a} :
        /\ admin[b].pc \in {"look", "scan", "compile", "install"} => IsActive(admin[b].cfg)
        /\ admin[b].pc = "install" => admin[b].engine \in Regimes /\ admin[b].engine.cfg = admin[b].cfg
  BY DEF CallStages
<1>5. QED
  BY <1>1, <1>2, <1>3, <1>4 DEF CallStages

\* The steps of a call keep the stages of all of them.
LEMMA CallStagesAdmin ==
    ASSUME Types, Types', CallStages, NEW a \in Admins, AdminStep(a)
    PROVE  CallStages'
<1>1. ASSUME NEW name \in {"set", "reload"}, Begin(a, name) PROVE CallStages'
  <2>1. UNCHANGED <<rt, regimes>>
    BY <1>1 DEF Begin
  <2>2. Calling = {} <=> \A b \in Admins : admin[b].pc = "idle"
    BY DEF Calling
  <2>3. ASSUME NEW b \in Admins, admin'[b].pc # "idle"
        PROVE  /\ admin'[b].alone <=> b = a /\ Calling = {}
               /\ ~admin'[b].alone => torn'
    BY <1>1, <2>2, <2>3, BeginCalls
  <2>4. Calling = {} => \A b \in Admins \ {a} : admin'[b].pc = "idle"
    BY <1>1, <2>2, BeginCalls
  <2>5. admin'[a].pc \in Before
    BY <1>1, BeginCalls DEF Before
  <2>6. \A b \in Admins :
        /\ admin'[b].pc \in {"look", "scan", "compile", "install"} => IsActive(admin'[b].cfg)
        /\ admin'[b].pc = "install" => admin'[b].engine \in Regimes /\ admin'[b].engine.cfg = admin'[b].cfg
    BY <1>1, BeginCalls DEF CallStages
  <2>7. rt'.current # NoEngine => IsActive(rt'.current.cfg)
    BY <2>1 DEF CallStages
  <2>8. QED
    BY <2>3, <2>4, <2>5, <2>6, <2>7 DEF CallStages, Before
<1>2. CASE ClearEngine(a)
  <2>1. rt'.current = NoEngine /\ torn' = torn /\ admin[a].pc # "idle"
    BY <1>2 DEF ClearEngine, Types
  <2>2. admin'[a].pc = "config" /\ admin'[a].alone = admin[a].alone /\ \A b \in Admins \ {a} : admin'[b] = admin[b]
    BY <1>2, CallMoves DEF ClearEngine, Stages
  <2>3. QED
    BY <2>1, <2>2, OneCallMoves
<1>3. CASE LookForEngine(a)
  <2>1. PICK pc \in {"config", "scan"} :
            /\ admin' = [admin EXCEPT ![a].pc = pc] /\ (pc = "config" => rt.current = NoEngine)
            /\ UNCHANGED <<rt, torn>> /\ admin[a].pc = "look"
    BY <1>3 DEF LookForEngine
  <2>2. /\ admin'[a].pc = pc /\ admin'[a].alone = admin[a].alone /\ admin'[a].cfg = admin[a].cfg
        /\ \A b \in Admins \ {a} : admin'[b] = admin[b]
    BY <2>1, CallMoves DEF Stages, Before
  <2>3. IsActive(admin[a].cfg) /\ (rt.current # NoEngine => IsActive(rt.current.cfg))
    BY <2>1 DEF CallStages
  <2>4. QED
    BY <2>1, <2>2, <2>3, OneCallMoves DEF Before
<1>4. CASE ScanRules(a) \/ CompileRules(a)
  <2>1. UNCHANGED <<rt, torn>> /\ admin[a].pc \in {"scan", "compile"}
    BY <1>4 DEF ScanRules, CompileRules
  <2>2. IsActive(admin[a].cfg) /\ (rt.current # NoEngine => IsActive(rt.current.cfg))
    BY <2>1 DEF CallStages
  <2>3. /\ admin'[a].pc \in {"compile", "install"} /\ admin'[a].alone = admin[a].alone /\ admin'[a].cfg = admin[a].cfg
        /\ admin'[a].pc = "install" => admin'[a].engine \in Regimes /\ admin'[a].engine.cfg = admin'[a].cfg
        /\ \A b \in Admins \ {a} : admin'[b] = admin[b]
    BY <1>4, CallBuilds
  <2>4. QED
    BY <2>1, <2>2, <2>3, OneCallMoves DEF Before
<1>5. CASE BuildFails(a) \/ SaveConfig(a)
  <2>1. PICK ok \in BOOLEAN : Settle(a, ok) /\ UNCHANGED rt /\ admin[a].pc # "idle"
    BY <1>5 DEF BuildFails, SaveConfig, CannotBuild
  <2>2. /\ admin'[a].pc = "idle" /\ \A b \in Admins \ {a} : admin'[b] = admin[b]
        /\ ~admin[a].alone => torn'
    BY <2>1, SettleEnds
  <2>3. ASSUME NEW b \in Admins \ {a}, admin[b].pc # "idle" PROVE ~admin[b].alone /\ torn'
    BY <2>1, <2>2, <2>3 DEF CallStages
  <2>4. ASSUME NEW b \in Admins
        PROVE  /\ admin'[b].pc \in {"look", "scan", "compile", "install"} => IsActive(admin'[b].cfg)
               /\ admin'[b].pc = "install" => admin'[b].engine \in Regimes /\ admin'[b].engine.cfg = admin'[b].cfg
               /\ admin'[b].pc # "idle" => ~admin'[b].alone /\ torn'
    BY <2>2, <2>3 DEF CallStages
  <2>5. QED
    BY <2>1, <2>4 DEF CallStages
<1>6. CASE InstallEngine(a)
  <2>1. rt'.current = admin[a].engine /\ torn' = torn /\ admin[a].pc = "install"
    BY <1>6 DEF InstallEngine, Types
  <2>2. /\ admin'[a].pc = "config" /\ admin'[a].alone = admin[a].alone /\ admin'[a].cfg = admin[a].cfg
        /\ \A b \in Admins \ {a} : admin'[b] = admin[b]
    BY <1>6, CallMoves DEF InstallEngine, Stages
  <2>3. admin[a].engine.cfg = admin[a].cfg /\ IsActive(admin[a].cfg)
    BY <2>1 DEF CallStages
  <2>4. QED
    BY <2>1, <2>2, <2>3, OneCallMoves
<1>7. CASE StoreConfig(a)
  <2>1. /\ rt'.config = admin[a].cfg /\ rt'.current = rt.current /\ torn' = torn /\ admin[a].pc = "config"
        /\ Enter(a, [cfg |-> admin[a].cfg, rules |-> RulesOf(rt.current)])
    BY <1>7 DEF StoreConfig, Types
  <2>2. /\ admin'[a].pc = "exclusions" /\ admin'[a].alone = admin[a].alone /\ admin'[a].cfg = admin[a].cfg
        /\ \A b \in Admins \ {a} : admin'[b] = admin[b]
    BY <1>7, CallMoves DEF StoreConfig, Stages
  <2>3. admin[a].alone => [cfg |-> admin[a].cfg, rules |-> RulesOf(rt.current)] \in regimes'
    BY <2>1, Fields, RegimesTyped, EnterAdds
  <2>4. InPlace' = [cfg |-> admin[a].cfg, rules |-> RulesOf(rt.current)]
    BY <2>1 DEF InPlace, RulesOf
  <2>5. /\ rt.current # NoEngine => IsActive(rt.current.cfg)
        /\ admin[a].alone => rt.current = NoEngine \/ rt.current.cfg = admin[a].cfg
    BY <2>1 DEF CallStages, Before
  <2>6. QED
    BY <2>1, <2>2, <2>3, <2>4, <2>5, OneCallMoves
<1>8. CASE StoreExclusions(a)
  <2>1. /\ rt'.config = rt.config /\ rt'.current = rt.current /\ rt'.exclusions = admin[a].cfg.excluded
        /\ UNCHANGED <<torn, regimes>> /\ admin[a].pc = "exclusions"
    BY <1>8 DEF StoreExclusions, Types
  <2>2. PICK pc \in {"save", "reread"} : admin' = [admin EXCEPT ![a].pc = pc]
    BY <1>8 DEF StoreExclusions
  <2>3. /\ admin'[a].pc = pc /\ admin'[a].alone = admin[a].alone /\ admin'[a].cfg = admin[a].cfg
        /\ \A b \in Admins \ {a} : admin'[b] = admin[b]
    BY <2>2, CallMoves DEF Stages
  <2>4. InPlace' = InPlace
    BY <2>1 DEF InPlace, RulesOf
  <2>5. /\ rt.current # NoEngine => IsActive(rt.current.cfg)
        /\ admin[a].alone => /\ rt.current = NoEngine \/ rt.current.cfg = admin[a].cfg
                             /\ rt.config = admin[a].cfg /\ InPlace \in regimes
    BY <2>1 DEF CallStages, Before
  <2>6. QED
    BY <2>1, <2>3, <2>4, <2>5, OneCallMoves
<1>9. CASE RereadConfig(a)
  <2>1. UNCHANGED <<rt, torn, regimes>> /\ admin[a].pc = "reread"
    BY <1>9 DEF RereadConfig
  <2>2. /\ admin'[a].pc = "save" /\ admin'[a].alone = admin[a].alone /\ admin'[a].cfg = rt.config
        /\ \A b \in Admins \ {a} : admin'[b] = admin[b]
    BY <1>9, CallBuilds
  <2>3. InPlace' = InPlace
    BY <2>1 DEF InPlace, RulesOf
  <2>4. /\ rt.current # NoEngine => IsActive(rt.current.cfg)
        /\ admin[a].alone => /\ rt.current = NoEngine \/ rt.current.cfg = admin[a].cfg
                             /\ rt.config = admin[a].cfg /\ InPlace \in regimes
                             /\ rt.exclusions = admin[a].cfg.excluded
    BY <2>1 DEF CallStages, Before
  <2>5. QED
    BY <2>1, <2>2, <2>3, <2>4, OneCallMoves
<1>10. QED
  BY <1>1, <1>2, <1>3, <1>4, <1>5, <1>6, <1>7, <1>8, <1>9 DEF AdminStep, SetConfig, Reload

\* Every step keeps the stages of the calls.
LEMMA CallStagesStep ==
    ASSUME Types, Types', CallStages, [Next]_vars
    PROVE  CallStages'
<1>1. ASSUME NEW a \in Admins, AdminStep(a) PROVE CallStages'
  BY <1>1, CallStagesAdmin
<1>2. CASE (\E r \in Requests : RequestStep(r)) \/ EditRules \/ Status \/ Drain \/ Tick \/ UNCHANGED vars
  <2>1. UNCHANGED <<rt, saved, admin, regimes, torn>>
    BY <1>2, OthersStandBack
  <2>2. InPlace' = InPlace
    BY <2>1 DEF InPlace, RulesOf
  <2>3. QED
    BY <2>1, <2>2 DEF CallStages
<1>3. CASE Restart
  <2>1. rt' = NewRuntime(saved) /\ admin' = [a \in Admins |-> NoCall]
    BY <1>3 DEF Restart
  <2>2. \A a \in Admins : admin'[a].pc = "idle"
    BY <2>1 DEF NoCall
  <2>3. rt'.current # NoEngine => IsActive(rt'.current.cfg)
    BY <2>1, Starts DEF Types
  <2>4. QED
    BY <2>2, <2>3 DEF CallStages
<1>4. QED
  BY <1>1, <1>2, <1>3 DEF Next

-----------------------------------------------------------------------------
(* What the runtime is *)

\* The steps of a call keep what was agreed: the last one of them makes it so again.
LEMMA AgreedAdmin ==
    ASSUME Types, Types', CallStages, Agreed, NEW a \in Admins, AdminStep(a)
    PROVE  Agreed'
<1>1. ASSUME NEW name \in {"set", "reload"}, Begin(a, name) PROVE Agreed'
  <2>1. UNCHANGED <<rt, saved, regimes>>
    BY <1>1 DEF Begin
  <2>2. InPlace' = InPlace
    BY <2>1 DEF InPlace, RulesOf
  <2>3. ~torn' => ~torn /\ \A b \in Admins : admin[b].pc \in Before
    BY <1>1, BeginCalls DEF Calling, Before
  <2>4. QED
    BY <2>1, <2>2, <2>3 DEF Agreed
<1>2. CASE ClearEngine(a) \/ InstallEngine(a)
  <2>1. admin'[a].pc = "config"
    BY <1>2, CallMoves DEF ClearEngine, InstallEngine, Stages
  <2>2. QED
    BY <2>1 DEF Agreed, Before
<1>3. CASE LookForEngine(a) \/ ScanRules(a) \/ CompileRules(a)
  <2>1. UNCHANGED <<rt, saved, regimes, torn>> /\ admin[a].pc \in Before
    BY <1>3 DEF LookForEngine, ScanRules, CompileRules, Before
  <2>2. \A b \in Admins \ {a} : admin'[b] = admin[b]
    BY <1>3, CallBuilds DEF LookForEngine, Types
  <2>3. InPlace' = InPlace
    BY <2>1 DEF InPlace, RulesOf
  <2>4. QED
    BY <2>1, <2>2, <2>3 DEF Agreed
<1>4. CASE BuildFails(a)
  <2>1. Settle(a, FALSE) /\ UNCHANGED <<rt, saved>> /\ admin[a].pc \in Before
    BY <1>4 DEF BuildFails, CannotBuild, Before
  <2>2. /\ ~torn' => ~torn
        /\ regimes' = regimes /\ \A b \in Admins \ {a} : admin'[b] = admin[b]
    <3>1. admin[a].alone \in BOOLEAN
      BY Fields
    <3>2. QED
      BY <2>1, <3>1, SettleEnds DEF Types
  <2>3. InPlace' = InPlace
    BY <2>1 DEF InPlace, RulesOf
  <2>4. QED
    BY <2>1, <2>2, <2>3 DEF Agreed
<1>5. CASE StoreConfig(a) \/ StoreExclusions(a) \/ RereadConfig(a)
  <2>1. admin'[a].pc \in {"exclusions", "save", "reread"}
    <3>1. CASE StoreConfig(a)
      BY <3>1, CallMoves DEF StoreConfig, Stages
    <3>2. CASE StoreExclusions(a)
      BY <3>2, CallMoves DEF StoreExclusions, Stages
    <3>3. CASE RereadConfig(a)
      BY <3>3, CallBuilds
    <3>4. QED
      BY <1>5, <3>1, <3>2, <3>3
  <2>2. QED
    BY <2>1 DEF Agreed, Before
<1>6. CASE SaveConfig(a)
  <2>1. Settle(a, TRUE) /\ UNCHANGED rt /\ saved' = admin[a].cfg /\ admin[a].pc = "save"
    BY <1>6 DEF SaveConfig
  <2>2. CASE admin[a].alone
    <3>1. regimes' = {InPlace}
      BY <2>1, <2>2, SettleEnds
    <3>2. /\ rt.current = NoEngine \/ rt.current.cfg = admin[a].cfg
          /\ rt.config = admin[a].cfg /\ rt.exclusions = admin[a].cfg.excluded
      BY <2>1, <2>2 DEF CallStages, Before
    <3>3. InPlace' = InPlace
      BY <2>1 DEF InPlace, RulesOf
    <3>4. QED
      BY <2>1, <3>1, <3>2, <3>3 DEF Agreed
  <2>3. CASE ~admin[a].alone
    BY <2>1, <2>3, SettleEnds DEF Agreed
  <2>4. QED
    BY <2>2, <2>3
<1>7. QED
  BY <1>1, <1>2, <1>3, <1>4, <1>5, <1>6 DEF AdminStep, SetConfig, Reload

\* Every step keeps what the last call that ran alone left.
LEMMA AgreedStep ==
    ASSUME Types, Types', CallStages, Agreed, [Next]_vars
    PROVE  Agreed'
<1>1. ASSUME NEW a \in Admins, AdminStep(a) PROVE Agreed'
  BY <1>1, AgreedAdmin
<1>2. CASE (\E r \in Requests : RequestStep(r)) \/ EditRules \/ Status \/ Drain \/ Tick \/ UNCHANGED vars
  <2>1. UNCHANGED <<rt, saved, admin, regimes, torn>>
    BY <1>2, OthersStandBack
  <2>2. InPlace' = InPlace
    BY <2>1 DEF InPlace, RulesOf
  <2>3. QED
    BY <2>1, <2>2 DEF Agreed
<1>3. CASE Restart
  <2>1. /\ rt' = NewRuntime(saved) /\ saved' = saved
        /\ regimes' = {[cfg |-> saved, rules |-> RulesOf(rt'.current)]}
    BY <1>3 DEF Restart
  <2>2. /\ rt'.config = saved /\ rt'.exclusions = saved.excluded
        /\ rt'.current # NoEngine => rt'.current.cfg = saved
    BY <2>1, Starts DEF Types
  <2>3. InPlace' = [cfg |-> saved, rules |-> RulesOf(rt'.current)]
    BY <2>2 DEF InPlace, RulesOf
  <2>4. QED
    BY <2>1, <2>2, <2>3 DEF Agreed
<1>4. QED
  BY <1>1, <1>2, <1>3 DEF Next

\* The steps of a call keep what is in force.
LEMMA InForceAdmin ==
    ASSUME Types, Types', CallStages, Agreed, Agreed', InForce, NEW a \in Admins, AdminStep(a)
    PROVE  InForce'
<1> SUFFICES ASSUME ~torn' PROVE InForce'
  BY DEF InForce
<1>1. ASSUME NEW name \in {"set", "reload"}, Begin(a, name) PROVE InForce'
  <2>1. UNCHANGED <<rt, regimes>> /\ (~torn' => ~torn)
    BY <1>1, BeginCalls DEF Begin
  <2>2. QED
    BY <2>1 DEF InForce, RulesOf
<1>2. CASE ClearEngine(a)
  <2>1. /\ rt'.current = NoEngine /\ rt'.config = rt.config /\ rt'.exclusions = rt.exclusions
        /\ torn' = torn /\ admin[a].pc = "clear" /\ Enter(a, [cfg |-> admin[a].cfg, rules |-> {}])
    BY <1>2 DEF ClearEngine, Types
  <2>2. admin[a].alone
    BY <2>1 DEF CallStages
  <2>3. /\ [cfg |-> admin[a].cfg, rules |-> {}] \in regimes'
        /\ regimes \subseteq regimes'
    BY <2>1, <2>2, EnterAdds, Fields, RegimesTyped
  <2>4. \E g \in regimes' : g.rules = RulesOf(rt'.current)
    BY <2>1, <2>3 DEF RulesOf
  <2>5. /\ \E g \in regimes' : g.cfg = rt'.config
        /\ \E g \in regimes' : g.cfg.excluded = rt'.exclusions
    BY <2>1, <2>3 DEF InForce
  <2>6. QED
    BY <2>1, <2>4, <2>5 DEF InForce, RulesOf
<1>3. CASE LookForEngine(a) \/ ScanRules(a) \/ CompileRules(a) \/ RereadConfig(a)
  <2>1. UNCHANGED <<rt, regimes, torn>>
    BY <1>3 DEF LookForEngine, ScanRules, CompileRules, RereadConfig
  <2>2. QED
    BY <2>1 DEF InForce, RulesOf
<1>4. CASE BuildFails(a)
  <2>1. Settle(a, FALSE) /\ UNCHANGED rt /\ admin[a].alone \in BOOLEAN
    BY <1>4, Fields DEF BuildFails
  <2>2. ~torn /\ regimes' = regimes
    BY <2>1, SettleEnds DEF Types
  <2>3. QED
    BY <2>1, <2>2 DEF InForce, RulesOf
<1>5. CASE InstallEngine(a)
  <2>1. /\ rt'.current = admin[a].engine /\ rt'.config = rt.config /\ rt'.exclusions = rt.exclusions
        /\ torn' = torn /\ admin[a].pc = "install"
        /\ Enter(a, [cfg |-> admin[a].cfg, rules |-> admin[a].engine.rules])
    BY <1>5 DEF InstallEngine, Types
  <2>2. admin[a].alone
    BY <2>1 DEF CallStages
  <2>3. /\ [cfg |-> admin[a].cfg, rules |-> admin[a].engine.rules] \in regimes'
        /\ regimes \subseteq regimes' /\ admin[a].engine.cfg = admin[a].cfg
    BY <2>1, <2>2, EnterAdds, InstalledRegime
  <2> DEFINE new == [cfg |-> admin[a].cfg, rules |-> admin[a].engine.rules]
  <2>4. new.cfg = rt'.current.cfg /\ new.rules = rt'.current.rules
    BY <2>1, <2>3
  <2>5. /\ \E g \in regimes' : g.cfg = rt'.config
        /\ \E g \in regimes' : g.cfg.excluded = rt'.exclusions
    BY <2>1, <2>3 DEF InForce
  <2>6. CASE rt'.current # NoEngine
    <3>1. RulesOf(rt'.current) = rt'.current.rules
      BY <2>6 DEF RulesOf
    <3> HIDE DEF new
    <3>2. new \in regimes'
      BY <2>3 DEF new
    <3>3. QED
      BY <2>4, <2>5, <3>1, <3>2 DEF InForce, RulesOf
  <2>7. rt'.current # NoEngine
    BY <2>1, InstalledRegime, NoEngineAssumption
  <2>8. QED
    BY <2>6, <2>7
<1>6. CASE StoreConfig(a)
  <2>1. /\ rt'.current = rt.current /\ rt'.config = admin[a].cfg /\ rt'.exclusions = rt.exclusions
        /\ torn' = torn /\ admin[a].pc = "config"
        /\ Enter(a, [cfg |-> admin[a].cfg, rules |-> RulesOf(rt.current)])
    BY <1>6 DEF StoreConfig, Types
  <2>2. admin[a].alone
    BY <2>1 DEF CallStages
  <2> DEFINE new == [cfg |-> admin[a].cfg, rules |-> RulesOf(rt.current)]
  <2>3. new \in regimes' /\ regimes \subseteq regimes'
    BY <2>1, <2>2, EnterAdds, Fields, RegimesTyped
  <2>4. \E g \in regimes' : g.cfg = rt'.config
    BY <2>1, <2>3
  <2>5. QED
    BY <2>1, <2>3, <2>4 DEF InForce, RulesOf
<1>7. CASE StoreExclusions(a)
  <2>1. /\ rt'.config = rt.config /\ rt'.current = rt.current /\ rt'.exclusions = admin[a].cfg.excluded
        /\ UNCHANGED <<torn, regimes>> /\ admin[a].pc = "exclusions"
    BY <1>7 DEF StoreExclusions, Types
  <2>2. /\ rt.current = NoEngine \/ rt.current.cfg = admin[a].cfg
        /\ rt.config = admin[a].cfg /\ InPlace \in regimes
    BY <2>1 DEF CallStages, Before
  <2>3. \E g \in regimes : g.cfg = rt.config
    BY <2>1 DEF InForce
  <2>4. \E g \in regimes' : g.cfg.excluded = rt'.exclusions
    BY <2>1, <2>2, <2>3
  <2>5. QED
    BY <2>1, <2>4 DEF InForce, RulesOf
<1>8. CASE SaveConfig(a)
  <2>1. Settle(a, TRUE) /\ UNCHANGED rt /\ admin[a].pc = "save"
    BY <1>8 DEF SaveConfig
  <2>2. admin[a].alone
    BY <2>1, SettleEnds, Fields
  <2>3. \A b \in Admins \ {a} : admin[b].pc = "idle"
    BY <2>1, <2>2 DEF CallStages
  <2>4. \A b \in Admins : admin'[b].pc = "idle"
    <3>1. /\ admin'[a].pc = "idle"
          /\ \A b \in Admins \ {a} : admin'[b] = admin[b]
      BY <2>1, SettleEnds
    <3>2. QED
      BY <2>3, <3>1
  <2>5. /\ regimes' = {InPlace'} /\ rt'.exclusions = rt'.config.excluded
        /\ rt'.current # NoEngine => rt'.current.cfg = rt'.config
    BY <2>4 DEF Agreed, Before
  <2>6. InPlace'.cfg = rt'.config /\ InPlace'.rules = RulesOf(rt'.current)
    BY DEF InPlace, RulesOf
  <2>7. rt'.current # NoEngine => RulesOf(rt'.current) = rt'.current.rules
    BY DEF RulesOf
  <2>8. RulesOf(rt.current)' = RulesOf(rt'.current)
    BY DEF RulesOf
  <2>9. QED
    BY <2>5, <2>6, <2>7, <2>8 DEF InForce
<1>9. QED
  BY <1>1, <1>2, <1>3, <1>4, <1>5, <1>6, <1>7, <1>8 DEF AdminStep, SetConfig, Reload

\* Every step keeps what requests can read of a regime in force.
LEMMA InForceStep ==
    ASSUME Types, Types', CallStages, Agreed, Agreed', InForce, [Next]_vars
    PROVE  InForce'
<1>1. ASSUME NEW a \in Admins, AdminStep(a) PROVE InForce'
  BY <1>1, InForceAdmin
<1>2. CASE (\E r \in Requests : RequestStep(r)) \/ EditRules \/ Status \/ Drain \/ Tick \/ UNCHANGED vars
  <2>1. UNCHANGED <<rt, saved, admin, regimes, torn>>
    BY <1>2, OthersStandBack
  <2>2. QED
    BY <2>1 DEF InForce, RulesOf
<1>3. CASE Restart
  <2> DEFINE g == [cfg |-> saved, rules |-> RulesOf(rt'.current)]
  <2>1. rt' = NewRuntime(saved) /\ g \in regimes'
    BY <1>3 DEF Restart
  <2>2. /\ rt'.config = saved /\ rt'.exclusions = saved.excluded
        /\ rt'.current # NoEngine => rt'.current.cfg = saved
    BY <2>1, Starts DEF Types
  <2>3. g.cfg = saved /\ g.rules = RulesOf(rt'.current)
    OBVIOUS
  <2>4. rt'.current # NoEngine => RulesOf(rt'.current) = rt'.current.rules
    BY DEF RulesOf
  <2>5. RulesOf(rt.current)' = RulesOf(rt'.current)
    BY DEF RulesOf
  <2> HIDE DEF g
  <2>6. QED
    BY <2>1, <2>2, <2>3, <2>4, <2>5 DEF InForce
<1>4. QED
  BY <1>1, <1>2, <1>3 DEF Next

-----------------------------------------------------------------------------
(* What requests know *)

\* What an evaluation needs, when it has begun and no calls overlapped since.
Knows(r) ==
    /\ ~torn /\ regimes \subseteq req[r].may
    /\ req[r].pc \in {"exclusions", "engine"} => \E g \in req[r].may : g.cfg.mode = req[r].mode
    /\ req[r].pc \in {"exclusions", "engine"} => req[r].blocked = FALSE
    /\ req[r].pc = "engine" => \E g \in req[r].may : ~g.cfg.excluded
    /\ req[r].pc \in {"event", "done"} /\ OneChange(req[r].may) =>
          \E g \in req[r].may : req[r].blocked = Blocks(r, g)

\* Evaluations and Knows say the same.
LEMMA EvaluationsKnow ==
    Evaluations <=> \A r \in Requests : req[r].pc # "idle" /\ ~req[r].torn => Knows(r)
BY DEF Evaluations, Knows

\* The more regimes there may have been, the less they differ in one thing only.
LEMMA OneChangeShrinks ==
    ASSUME NEW M, NEW N, M \subseteq N, OneChange(N)
    PROVE  OneChange(M)
BY DEF OneChange

\* A call of the admin API takes nothing away from what a request knows.
LEMMA CallsTakeNothing ==
    ASSUME NEW r \in Requests, Knows(r), ~torn',
           req'[r].pc = req[r].pc, req'[r].mode = req[r].mode, req'[r].blocked = req[r].blocked,
           req[r].may \subseteq req'[r].may, regimes' \subseteq req'[r].may
    PROVE  Knows(r)'
<1>1. req[r].pc \in {"exclusions", "engine"} => \E g \in req'[r].may : g.cfg.mode = req[r].mode
  BY DEF Knows
<1>2. req[r].pc \in {"exclusions", "engine"} => req[r].blocked = FALSE
  BY DEF Knows
<1>3. req[r].pc = "engine" => \E g \in req'[r].may : ~g.cfg.excluded
  BY DEF Knows
<1>4. req[r].pc \in {"event", "done"} /\ OneChange(req'[r].may) =>
          \E g \in req'[r].may : req[r].blocked = Blocks(r, g)
  <2>1. OneChange(req'[r].may) => OneChange(req[r].may)
    BY OneChangeShrinks
  <2>2. QED
    BY <2>1 DEF Knows
<1>5. OneChange(req[r].may)' <=> OneChange(req'[r].may)
  BY DEF OneChange, Rest
<1>6. ASSUME NEW g PROVE Blocks(r, g)' <=> Blocks(r, g)
  BY DEF Blocks, Caught, IsActive
<1>7. QED
  BY <1>1, <1>2, <1>3, <1>4, <1>5, <1>6 DEF Knows

\* The steps of a call keep what requests know.
LEMMA EvaluationsAdmin ==
    ASSUME Types, Types', CallStages, Evaluations, NEW a \in Admins, AdminStep(a)
    PROVE  Evaluations'
<1> SUFFICES ASSUME NEW r \in Requests, req'[r].pc # "idle", ~req'[r].torn
             PROVE  Knows(r)'
  BY DEF Evaluations, Knows
<1> USE EvaluationsKnow
<1>1. ASSUME NEW name \in {"set", "reload"}, Begin(a, name) PROVE Knows(r)'
  <2>1. /\ req'[r].pc = req[r].pc /\ req'[r].mode = req[r].mode
        /\ req'[r].blocked = req[r].blocked /\ req'[r].may = req[r].may
        /\ ~req[r].torn /\ Calling = {} /\ (torn' <=> torn \/ Calling # {})
    BY <1>1, BeginCalls
  <2>2. Knows(r) /\ UNCHANGED regimes
    BY <1>1, <2>1 DEF Begin
  <2>3. ~torn' /\ regimes' \subseteq req'[r].may
    BY <2>1, <2>2 DEF Knows
  <2>4. QED
    BY <2>1, <2>2, <2>3, CallsTakeNothing
<1>2. CASE ClearEngine(a) \/ InstallEngine(a) \/ StoreConfig(a)
  <2>1. PICK g \in Regimes : Enter(a, g)
    <3>1. CASE ClearEngine(a)
      BY <3>1, Fields, RegimesTyped DEF ClearEngine
    <3>2. CASE InstallEngine(a)
      BY <3>2, InstalledRegime DEF InstallEngine
    <3>3. CASE StoreConfig(a)
      BY <3>3, Fields, RegimesTyped DEF StoreConfig
    <3>4. QED
      BY <1>2, <3>1, <3>2, <3>3
  <2>2. /\ req'[r].pc = req[r].pc /\ req'[r].mode = req[r].mode
        /\ req'[r].blocked = req[r].blocked /\ req'[r].torn = req[r].torn
        /\ req[r].may \subseteq req'[r].may
        /\ regimes \subseteq req[r].may => regimes' \subseteq req'[r].may
    BY <2>1, EnterAdds
  <2>3. Knows(r) /\ torn' = torn
    BY <1>2, <2>2 DEF ClearEngine, InstallEngine, StoreConfig
  <2>4. ~torn' /\ regimes' \subseteq req'[r].may
    BY <2>2, <2>3 DEF Knows
  <2>5. QED
    BY <2>2, <2>3, <2>4, CallsTakeNothing
<1>3. CASE LookForEngine(a) \/ ScanRules(a) \/ CompileRules(a) \/ StoreExclusions(a) \/ RereadConfig(a)
  <2>1. UNCHANGED <<req, regimes, torn>>
    BY <1>3 DEF LookForEngine, ScanRules, CompileRules, StoreExclusions, RereadConfig
  <2>2. Knows(r)
    BY <2>1
  <2>3. ~torn' /\ regimes' \subseteq req'[r].may
    BY <2>1, <2>2 DEF Knows
  <2>4. QED
    BY <2>1, <2>2, <2>3, CallsTakeNothing
<1>4. CASE BuildFails(a)
  <2>1. Settle(a, FALSE) /\ UNCHANGED req /\ admin[a].pc # "idle" /\ admin[a].alone \in BOOLEAN
    BY <1>4, Fields DEF BuildFails, CannotBuild
  <2>2. Knows(r) /\ ~torn
    BY <2>1 DEF Knows
  <2>3. admin[a].alone
    BY <2>1, <2>2 DEF CallStages
  <2>4. ~torn' /\ regimes' = regimes
    BY <2>1, <2>2, <2>3, SettleEnds
  <2>5. regimes' \subseteq req'[r].may
    BY <2>1, <2>2, <2>4 DEF Knows
  <2>6. QED
    BY <2>1, <2>2, <2>4, <2>5, CallsTakeNothing
<1>5. CASE SaveConfig(a)
  <2>1. Settle(a, TRUE) /\ UNCHANGED req /\ admin[a].pc = "save"
    BY <1>5 DEF SaveConfig
  <2>2. Knows(r) /\ ~torn
    BY <2>1 DEF Knows
  <2>3. admin[a].alone /\ InPlace \in regimes
    BY <2>1, <2>2 DEF CallStages
  <2>4. ~torn' /\ regimes' = {InPlace}
    BY <2>1, <2>3, SettleEnds
  <2>5. regimes' \subseteq req'[r].may
    BY <2>1, <2>2, <2>3, <2>4 DEF Knows
  <2>6. QED
    BY <2>1, <2>2, <2>4, <2>5, CallsTakeNothing
<1>6. QED
  BY <1>1, <1>2, <1>3, <1>4, <1>5 DEF AdminStep, SetConfig, Reload

\* Without what makes it active, a configuration blocks nothing; nor does one
\* that excludes the request, or detects, or has no rule that catches it.
LEMMA BlocksNothing ==
    ASSUME NEW r, NEW g, \/ ~IsActive(g.cfg) \/ g.cfg.excluded \/ g.cfg.mode # "blocking"
                         \/ ~Caught(r, g.rules)
    PROVE  Blocks(r, g) = FALSE
BY DEF Blocks

\* What the engine says, together with the mode and the exclusions that were
\* read, is what one regime says, if the regimes differ in one thing only.
LEMMA EngineIsExplained ==
    ASSUME Types, CallStages, InForce, NEW r \in Requests, Knows(r), RunEngine(r), OneChange(req[r].may)
    PROVE  \E g \in req[r].may : req'[r].blocked = Blocks(r, g)
<1>1. /\ ~torn /\ regimes \subseteq req[r].may /\ req[r].pc = "engine"
      /\ \E g \in req[r].may : g.cfg.mode = req[r].mode
      /\ \E g \in req[r].may : ~g.cfg.excluded
  BY DEF Knows, RunEngine
<1>2. req'[r].blocked \in BOOLEAN
  BY EngineAnswers DEF Eval
<1>3. \E g \in req[r].may : g.rules = RulesOf(rt.current)
  BY <1>1 DEF InForce
<1>4. CASE ~req'[r].blocked
  <2>1. CASE rt.current = NoEngine \/ ~Caught(r, rt.current.rules)
    <3>1. ~Caught(r, RulesOf(rt.current))
      BY <2>1 DEF RulesOf, Caught
    <3>2. QED
      BY <1>2, <1>3, <1>4, <3>1, BlocksNothing
  <2>2. CASE rt.current # NoEngine /\ Caught(r, rt.current.rules)
    <3>1. PICK e \in req[r].may : e.cfg = rt.current.cfg /\ e.rules = rt.current.rules
      BY <1>1, <2>2 DEF InForce
    <3>2. Recorded(r, rt.current)
      BY <2>2 DEF Recorded
    <3>3. ~Interrupts(r, rt.current) \/ req[r].mode = "detection"
      BY <1>4, <2>2, <3>2, EngineAnswers
    <3>4. CASE req[r].mode = "detection"
      BY <1>1, <1>2, <1>4, <3>4, BlocksNothing
    <3>5. CASE ~Interrupts(r, rt.current)
      <4>1. SecRuleEngine(rt.current.cfg) # "On"
        BY <2>2, <3>5 DEF Interrupts
      <4>2. e.cfg.mode # "blocking"
        BY <3>1, <4>1 DEF SecRuleEngine
      <4>3. QED
        BY <1>2, <1>4, <3>1, <4>2, BlocksNothing
    <3>6. QED
      BY <3>3, <3>4, <3>5
  <2>3. QED
    BY <2>1, <2>2
<1>5. CASE req'[r].blocked
  <2>1. rt.current # NoEngine /\ Interrupts(r, rt.current)
    BY <1>5, EngineAnswers
  <2>2. Caught(r, rt.current.rules) /\ SecRuleEngine(rt.current.cfg) = "On"
    BY <2>1 DEF Interrupts
  <2>3. rt.current \in Regimes /\ IsActive(rt.current.cfg)
    BY <2>1, Fields DEF CallStages
  <2>4. rt.current.cfg.mode = "blocking"
    <3>1. rt.current.cfg.mode \in Modes
      BY <2>3, ConfigFields DEF Regimes
    <3>2. QED
      BY <2>2, <3>1 DEF SecRuleEngine, Modes
  <2>5. PICK e \in req[r].may : e.cfg = rt.current.cfg /\ e.rules = rt.current.rules
    BY <1>1, <2>1 DEF InForce
  <2>6. PICK h \in req[r].may : ~h.cfg.excluded
    BY <1>1
  <2>7. CASE \A p, q \in req[r].may : p.cfg.excluded = q.cfg.excluded
    <3>1. ~e.cfg.excluded
      BY <2>5, <2>6, <2>7
    <3>2. Blocks(r, e)
      BY <2>2, <2>3, <2>4, <2>5, <3>1 DEF Blocks
    <3>3. QED
      BY <1>2, <1>5, <2>5, <3>2
  <2>8. CASE \A p, q \in req[r].may : Rest(p) = Rest(q)
    <3>1. h.cfg.enabled = e.cfg.enabled /\ h.cfg.mode = e.cfg.mode /\ h.rules = e.rules
      BY <2>5, <2>6, <2>8 DEF Rest
    <3>2. Blocks(r, h)
      BY <2>2, <2>3, <2>4, <2>5, <2>6, <3>1 DEF Blocks, IsActive
    <3>3. QED
      BY <1>2, <1>5, <2>6, <3>2
  <2>9. QED
    BY <2>7, <2>8 DEF OneChange
<1>6. QED
  BY <1>4, <1>5

\* What a request knows depends on its own evaluation and on what calls did.
LEMMA OthersKnowAsMuch ==
    ASSUME NEW q \in Requests, Knows(q), req'[q] = req[q], UNCHANGED <<regimes, torn>>
    PROVE  Knows(q)'
<1>1. ~torn' /\ regimes' \subseteq req'[q].may
  BY DEF Knows
<1>2. QED
  BY <1>1, CallsTakeNothing

\* The steps of a request keep what all of them know.
LEMMA EvaluationsRequest ==
    ASSUME Types, Types', CallStages, InForce, Evaluations, NEW r \in Requests, RequestStep(r)
    PROVE  Evaluations'
<1> USE EvaluationsKnow
<1>1. UNCHANGED <<rt, saved, admin, regimes, torn>>
  BY OthersStandBack
<1>2. \A q \in Requests \ {r} : req'[q] = req[q]
  BY EvalBegins, EvalGoesOn, EngineAnswers DEF RequestStep
<1>3. ASSUME NEW q \in Requests \ {r}, req'[q].pc # "idle", ~req'[q].torn PROVE Knows(q)'
  BY <1>1, <1>2, <1>3, OthersKnowAsMuch
<1>4. ASSUME NEW g PROVE Blocks(r, g)' <=> Blocks(r, g)
  BY DEF Blocks, Caught, IsActive
<1>5. OneChange(req[r].may)' <=> OneChange(req'[r].may)
  BY DEF OneChange, Rest
<1>6. ASSUME req'[r].pc # "idle", ~req'[r].torn PROVE Knows(r)'
  <2>1. CASE ReadConfig(r)
    <3>1. /\ req'[r].pc = IF IsActive(rt.config) THEN "exclusions" ELSE "done"
          /\ req'[r].mode = rt.config.mode /\ req'[r].may = regimes
          /\ ~torn /\ req'[r].blocked = FALSE
      BY <1>6, <2>1, EvalBegins
    <3>2. PICK g \in regimes : g.cfg = rt.config
      BY <3>1 DEF InForce
    <3>3. req'[r].pc = "done" => req'[r].blocked = Blocks(r, g)
      BY <3>1, <3>2, BlocksNothing
    <3>4. QED
      BY <1>1, <1>4, <3>1, <3>2, <3>3 DEF Knows
  <2>2. CASE ReadExclusions(r)
    <3>1. /\ req'[r].pc = IF rt.exclusions THEN "done" ELSE "engine"
          /\ req'[r].may = req[r].may /\ req'[r].torn = req[r].torn /\ req'[r].mode = req[r].mode
          /\ req'[r].blocked = req[r].blocked
      BY <2>2, EvalGoesOn
    <3>2. req[r].pc = "exclusions" /\ Knows(r)
      BY <1>6, <2>2, <3>1 DEF ReadExclusions
    <3>3. PICK g \in regimes : g.cfg.excluded = rt.exclusions
      BY <3>2 DEF InForce, Knows
    <3>4. g \in req[r].may
      BY <3>2, <3>3 DEF Knows
    <3>5. req[r].blocked = FALSE
      BY <3>2 DEF Knows
    <3>6. rt.exclusions => req[r].blocked = Blocks(r, g)
      BY <3>3, <3>5, BlocksNothing
    <3>7. QED
      BY <1>1, <1>4, <3>1, <3>2, <3>3, <3>4, <3>6 DEF Knows
  <2>3. CASE RunEngine(r)
    <3>1. /\ req'[r].pc \in {"done", "event"} /\ req'[r].may = req[r].may /\ req'[r].torn = req[r].torn
          /\ req[r].pc = "engine"
      BY <2>3, EngineAnswers DEF RunEngine
    <3>2. Knows(r)
      BY <1>6, <3>1
    <3>3. OneChange(req[r].may) => \E g \in req[r].may : req'[r].blocked = Blocks(r, g)
      BY <2>3, <3>2, EngineIsExplained
    <3>4. QED
      BY <1>1, <1>4, <1>5, <3>1, <3>2, <3>3 DEF Knows
  <2>4. CASE AddEvent(r)
    <3>1. /\ req'[r].pc = "done" /\ req'[r].may = req[r].may /\ req'[r].torn = req[r].torn
          /\ req'[r].blocked = req[r].blocked /\ req[r].pc = "event"
      BY <2>4, EvalGoesOn DEF AddEvent
    <3>2. Knows(r)
      BY <1>6, <3>1
    <3>3. QED
      BY <1>1, <1>4, <1>5, <3>1, <3>2 DEF Knows
  <2>5. QED
    BY <2>1, <2>2, <2>3, <2>4 DEF RequestStep
<1>7. \A q \in Requests : req'[q].pc # "idle" /\ ~req'[q].torn => Knows(q)'
  BY <1>3, <1>6
<1>8. QED
  BY <1>7 DEF Evaluations, Knows

\* Every step keeps what requests know.
LEMMA EvaluationsStep ==
    ASSUME Types, Types', CallStages, InForce, Evaluations, [Next]_vars
    PROVE  Evaluations'
<1>1. ASSUME NEW a \in Admins, AdminStep(a) PROVE Evaluations'
  BY <1>1, EvaluationsAdmin
<1>2. ASSUME NEW r \in Requests, RequestStep(r) PROVE Evaluations'
  BY <1>2, EvaluationsRequest
<1>3. CASE EditRules \/ Status \/ Drain \/ Tick \/ UNCHANGED vars
  <2>1. UNCHANGED <<req, regimes, torn>>
    BY <1>3 DEF EditRules, Status, Drain, Tick, vars
  <2>2. \A q \in Requests : Knows(q) => Knows(q)'
    BY <2>1, OthersKnowAsMuch
  <2>3. \A q \in Requests : req'[q].pc # "idle" /\ ~req'[q].torn => Knows(q)'
    BY <2>1, <2>2, EvaluationsKnow
  <2>4. QED
    BY <2>3 DEF Evaluations, Knows
<1>4. CASE Restart
  <2>1. req' = [r \in Requests |-> NoEval]
    BY <1>4 DEF Restart
  <2>2. \A r \in Requests : req'[r].pc = "idle"
    BY <2>1 DEF NoEval
  <2>3. QED
    BY <2>2 DEF Evaluations
<1>5. QED
  BY <1>1, <1>2, <1>3, <1>4 DEF Next

-----------------------------------------------------------------------------
(* The theorems *)

\* All of it, beside the types.
IInv == CallStages /\ Agreed /\ InForce /\ Evaluations

\* The invariant holds when the program starts (NewHandler).
LEMMA InvariantInit == Init => Types /\ IInv
<1> SUFFICES ASSUME Init PROVE Types /\ IInv
  OBVIOUS
<1> DEFINE g == [cfg |-> saved, rules |-> RulesOf(rt.current)]
<1>1. /\ disk \in Disks /\ saved \in Configs /\ rt = NewRuntime(saved) /\ regimes = {g} /\ torn = FALSE
      /\ clock = 0 /\ admin = [a \in Admins |-> NoCall] /\ req = [r \in Requests |-> NoEval]
  BY DEF Init
<1>2. /\ rt \in [current : EngineType, config : Configs, exclusions : BOOLEAN]
      /\ rt.config = saved /\ rt.exclusions = saved.excluded
      /\ rt.current # NoEngine => rt.current.cfg = saved /\ IsActive(saved)
      /\ g \in Regimes
  BY <1>1, Starts
<1>3. NoCall \in Call
  <2>1. (CHOOSE c \in Configs : TRUE) \in Configs
    BY <1>1
  <2>2. <<>> \in Selections /\ NoEngine \in EngineType
    BY DEF Selections, EngineType
  <2>3. QED
    BY <2>1, <2>2 DEF NoCall, Call, Stages, Before
<1>4. NoEval \in Eval
  BY DEF NoEval, Eval, Modes
<1>5. Types
  BY <1>1, <1>2, <1>3, <1>4 DEF Types
<1>6. \A a \in Admins : admin[a].pc = "idle"
  BY <1>1 DEF NoCall
<1>7. \A r \in Requests : req[r].pc = "idle"
  BY <1>1 DEF NoEval
<1>8. CallStages
  BY <1>2, <1>6 DEF CallStages
<1>9. Agreed
  BY <1>1, <1>2 DEF Agreed, InPlace
<1>10. InForce
  <2>1. g \in regimes /\ g.cfg = saved /\ g.rules = RulesOf(rt.current)
    BY <1>1
  <2>2. rt.current # NoEngine => RulesOf(rt.current) = rt.current.rules
    BY DEF RulesOf
  <2> HIDE DEF g
  <2>3. QED
    BY <1>2, <2>1, <2>2 DEF InForce
<1>11. Evaluations
  BY <1>7 DEF Evaluations
<1>12. QED
  BY <1>5, <1>8, <1>9, <1>10, <1>11 DEF IInv

\* The invariant holds always.
LEMMA Invariant == Spec => [](Types /\ IInv)
<1>1. Types /\ IInv /\ [Next]_vars => (Types /\ IInv)'
  BY TypesStep, CallStagesStep, AgreedStep, InForceStep, EvaluationsStep DEF IInv
<1>2. QED
  BY InvariantInit, <1>1, PTL DEF Spec

\* The state keeps its types, and no engine is in place that was built for an
\* inactive configuration.
THEOREM TypeCorrect == Spec => []TypeOK
<1>1. Types /\ IInv => TypeOK
  <2> SUFFICES ASSUME Types, IInv PROVE TypeOK
    OBVIOUS
  <2>1. rt.current # NoEngine => IsActive(rt.current.cfg)
    BY DEF IInv, CallStages
  <2>2. saved \in Configs /\ saved.mode \in Modes
    BY ConfigFields DEF Types
  <2>3. QED
    BY <2>1, <2>2, Fields DEF TypeOK, Types
<1>2. QED
  BY <1>1, Invariant, PTL

\* Between calls, when the last to succeed overlapped with no other, engine,
\* configuration, exclusions and the saved configuration are one regime, for any
\* number of callers, whatever builds failed since.
THEOREM RuntimeIsOneRegime == Spec => []RuntimeAgrees
<1>1. Types /\ IInv => RuntimeAgrees
  <2> SUFFICES ASSUME Types, IInv, Calling = {}, ~torn PROVE RuntimeAgrees
    BY DEF RuntimeAgrees
  <2>1. \A a \in Admins : admin[a].pc \in Before
    BY DEF Calling, Before
  <2>2. QED
    BY <2>1 DEF IInv, Agreed, RuntimeAgrees, InPlace
<1>2. QED
  BY <1>1, Invariant, PTL

\* A request is blocked, or let through, only if one configuration in force
\* while it was evaluated says so, for any number of requests, calls, restarts
\* and edits of the rule files.
THEOREM DecisionsAreExplained == Spec => []DecisionExplained
<1>1. Types /\ IInv => DecisionExplained
  <2> SUFFICES ASSUME Evaluations PROVE DecisionExplained
    BY DEF IInv
  <2>1. QED
    BY DEF Evaluations, DecisionExplained, OneChange, Rest
<1>2. QED
  BY <1>1, Invariant, PTL

-----------------------------------------------------------------------------
(* What is kept of a sequence, and what sequences make when they are flattened.
   Both are recursive functions, and both lemmas are by induction, which here is
   about a set of numbers instead of a predicate: the induction theorems of the
   library take an operator, which the provers cannot instantiate, but the one
   about minimal elements of well-founded relations takes sets only. *)

\* Every set of numbers that is not empty has a least one.
LEMMA NatHasMinimum ==
    ASSUME NEW T, T \subseteq Nat, T # {}
    PROVE  \E x \in T : \A y \in T : ~(y < x)
<1> DEFINE R == OpToRel(<, Nat)
<1>1. \A x, y \in Nat : y < x => <<y, x>> \in R
  BY DEF OpToRel
<1>2. IsWellFoundedOn(R, Nat)
  BY NatLessThanWellFounded
<1> HIDE DEF R
<1>3. \E x \in T : \A y \in T : ~(<<y, x>> \in R)
  BY <1>2, WFMin, Zenon
<1>4. QED
  BY <1>1, <1>3

\* Induction on numbers, of a set instead of a predicate.
LEMMA SetInduction ==
    ASSUME NEW S, 0 \in S, \A n \in Nat : n \in S => n + 1 \in S
    PROVE  \A n \in Nat : n \in S
<1> DEFINE T == {n \in Nat : n \notin S}
<1> SUFFICES ASSUME T # {} PROVE FALSE
  OBVIOUS
<1>1. PICK x \in T : \A y \in T : ~(y < x)
  <2> HIDE DEF T
  <2>1. T \subseteq Nat
    BY DEF T
  <2>2. QED
    BY <2>1, NatHasMinimum
<1>2. x \in Nat /\ x # 0 /\ x \notin S
  OBVIOUS
<1>3. x - 1 \in Nat /\ x - 1 < x /\ (x - 1) + 1 = x
  BY <1>2
<1>4. x - 1 \in S
  BY <1>1, <1>3
<1>5. QED
  BY <1>2, <1>3, <1>4

\* The functions on 0..N that a start and a step define by recursion.
Steps(N, V) == [(1..N) \X V -> V]
Recursions(N, V, v, step) == {f \in [0..N -> V] : f[0] = v /\ \A n \in 1..N : f[n] = step[<<n, f[n - 1]>>]}

\* There is one.
LEMMA RecursionDefines ==
    ASSUME NEW N \in Nat, NEW V, NEW v \in V, NEW step \in Steps(N, V)
    PROVE  Recursions(N, V, v, step) # {}
<1> DEFINE Upto(m) == {f \in [0..m -> V] : f[0] = v /\ \A n \in 1..m : f[n] = step[<<n, f[n - 1]>>]}
           S == {m \in Nat : m > N \/ Upto(m) # {}}
<1>0. step \in [(1..N) \X V -> V]
  BY DEF Steps
<1>1. 0 \in S
  <2>1. [n \in 0..0 |-> v] \in Upto(0)
    OBVIOUS
  <2>2. QED
    BY <2>1
<1>2. ASSUME NEW m \in Nat, m \in S PROVE m + 1 \in S
  <2>1. CASE m + 1 > N
    BY <2>1
  <2>2. CASE m + 1 <= N
    <3>1. PICK f \in [0..m -> V] : f[0] = v /\ \A n \in 1..m : f[n] = step[<<n, f[n - 1]>>]
      BY <1>2, <2>2
    <3> DEFINE g == [n \in 0..(m + 1) |-> IF n = m + 1 THEN step[<<m + 1, f[m]>>] ELSE f[n]]
    <3>2. f[m] \in V /\ m + 1 \in 1..N
      BY <2>2, <3>1
    <3>3. step[<<m + 1, f[m]>>] \in V
      BY <1>0, <3>2
    <3>4. g \in [0..(m + 1) -> V] /\ g[0] = v
      BY <3>1, <3>3
    <3>5. ASSUME NEW n \in 1..(m + 1) PROVE g[n] = step[<<n, g[n - 1]>>]
      <4>1. CASE n = m + 1
        <5>1. g[n - 1] = f[m] /\ g[n] = step[<<m + 1, f[m]>>]
          BY <4>1
        <5>2. QED
          BY <4>1, <5>1
      <4>2. CASE n # m + 1
        <5>1. n \in 1..m /\ g[n] = f[n] /\ g[n - 1] = f[n - 1]
          BY <4>2
        <5>2. QED
          BY <3>1, <5>1
      <4>3. QED
        BY <4>1, <4>2
    <3> HIDE DEF g
    <3>6. g \in Upto(m + 1)
      BY <3>4, <3>5
    <3>7. QED
      BY <3>6
  <2>3. QED
    BY <2>1, <2>2
<1> HIDE DEF S
<1>3. \A m \in Nat : m \in S
  BY <1>1, <1>2, SetInduction
<1>4. Upto(N) # {}
  BY <1>3 DEF S
<1>5. QED
  BY <1>4 DEF Recursions

\* What is kept, by recursion.
LEMMA KeptRecursion ==
    ASSUME NEW T, NEW s \in Seq(T), NEW keep
    PROVE  \E f \in [0..Len(s) -> Seq(T)] :
              /\ f[0] = <<>> /\ Kept(s, keep) = f[Len(s)]
              /\ \A n \in 1..Len(s) : f[n] = IF n \in keep THEN Append(f[n - 1], s[n]) ELSE f[n - 1]
<1> DEFINE N == Len(s)
           Body(f) == [n \in 0..N |-> IF n = 0 THEN <<>>
                                      ELSE IF n \in keep THEN Append(f[n - 1], s[n]) ELSE f[n - 1]]
           step == [p \in (1..N) \X Seq(T) |-> IF p[1] \in keep THEN Append(p[2], s[p[1]]) ELSE p[2]]
           kept == CHOOSE f : f = Body(f)
<1>1. N \in Nat /\ <<>> \in Seq(T) /\ \A n \in 1..N : s[n] \in T
  OBVIOUS
<1>2. step \in [(1..N) \X Seq(T) -> Seq(T)]
  <2>1. ASSUME NEW p \in (1..N) \X Seq(T) PROVE (IF p[1] \in keep THEN Append(p[2], s[p[1]]) ELSE p[2]) \in Seq(T)
    BY <1>1
  <2>2. QED
    BY <2>1
<1>3. \A n \in 1..N, q \in Seq(T) : step[<<n, q>>] = IF n \in keep THEN Append(q, s[n]) ELSE q
  OBVIOUS
<1> HIDE DEF step
<1> HIDE DEF N
<1>4. PICK f \in [0..N -> Seq(T)] : f[0] = <<>> /\ \A n \in 1..N : f[n] = step[<<n, f[n - 1]>>]
  <2>1. Recursions(N, Seq(T), <<>>, step) # {}
    BY <1>1, <1>2, RecursionDefines DEF Steps
  <2>2. QED
    BY <2>1 DEF Recursions
<1>5. \A n \in 1..N : f[n] = IF n \in keep THEN Append(f[n - 1], s[n]) ELSE f[n - 1]
  <2> TAKE n \in 1..N
  <2>1. n - 1 \in 0..N
    BY <1>1
  <2>2. f[n - 1] \in Seq(T)
    BY <1>4, <2>1
  <2>3. QED
    BY <1>3, <1>4, <2>2
<1>6. f = Body(f)
  <2>1. ASSUME NEW n \in 0..N PROVE f[n] = Body(f)[n]
    <3>1. CASE n = 0
      BY <1>4, <3>1
    <3>2. CASE n # 0
      <4>1. n \in 1..N
        BY <1>1, <3>2
      <4>2. QED
        BY <1>5, <3>2, <4>1
    <3>3. QED
      BY <3>1, <3>2
  <2>2. f = [n \in 0..N |-> f[n]]
    BY <1>4
  <2>3. QED
    BY <2>1, <2>2
<1>7. kept = Body(kept)
  <2> HIDE DEF Body
  <2>1. QED
    BY <1>6, Zenon
<1>8. Kept(s, keep) = kept[N]
  BY Zenon DEF Kept, N
<1> HIDE DEF kept
<1>9. kept = f
  <2> DEFINE S == {n \in Nat : n > N \/ kept[n] = f[n]}
  <2>1. 0 \in S
    BY <1>1, <1>4, <1>7
  <2>2. ASSUME NEW n \in Nat, n \in S PROVE n + 1 \in S
    <3>1. CASE n + 1 > N
      BY <3>1
    <3>2. CASE n + 1 <= N
      <4>1. kept[n] = f[n] /\ n + 1 \in 1..N /\ n + 1 \in 0..N /\ n + 1 # 0 /\ (n + 1) - 1 = n
        BY <1>1, <2>2, <3>2
      <4>2. f[n + 1] = IF n + 1 \in keep THEN Append(f[n], s[n + 1]) ELSE f[n]
        BY <1>5, <4>1
      <4>3. kept[n + 1] = IF n + 1 \in keep THEN Append(kept[n], s[n + 1]) ELSE kept[n]
        BY <1>7, <4>1
      <4>4. QED
        BY <4>1, <4>2, <4>3
    <3>3. QED
      BY <1>1, <3>1, <3>2
  <2> HIDE DEF S
  <2>3. \A n \in Nat : n \in S
    BY <2>1, <2>2, SetInduction
  <2>4. \A n \in 0..N : kept[n] = f[n]
    BY <1>1, <2>3 DEF S
  <2>5. kept = [n \in 0..N |-> kept[n]]
    BY <1>7
  <2>6. QED
    BY <1>4, <2>4, <2>5
<1>10. QED
  BY <1>4, <1>5, <1>8, <1>9 DEF N

\* The places from which the elements of q are taken if they are the elements
\* of s at the places up to n that are in keep, in the order of their places.
Places(q, s, n, keep) ==
    {place \in [DOMAIN q -> (1..n) \intersect keep] :
        /\ \A i \in DOMAIN q : q[i] = s[place[i]]
        /\ \A i, j \in DOMAIN q : i < j => place[i] < place[j]
        /\ \A m \in (1..n) \intersect keep : \E i \in DOMAIN q : place[i] = m}

\* An element more at the next place.
LEMMA PlaceAdded ==
    ASSUME NEW T, NEW s, NEW n \in Nat, NEW keep, NEW q \in Seq(T), n + 1 \in keep, s[n + 1] \in T,
           NEW place \in Places(q, s, n, keep)
    PROVE  Places(Append(q, s[n + 1]), s, n + 1, keep) # {}
<1> DEFINE r == Append(q, s[n + 1])
           L == Len(q)
           there == [i \in 1..(L + 1) |-> IF i = L + 1 THEN n + 1 ELSE place[i]]
<1>1. /\ L \in Nat /\ DOMAIN r = 1..(L + 1) /\ DOMAIN q = 1..L
      /\ r[L + 1] = s[n + 1] /\ \A i \in 1..L : r[i] = q[i]
  OBVIOUS
<1> HIDE DEF r, L
<1>2. /\ \A i \in 1..L : place[i] \in 1..n /\ place[i] \in keep /\ q[i] = s[place[i]]
      /\ \A i, j \in 1..L : i < j => place[i] < place[j]
      /\ \A m \in (1..n) \intersect keep : \E i \in 1..L : place[i] = m
  BY <1>1 DEF Places
<1>3. /\ \A i \in 1..L : i \in 1..(L + 1) /\ there[i] = place[i]
      /\ L + 1 \in 1..(L + 1) /\ there[L + 1] = n + 1
      /\ \A i \in 1..(L + 1) : i # L + 1 => i \in 1..L
  BY <1>1
<1>4. there \in [1..(L + 1) -> (1..(n + 1)) \intersect keep]
  <2>1. \A i \in 1..L : place[i] \in 1..(n + 1)
    BY <1>2
  <2>2. \A i \in 1..(L + 1) : there[i] \in (1..(n + 1)) \intersect keep
    BY <1>2, <1>3, <2>1
  <2>3. QED
    BY <2>2
<1> HIDE DEF there
<1>5. \A i \in 1..(L + 1) : r[i] = s[there[i]]
  BY <1>1, <1>2, <1>3
<1>6. ASSUME NEW i \in 1..(L + 1), NEW j \in 1..(L + 1), i < j PROVE there[i] < there[j]
  <2>1. i \in 1..L
    BY <1>1, <1>6
  <2>2. CASE j = L + 1
    BY <1>2, <1>3, <2>1, <2>2
  <2>3. CASE j # L + 1
    <3>1. j \in 1..L
      BY <1>3, <2>3
    <3>2. QED
      BY <1>2, <1>3, <1>6, <2>1, <3>1
  <2>4. QED
    BY <2>2, <2>3
<1>7. ASSUME NEW m \in (1..(n + 1)) \intersect keep PROVE \E i \in 1..(L + 1) : there[i] = m
  <2>1. CASE m = n + 1
    BY <1>3, <2>1
  <2>2. CASE m # n + 1
    <3>1. m \in (1..n) \intersect keep
      BY <2>2
    <3>2. PICK i \in 1..L : place[i] = m
      BY <1>2, <3>1
    <3>3. QED
      BY <1>3, <3>2
  <2>3. QED
    BY <2>1, <2>2
<1>8. there \in Places(r, s, n + 1, keep)
  BY <1>1, <1>4, <1>5, <1>6, <1>7 DEF Places
<1>9. QED
  BY <1>8 DEF r

\* The elements kept are those at the places to keep, in the order of their
\* places.
LEMMA KeptFacts ==
    ASSUME NEW T, NEW s \in Seq(T), NEW keep
    PROVE  /\ Kept(s, keep) \in Seq(T) /\ Len(Kept(s, keep)) <= Len(s)
           /\ Places(Kept(s, keep), s, Len(s), keep) # {}
<1> DEFINE N == Len(s)
<1>1. N \in Nat /\ \A n \in 1..N : s[n] \in T
  OBVIOUS
<1>2. PICK f \in [0..N -> Seq(T)] :
          /\ f[0] = <<>> /\ Kept(s, keep) = f[N]
          /\ \A n \in 1..N : f[n] = IF n \in keep THEN Append(f[n - 1], s[n]) ELSE f[n - 1]
  BY KeptRecursion
<1> HIDE DEF N
<1> DEFINE Good(n) == Len(f[n]) <= n /\ Places(f[n], s, n, keep) # {}
           S == {n \in Nat : n > N \/ Good(n)}
<1>3. Good(0)
  <2>1. DOMAIN f[0] = {} /\ Len(f[0]) = 0
    BY <1>2
  <2>2. [i \in {} |-> 0] \in Places(f[0], s, 0, keep)
    BY <2>1 DEF Places
  <2>3. QED
    BY <2>1, <2>2
<1>4. ASSUME NEW n \in Nat, n + 1 <= N, Good(n) PROVE Good(n + 1)
  <2>1. n \in 0..N /\ n + 1 \in 1..N /\ (n + 1) - 1 = n
    BY <1>1, <1>4
  <2>2. f[n] \in Seq(T) /\ f[n + 1] = IF n + 1 \in keep THEN Append(f[n], s[n + 1]) ELSE f[n]
    BY <1>2, <2>1
  <2>3. Len(f[n]) \in Nat /\ Len(f[n]) <= n
    BY <1>4, <2>2
  <2>4. CASE n + 1 \in keep
    <3>1. PICK place : place \in Places(f[n], s, n, keep)
      BY <1>4
    <3>2. Places(f[n + 1], s, n + 1, keep) # {}
      BY <1>1, <2>1, <2>2, <2>4, <3>1, PlaceAdded
    <3>3. Len(f[n + 1]) = Len(f[n]) + 1
      BY <1>1, <2>1, <2>2, <2>4
    <3>4. QED
      BY <2>3, <3>2, <3>3
  <2>5. CASE n + 1 \notin keep
    <3>1. f[n + 1] = f[n] /\ (1..(n + 1)) \intersect keep = (1..n) \intersect keep
      BY <2>2, <2>5
    <3>2. Places(f[n + 1], s, n + 1, keep) = Places(f[n], s, n, keep)
      BY <3>1 DEF Places
    <3>3. QED
      BY <1>4, <2>3, <3>1, <3>2
  <2>6. QED
    BY <2>4, <2>5
<1> HIDE DEF Good
<1>5. \A n \in Nat : n \in S
  <2>1. 0 \in S
    BY <1>3
  <2>2. ASSUME NEW n \in Nat, n \in S PROVE n + 1 \in S
    BY <1>1, <1>4, <2>2
  <2> HIDE DEF S
  <2>3. QED
    BY <2>1, <2>2, SetInduction
<1>6. Good(N)
  BY <1>1, <1>5
<1>7. QED
  BY <1>1, <1>2, <1>6 DEF Good, N

\* What is flattened, by recursion.
LEMMA FlattenRecursion ==
    ASSUME NEW T, NEW ss \in Seq(Seq(T))
    PROVE  \E f \in [0..Len(ss) -> Seq(T)] :
              /\ f[0] = <<>> /\ FlattenSeq(ss) = f[Len(ss)]
              /\ \A n \in 1..Len(ss) : f[n] = f[n - 1] \o ss[n]
<1> DEFINE N == Len(ss)
           Body(f) == [i \in 1..N |-> IF i = 1 THEN ss[i] ELSE f[i - 1] \o ss[i]]
           step == [p \in (1..N) \X Seq(T) |-> p[2] \o ss[p[1]]]
           flatten == CHOOSE f : f = Body(f)
<1>1. N \in Nat /\ <<>> \in Seq(T) /\ \A n \in 1..N : ss[n] \in Seq(T)
  OBVIOUS
<1>2. step \in [(1..N) \X Seq(T) -> Seq(T)]
  <2>1. ASSUME NEW p \in (1..N) \X Seq(T) PROVE p[2] \o ss[p[1]] \in Seq(T)
    BY <1>1
  <2>2. QED
    BY <2>1
<1>3. \A n \in 1..N, q \in Seq(T) : step[<<n, q>>] = q \o ss[n]
  OBVIOUS
<1> HIDE DEF step, N
<1>4. PICK f \in [0..N -> Seq(T)] : f[0] = <<>> /\ \A n \in 1..N : f[n] = step[<<n, f[n - 1]>>]
  <2>1. Recursions(N, Seq(T), <<>>, step) # {}
    BY <1>1, <1>2, RecursionDefines DEF Steps
  <2>2. QED
    BY <2>1 DEF Recursions
<1>5. \A n \in 1..N : f[n] = f[n - 1] \o ss[n]
  <2> TAKE n \in 1..N
  <2>1. n - 1 \in 0..N
    BY <1>1
  <2>2. f[n - 1] \in Seq(T)
    BY <1>4, <2>1
  <2>3. QED
    BY <1>3, <1>4, <2>2
<1>6. CASE N = 0
  <2>1. FlattenSeq(ss) = <<>>
    BY <1>6 DEF FlattenSeq, N
  <2>2. QED
    BY <1>4, <1>5, <1>6, <2>1 DEF N
<1>7. CASE N # 0
  <2> DEFINE g == [n \in 1..N |-> f[n]]
  <2>1. g = Body(g)
    <3>1. ASSUME NEW n \in 1..N PROVE g[n] = Body(g)[n]
      <4>1. CASE n = 1
        <5>1. f[1] = <<>> \o ss[1]
          <6>1. 1 \in 1..N /\ 1 - 1 = 0
            BY <4>1
          <6>2. QED
            BY <1>4, <1>5, <6>1
        <5>2. <<>> \o ss[1] = ss[1]
          BY <1>1, <4>1
        <5>3. QED
          BY <4>1, <5>1, <5>2
      <4>2. CASE n # 1
        <5>1. n - 1 \in 1..N
          BY <1>1, <4>2
        <5>2. QED
          BY <1>5, <4>2, <5>1
      <4>3. QED
        BY <4>1, <4>2
    <3>2. QED
      BY <3>1
  <2>2. flatten = Body(flatten)
    <3> HIDE DEF Body
    <3>1. QED
      BY <2>1, Zenon
  <2>3. FlattenSeq(ss) = flatten[N]
    BY <1>7, Zenon DEF FlattenSeq, N
  <2> HIDE DEF flatten
  <2> DEFINE S == {n \in Nat : n \in 1..N => flatten[n] = f[n]}
  <2>4. 0 \in S
    OBVIOUS
  <2>5. ASSUME NEW n \in Nat, n \in S PROVE n + 1 \in S
    <3> SUFFICES ASSUME n + 1 \in 1..N PROVE flatten[n + 1] = f[n + 1]
      OBVIOUS
    <3>1. CASE n = 0
      <4>1. f[1] = ss[1] /\ 1 \in 1..N
        <5>1. 1 \in 1..N /\ 1 - 1 = 0
          BY <3>1
        <5>2. f[1] = <<>> \o ss[1]
          BY <1>4, <1>5, <5>1
        <5>3. <<>> \o ss[1] = ss[1]
          BY <1>1, <5>1
        <5>4. QED
          BY <5>1, <5>2, <5>3
      <4>2. QED
        BY <2>2, <3>1, <4>1
    <3>2. CASE n # 0
      <4>1. n \in 1..N /\ n + 1 # 1 /\ (n + 1) - 1 = n
        BY <1>1, <3>2
      <4>2. flatten[n] = f[n]
        BY <2>5, <4>1
      <4>3. flatten[n + 1] = flatten[n] \o ss[n + 1]
        BY <2>2, <4>1
      <4>4. f[n + 1] = f[n] \o ss[n + 1]
        BY <1>5, <4>1
      <4>5. QED
        BY <4>2, <4>3, <4>4
    <3>3. QED
      BY <3>1, <3>2
  <2> HIDE DEF S
  <2>6. \A n \in Nat : n \in S
    BY <2>4, <2>5, SetInduction
  <2>7. flatten[N] = f[N]
    BY <1>1, <1>7, <2>6 DEF S
  <2>8. QED
    BY <1>4, <1>5, <2>3, <2>7 DEF N
<1>8. QED
  BY <1>6, <1>7

\* The elements of two sequences, one after the other.
LEMMA ConcatFacts ==
    ASSUME NEW T, NEW q \in Seq(T), NEW r \in Seq(T)
    PROVE  /\ q \o r \in Seq(T) /\ Len(q \o r) = Len(q) + Len(r)
           /\ \A p \in 1..Len(q) : (q \o r)[p] = q[p]
           /\ \A k \in 1..Len(r) : (q \o r)[Len(q) + k] = r[k]
OBVIOUS

\* How far the first n sequences of ss reach in what is flat, their sequence.
Offsets(ss, flat) ==
    {at \in [0..Len(ss) -> Nat] :
        /\ at[0] = 0 /\ at[Len(ss)] = Len(flat)
        /\ \A n \in 1..Len(ss) : at[n] = at[n - 1] + Len(ss[n])
        /\ \A m, n \in 0..Len(ss) : m <= n => at[m] <= at[n]
        /\ \A n \in 1..Len(ss) : \A k \in 1..Len(ss[n]) : flat[at[n - 1] + k] = ss[n][k]
        /\ \A p \in 1..Len(flat) : \E n \in 1..Len(ss) : p - at[n - 1] \in 1..Len(ss[n])}

\* What is flattened has the elements of the sequences, one sequence after
\* another.
LEMMA FlattenFacts ==
    ASSUME NEW T, NEW ss \in Seq(Seq(T))
    PROVE  FlattenSeq(ss) \in Seq(T) /\ Offsets(ss, FlattenSeq(ss)) # {}
<1> DEFINE N == Len(ss)
<1>1. N \in Nat /\ \A n \in 1..N : ss[n] \in Seq(T) /\ Len(ss[n]) \in Nat
  OBVIOUS
<1>2. PICK f \in [0..N -> Seq(T)] :
          /\ f[0] = <<>> /\ FlattenSeq(ss) = f[N]
          /\ \A n \in 1..N : f[n] = f[n - 1] \o ss[n]
  BY FlattenRecursion
<1> HIDE DEF N
<1> DEFINE at == [n \in 0..N |-> Len(f[n])]
<1>3. /\ \A n \in 0..N : at[n] \in Nat /\ at[n] = Len(f[n]) /\ f[n] \in Seq(T)
      /\ at \in [0..N -> Nat] /\ at[0] = 0
  <2>1. \A n \in 0..N : f[n] \in Seq(T)
    BY <1>2
  <2>2. \A n \in 0..N : Len(f[n]) \in Nat
    BY <2>1
  <2>3. Len(f[0]) = 0 /\ 0 \in 0..N
    BY <1>1, <1>2
  <2>4. QED
    BY <2>1, <2>2, <2>3
<1> HIDE DEF at
<1>4. ASSUME NEW n \in Nat, n + 1 <= N
      PROVE  /\ n \in 0..N /\ n + 1 \in 0..N /\ n + 1 \in 1..N
             /\ at[n + 1] = at[n] + Len(ss[n + 1])
             /\ \A p \in 1..at[n] : f[n + 1][p] = f[n][p]
             /\ \A k \in 1..Len(ss[n + 1]) : f[n + 1][at[n] + k] = ss[n + 1][k]
  <2>1. n \in 0..N /\ n + 1 \in 0..N /\ n + 1 \in 1..N /\ (n + 1) - 1 = n
    BY <1>1, <1>4
  <2>2. f[n + 1] = f[n] \o ss[n + 1]
    BY <1>2, <2>1
  <2>3. f[n] \in Seq(T) /\ ss[n + 1] \in Seq(T) /\ at[n] = Len(f[n]) /\ at[n + 1] = Len(f[n + 1])
    BY <1>1, <1>3, <2>1
  <2>4. /\ Len(f[n] \o ss[n + 1]) = Len(f[n]) + Len(ss[n + 1])
        /\ \A p \in 1..Len(f[n]) : (f[n] \o ss[n + 1])[p] = f[n][p]
        /\ \A k \in 1..Len(ss[n + 1]) : (f[n] \o ss[n + 1])[Len(f[n]) + k] = ss[n + 1][k]
    <3>1. PICK q \in Seq(T) : q = f[n]
      BY <2>3
    <3>2. PICK r \in Seq(T) : r = ss[n + 1]
      BY <2>3
    <3>3. /\ Len(q \o r) = Len(q) + Len(r)
          /\ \A p \in 1..Len(q) : (q \o r)[p] = q[p]
          /\ \A k \in 1..Len(r) : (q \o r)[Len(q) + k] = r[k]
      BY ConcatFacts
    <3>4. QED
      BY <3>1, <3>2, <3>3, Zenon
  <2>5. QED
    BY <2>1, <2>2, <2>3, <2>4
<1> DEFINE Good(n) ==
              /\ \A m \in 0..n : at[m] <= at[n]
              /\ \A m \in 1..n : \A k \in 1..Len(ss[m]) : f[n][at[m - 1] + k] = ss[m][k]
              /\ \A p \in 1..at[n] : \E m \in 1..n : p - at[m - 1] \in 1..Len(ss[m])
           S == {n \in Nat : n > N \/ Good(n)}
<1>5. Good(0)
  <2>1. 0..0 = {0} /\ 1..0 = {} /\ at[0] = 0 /\ 1..at[0] = {}
    BY <1>3
  <2>2. QED
    BY <2>1
<1>6. ASSUME NEW n \in Nat, n + 1 <= N, Good(n) PROVE Good(n + 1)
  <2>1. /\ n \in 0..N /\ n + 1 \in 1..N /\ at[n] \in Nat /\ at[n + 1] \in Nat
        /\ Len(ss[n + 1]) \in Nat /\ at[n + 1] = at[n] + Len(ss[n + 1])
    BY <1>1, <1>3, <1>4, <1>6
  <2>2. ASSUME NEW m \in 0..(n + 1) PROVE at[m] <= at[n + 1]
    <3>1. CASE m = n + 1
      BY <2>1, <3>1
    <3>2. CASE m # n + 1
      <4>1. m \in 0..n /\ m \in 0..N
        BY <1>1, <2>1, <3>2
      <4>2. at[m] <= at[n] /\ at[m] \in Nat
        BY <1>3, <1>6, <4>1
      <4>3. QED
        BY <2>1, <4>2
    <3>3. QED
      BY <3>1, <3>2
  <2>3. ASSUME NEW m \in 1..(n + 1), NEW k \in 1..Len(ss[m]) PROVE f[n + 1][at[m - 1] + k] = ss[m][k]
    <3>1. CASE m = n + 1
      <4>1. m - 1 = n
        BY <3>1
      <4>2. QED
        BY <1>4, <1>6, <3>1, <4>1
    <3>2. CASE m # n + 1
      <4>1. m \in 1..n /\ m \in 0..n /\ m - 1 \in Nat /\ (m - 1) + 1 = m /\ m <= N
        BY <1>1, <2>1, <3>2
      <4>2. at[m] = at[m - 1] + Len(ss[m]) /\ at[m - 1] \in Nat /\ Len(ss[m]) \in Nat
        BY <1>1, <1>3, <1>4, <4>1
      <4>3. at[m] <= at[n] /\ f[n][at[m - 1] + k] = ss[m][k]
        BY <1>6, <4>1
      <4>4. at[m - 1] + k \in 1..at[n]
        <5>1. at[m - 1] + Len(ss[m]) <= at[n]
          BY <4>2, <4>3
        <5>2. k \in Nat /\ 1 <= k /\ k <= Len(ss[m])
          BY <4>2
        <5>3. \A a, l, b \in Nat : a + l <= b /\ k <= l => a + k \in 1..b
          BY <5>2
        <5>4. QED
          BY <2>1, <4>2, <5>1, <5>2, <5>3
      <4>5. QED
        BY <1>4, <1>6, <4>3, <4>4
    <3>3. QED
      BY <3>1, <3>2
  <2>4. ASSUME NEW p \in 1..at[n + 1] PROVE \E m \in 1..(n + 1) : p - at[m - 1] \in 1..Len(ss[m])
    <3>1. CASE p \in 1..at[n]
      <4>1. PICK m \in 1..n : p - at[m - 1] \in 1..Len(ss[m])
        BY <1>6, <3>1
      <4>2. QED
        BY <4>1
    <3>2. CASE p \notin 1..at[n]
      <4>1. p - at[n] \in 1..Len(ss[n + 1]) /\ (n + 1) - 1 = n /\ n + 1 \in 1..(n + 1)
        BY <2>1, <3>2
      <4>2. QED
        BY <4>1
    <3>3. QED
      BY <3>1, <3>2
  <2>5. QED
    BY <2>2, <2>3, <2>4
<1> HIDE DEF Good
<1>7. \A n \in Nat : n \in S
  <2>1. 0 \in S
    BY <1>5
  <2>2. ASSUME NEW n \in Nat, n \in S PROVE n + 1 \in S
    BY <1>1, <1>6, <2>2
  <2> HIDE DEF S
  <2>3. QED
    BY <2>1, <2>2, SetInduction
<1>8. \A n \in 0..N : Good(n)
  BY <1>1, <1>7
<1>9. /\ Good(N) /\ at[N] = Len(FlattenSeq(ss)) /\ N \in 0..N
      /\ FlattenSeq(ss) = f[N] /\ FlattenSeq(ss) \in Seq(T)
  BY <1>1, <1>2, <1>3, <1>8
<1>10. \A m, n \in 0..N : m <= n => at[m] <= at[n]
  <2> TAKE m, n \in 0..N
  <2>1. m <= n => m \in 0..n
    BY <1>1
  <2>2. QED
    BY <1>8, <2>1 DEF Good
<1>11. ASSUME NEW n \in 1..N PROVE at[n] = at[n - 1] + Len(ss[n])
  <2>1. n - 1 \in Nat /\ (n - 1) + 1 = n /\ n <= N
    BY <1>1
  <2>2. QED
    BY <1>4, <2>1
<1>12. at \in Offsets(ss, FlattenSeq(ss))
  <2>1. /\ \A n \in 1..N : \A k \in 1..Len(ss[n]) : FlattenSeq(ss)[at[n - 1] + k] = ss[n][k]
        /\ \A p \in 1..Len(FlattenSeq(ss)) : \E n \in 1..N : p - at[n - 1] \in 1..Len(ss[n])
    BY <1>9 DEF Good
  <2>2. QED
    BY <1>3, <1>9, <1>10, <1>11, <2>1 DEF Offsets, N
<1>13. QED
  BY <1>9, <1>12

-----------------------------------------------------------------------------
(* The events *)

Event == [id : Nat, expires : Nat]

InOrder(store) == \A i, j \in DOMAIN store : i < j => store[i].id < store[j].id

\* What is stored is as it was added, behind what was handed out; an event that
\* is in neither is too old, or as many as the store holds were added since.
Stored(store, handed, ads, now) ==
    /\ store \in Seq(Event) /\ handed \in Seq(Nat) /\ ads \in Seq(Nat)
    /\ Len(store) <= MaxEvents /\ InOrder(store)
    /\ \A i \in DOMAIN store : /\ store[i].id \in DOMAIN ads
                               /\ store[i].expires = ads[store[i].id] + TTL
    /\ \A i \in DOMAIN handed : handed[i] \in DOMAIN ads
    /\ \A i, j \in DOMAIN handed : i < j => handed[i] < handed[j]
    /\ \A i \in DOMAIN handed, j \in DOMAIN store : handed[i] < store[j].id
    /\ \A n \in DOMAIN ads :
          \/ \E i \in DOMAIN handed : handed[i] = n
          \/ \E i \in DOMAIN store : store[i].id = n
          \/ now > ads[n] + TTL
          \/ Len(ads) - n >= MaxEvents

\* An event that is to be added was taken for one in the past.
EventInv ==
    /\ Stored(events, drained, added, clock)
    /\ \A r \in Requests : req[r].pc = "event" => req[r].at <= clock

LEMMA StoreTyped ==
    ASSUME NEW store \in Seq(Event)
    PROVE  /\ Len(store) \in Nat /\ DOMAIN store = 1..Len(store)
           /\ \A i \in DOMAIN store : store[i].id \in Nat /\ store[i].expires \in Nat
<1>1. \A i \in 1..Len(store) : store[i] \in Event
  OBVIOUS
<1>2. \A e \in Event : e.id \in Nat /\ e.expires \in Nat
  BY DEF Event
<1>3. QED
  BY <1>1, <1>2

LEMMA Bounds == MaxEvents \in Nat /\ MaxEvents >= 1 /\ TTL \in Nat
<1>1. MaxEvents \in Nat \ {0} /\ TTL \in Nat \ {0}
  BY WAFAssumption
<1>2. QED
  BY <1>1

\* Numbers that are in order are as far apart as their places, or further.
LEMMA Spread ==
    ASSUME NEW store \in Seq(Event), InOrder(store), NEW i \in DOMAIN store, NEW n \in Nat,
           i + n \in DOMAIN store
    PROVE  store[i].id + n <= store[i + n].id
<1> DEFINE S == {k \in Nat : i + k \in DOMAIN store => store[i].id + k <= store[i + k].id}
<1>1. \A k \in DOMAIN store : store[k].id \in Nat
  BY StoreTyped
<1>2. DOMAIN store = 1..Len(store) /\ Len(store) \in Nat /\ i \in Nat
  OBVIOUS
<1>3. 0 \in S
  BY <1>1, <1>2
<1>4. ASSUME NEW k \in Nat, k \in S PROVE k + 1 \in S
  <2> SUFFICES ASSUME i + (k + 1) \in DOMAIN store PROVE store[i].id + (k + 1) <= store[i + (k + 1)].id
    OBVIOUS
  <2>1. i + k \in DOMAIN store /\ i + k < i + (k + 1)
    BY <1>2
  <2>2. store[i].id + k <= store[i + k].id
    BY <1>4, <2>1
  <2>3. store[i + k].id < store[i + (k + 1)].id
    BY <2>1 DEF InOrder
  <2> DEFINE a == store[i].id
             b == store[i + k].id
             c == store[i + (k + 1)].id
  <2>4. a \in Nat /\ b \in Nat /\ c \in Nat /\ a + k <= b /\ b < c
    BY <1>1, <2>1, <2>2, <2>3
  <2> HIDE DEF a, b, c
  <2>5. a + (k + 1) <= c
    BY <2>4
  <2>6. QED
    BY <2>5 DEF a, c
<1> HIDE DEF S
<1>5. \A k \in Nat : k \in S
  BY <1>3, <1>4, SetInduction
<1>6. QED
  BY <1>5 DEF S

\* What Unexpired leaves.
LEMMA UnexpiredFacts ==
    ASSUME NEW store \in Seq(Event), InOrder(store), NEW now \in Nat, NEW u, u = Unexpired(store, now)
    PROVE  /\ u \in Seq(Event) /\ Len(u) <= Len(store) /\ InOrder(u)
           /\ \A i \in DOMAIN u : \E n \in DOMAIN store : u[i] = store[n]
           /\ \A n \in DOMAIN store : now <= store[n].expires => \E i \in DOMAIN u : u[i] = store[n]
<1> DEFINE keep == {i \in DOMAIN store : now <= store[i].expires}
<1>1. u = Kept(store, keep)
  BY DEF Unexpired
<1>2. keep \subseteq 1..Len(store) /\ DOMAIN store = 1..Len(store)
  OBVIOUS
<1>3. \A n \in DOMAIN store : now <= store[n].expires => n \in keep
  OBVIOUS
<1> HIDE DEF keep
<1>4. u \in Seq(Event) /\ Len(u) <= Len(store) /\ Places(u, store, Len(store), keep) # {}
  BY <1>1, KeptFacts
<1>5. PICK place \in Places(u, store, Len(store), keep) : TRUE
  BY <1>4
<1>6. /\ \A i \in DOMAIN u : place[i] \in DOMAIN store /\ u[i] = store[place[i]]
      /\ \A i, j \in DOMAIN u : i < j => place[i] < place[j]
      /\ \A m \in keep : \E i \in DOMAIN u : place[i] = m
  BY <1>2, <1>5 DEF Places
<1>7. InOrder(u)
  BY <1>6 DEF InOrder
<1>8. \A n \in DOMAIN store : now <= store[n].expires => \E i \in DOMAIN u : u[i] = store[n]
  <2> SUFFICES ASSUME NEW n \in DOMAIN store, now <= store[n].expires PROVE \E i \in DOMAIN u : u[i] = store[n]
    OBVIOUS
  <2>1. PICK i \in DOMAIN u : place[i] = n
    BY <1>3, <1>6
  <2>2. QED
    BY <1>6, <2>1
<1>9. QED
  BY <1>4, <1>6, <1>7, <1>8

\* What Newest leaves.
LEMMA NewestFacts ==
    ASSUME NEW store \in Seq(Event), InOrder(store), NEW u, u = Newest(store, MaxEvents)
    PROVE  /\ u \in Seq(Event) /\ Len(u) <= MaxEvents /\ InOrder(u)
           /\ \A i \in DOMAIN u : \E n \in DOMAIN store : u[i] = store[n]
           /\ \A n \in DOMAIN store : n + MaxEvents > Len(store) => \E i \in DOMAIN u : u[i] = store[n]
<1> DEFINE L == Len(store)  M == MaxEvents
<1>1. L \in Nat /\ DOMAIN store = 1..L /\ M \in Nat
  BY Bounds
<1>2. CASE L <= M
  BY <1>1, <1>2 DEF Newest
<1>3. CASE L > M
  <2> HIDE DEF L, M
  <2>1. u = SubSeq(store, L - M + 1, L)
    BY <1>1, <1>3 DEF Newest, L, M
  <2>2. /\ u \in Seq(Event) /\ Len(u) = M /\ DOMAIN u = 1..M
        /\ \A i \in 1..M : u[i] = store[(L - M) + i]
    BY <1>1, <1>3, <2>1 DEF L
  <2>3. \A i \in 1..M : (L - M) + i \in 1..L
    BY <1>1, <1>3
  <2>4. InOrder(u)
    <3>1. \A i, j \in 1..M : i < j => (L - M) + i < (L - M) + j
      BY <1>1, <1>3
    <3>2. \A i, j \in 1..L : i < j => store[i].id < store[j].id
      BY <1>1 DEF InOrder
    <3>3. \A i, j \in 1..M : i < j => store[(L - M) + i].id < store[(L - M) + j].id
      BY <2>3, <3>1, <3>2
    <3>4. QED
      BY <2>2, <3>3 DEF InOrder
  <2>5. ASSUME NEW n \in 1..L, n + M > L PROVE \E i \in 1..M : u[i] = store[n]
    <3>1. n - (L - M) \in 1..M /\ (L - M) + (n - (L - M)) = n
      BY <1>1, <1>3, <2>5
    <3>2. QED
      BY <2>2, <3>1
  <2>6. M <= M
    BY <1>1
  <2>7. \A i \in 1..M : \E n \in 1..L : u[i] = store[n]
    BY <2>2, <2>3
  <2>8. QED
    BY <1>1, <2>2, <2>4, <2>5, <2>6, <2>7 DEF L, M
<1>4. QED
  BY <1>1, <1>2, <1>3

\* What expired may go: it is too old.
LEMMA StoredUnexpired ==
    ASSUME NEW store, NEW handed, NEW ads, NEW now \in Nat, Stored(store, handed, ads, now),
           NEW t \in Nat, t <= now
    PROVE  Stored(Unexpired(store, t), handed, ads, now)
<1> DEFINE u == Unexpired(store, t)
<1>1. store \in Seq(Event) /\ InOrder(store) /\ Len(store) <= MaxEvents /\ ads \in Seq(Nat)
  BY DEF Stored
<1>2. /\ u \in Seq(Event) /\ Len(u) <= Len(store) /\ InOrder(u)
      /\ \A i \in DOMAIN u : \E n \in DOMAIN store : u[i] = store[n]
      /\ \A n \in DOMAIN store : t <= store[n].expires => \E i \in DOMAIN u : u[i] = store[n]
  <2> HIDE DEF u
  <2>1. u = Unexpired(store, t)
    BY DEF u
  <2>2. QED
    BY <1>1, <2>1, UnexpiredFacts
<1> HIDE DEF u
<1>3. Len(u) <= MaxEvents
  BY <1>1, <1>2, StoreTyped, Bounds
<1>4. \A i \in DOMAIN u : /\ u[i].id \in DOMAIN ads
                          /\ u[i].expires = ads[u[i].id] + TTL
  BY <1>2 DEF Stored
<1>5. \A i \in DOMAIN handed, j \in DOMAIN u : handed[i] < u[j].id
  BY <1>2 DEF Stored
<1>6. ASSUME NEW n \in DOMAIN ads
      PROVE  \/ \E i \in DOMAIN handed : handed[i] = n
             \/ \E i \in DOMAIN u : u[i].id = n
             \/ now > ads[n] + TTL
             \/ Len(ads) - n >= MaxEvents
  <2>1. CASE \E i \in DOMAIN store : store[i].id = n
    <3>1. PICK i \in DOMAIN store : store[i].id = n
      BY <2>1
    <3>2. store[i].expires = ads[n] + TTL /\ ads[n] \in Nat
      BY <1>1, <3>1 DEF Stored
    <3>3. CASE t <= store[i].expires
      BY <1>2, <3>1, <3>3
    <3>4. CASE ~(t <= store[i].expires)
      BY <3>2, <3>4, Bounds
    <3>5. QED
      BY <3>3, <3>4
  <2>2. CASE ~ \E i \in DOMAIN store : store[i].id = n
    BY <2>2 DEF Stored
  <2>3. QED
    BY <2>1, <2>2
<1>7. QED
  BY <1>2, <1>3, <1>4, <1>5, <1>6 DEF Stored, u

\* The event that is added, and those for which there is no room any more.
LEMMA StoredAdded ==
    ASSUME NEW store, NEW handed, NEW ads, NEW now \in Nat, Stored(store, handed, ads, now),
           NEW t \in Nat,
           NEW new, new = [id |-> Len(ads) + 1, expires |-> t + TTL]
    PROVE  Stored(Newest(Append(store, new), MaxEvents), handed, Append(ads, t), now)
<1> DEFINE more == Append(store, new)
           u == Newest(more, MaxEvents)
           L == Len(store)
           A == Len(ads)
           grown == Append(ads, t)
<1>1. /\ store \in Seq(Event) /\ InOrder(store) /\ ads \in Seq(Nat)
      /\ \A i \in DOMAIN store : store[i].id \in DOMAIN ads /\ store[i].expires = ads[store[i].id] + TTL
  BY DEF Stored
<1>2. /\ L \in Nat /\ DOMAIN store = 1..L /\ A \in Nat /\ DOMAIN ads = 1..A
      /\ \A i \in 1..L : store[i].id \in Nat
  BY <1>1, StoreTyped
<1>3. new \in Event /\ new.id = A + 1 /\ new.expires = t + TTL
  BY <1>2, Bounds DEF Event
<1>4. /\ more \in Seq(Event) /\ Len(more) = L + 1 /\ DOMAIN more = 1..(L + 1)
      /\ more[L + 1] = new /\ \A i \in 1..L : more[i] = store[i]
  BY <1>1, <1>2, <1>3
<1>5. /\ grown \in Seq(Nat) /\ Len(grown) = A + 1 /\ DOMAIN grown = 1..(A + 1)
      /\ grown[A + 1] = t /\ \A n \in 1..A : grown[n] = ads[n]
  BY <1>1, <1>2
<1> HIDE DEF more, u, L, A, grown
<1>6. InOrder(more)
  <2> SUFFICES ASSUME NEW i \in 1..(L + 1), NEW j \in 1..(L + 1), i < j
               PROVE  more[i].id < more[j].id
    BY <1>4 DEF InOrder
  <2>1. i \in 1..L
    BY <1>2
  <2>2. CASE j = L + 1
    <3>1. store[i].id \in 1..A
      BY <1>1, <1>2, <2>1
    <3>2. QED
      BY <1>2, <1>3, <1>4, <2>1, <2>2, <3>1
  <2>3. CASE j # L + 1
    <3>1. j \in 1..L
      BY <1>2, <2>3
    <3>2. QED
      BY <1>1, <1>2, <1>4, <2>1, <3>1 DEF InOrder
  <2>4. QED
    BY <2>2, <2>3
<1>7. /\ u \in Seq(Event) /\ Len(u) <= MaxEvents /\ InOrder(u)
      /\ \A i \in DOMAIN u : \E n \in 1..(L + 1) : u[i] = more[n]
      /\ \A n \in 1..(L + 1) : n + MaxEvents > L + 1 => \E i \in DOMAIN u : u[i] = more[n]
  BY <1>4, <1>6, NewestFacts DEF u
<1>8. \A n \in 1..(L + 1) : more[n].id \in 1..(A + 1) /\ more[n].expires = grown[more[n].id] + TTL
  <2> TAKE n \in 1..(L + 1)
  <2>1. CASE n = L + 1
    BY <1>2, <1>3, <1>4, <1>5, <2>1
  <2>2. CASE n # L + 1
    <3>1. n \in 1..L
      BY <1>2, <2>2
    <3>2. store[n].id \in 1..A /\ store[n].expires = ads[store[n].id] + TTL
      BY <1>1, <1>2, <3>1
    <3>3. store[n].id \in 1..(A + 1)
      BY <1>2, <3>2
    <3>4. QED
      BY <1>4, <1>5, <3>1, <3>2, <3>3
  <2>3. QED
    BY <2>1, <2>2
<1>9. \A i \in DOMAIN u : u[i].id \in DOMAIN grown /\ u[i].expires = grown[u[i].id] + TTL
  <2> TAKE i \in DOMAIN u
  <2>1. PICK n \in 1..(L + 1) : u[i] = more[n]
    BY <1>7
  <2>2. more[n].id \in 1..(A + 1) /\ more[n].expires = grown[more[n].id] + TTL
    BY <1>8
  <2>3. QED
    BY <1>5, <2>1, <2>2
<1>10. ASSUME NEW i \in DOMAIN handed PROVE handed[i] \in DOMAIN grown /\ \A j \in DOMAIN u : handed[i] < u[j].id
  <2>1. handed[i] \in 1..A
    BY <1>2 DEF Stored
  <2>2. handed[i] < A + 1 /\ handed[i] \in 1..(A + 1)
    BY <1>2, <2>1
  <2>3. \A n \in 1..(L + 1) : handed[i] < more[n].id
    <3> TAKE n \in 1..(L + 1)
    <3>1. CASE n = L + 1
      BY <1>3, <1>4, <2>2, <3>1
    <3>2. CASE n # L + 1
      <4>1. n \in 1..L
        BY <1>2, <3>2
      <4>2. QED
        BY <1>2, <1>4, <4>1 DEF Stored
    <3>3. QED
      BY <3>1, <3>2
  <2>4. QED
    BY <1>5, <1>7, <2>2, <2>3
<1>11. ASSUME NEW n \in 1..(A + 1)
       PROVE  \/ \E i \in DOMAIN handed : handed[i] = n
              \/ \E i \in DOMAIN u : u[i].id = n
              \/ now > grown[n] + TTL
              \/ (A + 1) - n >= MaxEvents
  <2>1. ASSUME NEW k \in 1..(L + 1), more[k].id = n
        PROVE  (\E i \in DOMAIN u : u[i].id = n) \/ (A + 1) - n >= MaxEvents
    <3>1. CASE k + MaxEvents > L + 1
      <4>1. PICK i \in DOMAIN u : u[i] = more[k]
        BY <1>7, <3>1
      <4>2. QED
        BY <2>1, <4>1
    <3>2. CASE ~(k + MaxEvents > L + 1)
      <4>1. k + MaxEvents \in 1..(L + 1) /\ (L + 1) - k \in Nat /\ k + ((L + 1) - k) = L + 1
            /\ (L + 1) - k >= MaxEvents /\ L + 1 \in 1..(L + 1)
        BY <1>2, <3>2, Bounds
      <4>2. more[k].id + ((L + 1) - k) <= more[L + 1].id
        <5>1. k \in DOMAIN more /\ k + ((L + 1) - k) \in DOMAIN more
          BY <1>4, <4>1
        <5>2. more[k].id + ((L + 1) - k) <= more[k + ((L + 1) - k)].id
          BY <1>4, <1>6, <4>1, <5>1, Spread
        <5>3. QED
          BY <4>1, <5>2
      <4>3. n + ((L + 1) - k) <= A + 1
        BY <1>3, <1>4, <2>1, <4>2
      <4>4. QED
        BY <1>2, <4>1, <4>3, Bounds
    <3>3. QED
      BY <3>1, <3>2
  <2>2. CASE n = A + 1
    <3>1. L + 1 \in 1..(L + 1) /\ more[L + 1].id = n
      BY <1>2, <1>3, <1>4, <2>2
    <3>2. QED
      BY <2>1, <3>1
  <2>3. CASE n # A + 1
    <3>1. n \in 1..A /\ grown[n] = ads[n]
      BY <1>2, <1>5, <2>3
    <3>2. CASE \E i \in DOMAIN store : store[i].id = n
      <4>1. PICK i \in 1..L : store[i].id = n
        BY <1>2, <3>2
      <4>2. i \in 1..(L + 1) /\ more[i].id = n
        BY <1>2, <1>4, <4>1
      <4>3. QED
        BY <2>1, <4>2
    <3>3. CASE ~ \E i \in DOMAIN store : store[i].id = n
      <4>1. \/ \E i \in DOMAIN handed : handed[i] = n
            \/ now > ads[n] + TTL
            \/ A - n >= MaxEvents
        BY <1>2, <3>1, <3>3 DEF Stored, A
      <4>2. A - n >= MaxEvents => (A + 1) - n >= MaxEvents
        BY <1>2, <3>1, Bounds
      <4>3. QED
        BY <3>1, <4>1, <4>2
    <3>4. QED
      BY <3>2, <3>3
  <2>4. QED
    BY <2>2, <2>3
<1>12. handed \in Seq(Nat) /\ \A i, j \in DOMAIN handed : i < j => handed[i] < handed[j]
  BY DEF Stored
<1>13. Stored(u, handed, grown, now)
  BY <1>5, <1>7, <1>9, <1>10, <1>11, <1>12 DEF Stored
<1>14. QED
  BY <1>13 DEF u, more, grown

\* What was not added cannot have been lost.
LEMMA StoredNothing == \A now \in Nat : Stored(<<>>, <<>>, <<>>, now)
<1>1. Len(<<>>) <= MaxEvents
  BY Bounds
<1>2. QED
  BY <1>1 DEF Stored, InOrder

\* Nothing becomes younger.
LEMMA StoredLater ==
    ASSUME NEW store, NEW handed, NEW ads, NEW now \in Nat, Stored(store, handed, ads, now)
    PROVE  Stored(store, handed, ads, now + 1)
<1>1. ads \in Seq(Nat)
  BY DEF Stored
<1>2. \A n \in DOMAIN ads : now > ads[n] + TTL => now + 1 > ads[n] + TTL
  <2> TAKE n \in DOMAIN ads
  <2>1. ads[n] \in Nat
    BY <1>1
  <2>2. QED
    BY <2>1, Bounds
<1>3. QED
  BY <1>2 DEF Stored

\* What is behind the first m events, and the numbers of those.
LEMMA TailFacts ==
    ASSUME NEW store \in Seq(Event), NEW m \in Nat, m <= Len(store)
    PROVE  LET rest == SubSeq(store, m + 1, Len(store))
               first == [i \in 1..m |-> store[i].id]
           IN  /\ rest \in Seq(Event) /\ Len(rest) = Len(store) - m
               /\ \A i \in 1..(Len(store) - m) : rest[i] = store[i + m]
               /\ first \in Seq(Nat) /\ Len(first) = m /\ \A i \in 1..m : first[i] = store[i].id
<1> DEFINE L == Len(store)
           rest == SubSeq(store, m + 1, L)
           first == [i \in 1..m |-> store[i].id]
<1>1. L \in Nat /\ L - m \in Nat /\ (L - (m + 1)) + 1 = L - m
  OBVIOUS
<1>2. rest \in Seq(Event)
  <2>1. \A i \in (m + 1)..L : i \in 1..L
    BY <1>1
  <2>2. \A i \in (m + 1)..L : store[i] \in Event
    BY <2>1
  <2>3. QED
    BY <1>1, <2>2
<1>3. Len(rest) = L - m /\ \A i \in 1..(L - m) : rest[i] = store[i + m]
  <2>1. L \in Nat /\ m <= L
    BY <1>1
  <2> HIDE DEF L
  <2>2. (m + 1) + (L - m) = L + 1 /\ \A i \in 1..(L - m) : (m + 1) + i - 1 = i + m
    BY <2>1
  <2>3. Len(rest) = L - m
    BY <2>1, <2>2
  <2>4. \A i \in 1..(L - m) : rest[i] = store[(m + 1) + i - 1]
    BY <2>1, <2>3
  <2>5. QED
    BY <2>2, <2>3, <2>4
<1>5. \A i \in 1..m : store[i].id \in Nat /\ first[i] = store[i].id
  BY <1>1, StoreTyped
<1>6. first \in Seq(Nat) /\ Len(first) = m
  BY <1>5
<1>7. QED
  BY <1>2, <1>3, <1>5, <1>6

\* The oldest are handed out.
LEMMA StoredDrained ==
    ASSUME NEW store, NEW handed, NEW ads, NEW now \in Nat, Stored(store, handed, ads, now),
           NEW m \in 0..Len(store)
    PROVE  Stored(SubSeq(store, m + 1, Len(store)), handed \o [i \in 1..m |-> store[i].id], ads, now)
<1> DEFINE L == Len(store)
           H == Len(handed)
           rest == SubSeq(store, m + 1, L)
           first == [i \in 1..m |-> store[i].id]
           all == handed \o first
<1>1. /\ store \in Seq(Event) /\ handed \in Seq(Nat) /\ ads \in Seq(Nat)
      /\ L \in Nat /\ DOMAIN store = 1..L /\ H \in Nat /\ DOMAIN handed = 1..H /\ L <= MaxEvents
      /\ m \in Nat /\ m <= L
      /\ \A i \in 1..L : store[i].id \in Nat
  <2>1. store \in Seq(Event) /\ handed \in Seq(Nat) /\ ads \in Seq(Nat) /\ L <= MaxEvents
    BY DEF Stored
  <2>2. QED
    BY <2>1, StoreTyped
<1>2. /\ \A i, j \in 1..L : i < j => store[i].id < store[j].id
      /\ \A i \in 1..L : store[i].id \in DOMAIN ads /\ store[i].expires = ads[store[i].id] + TTL
      /\ \A i \in 1..H : handed[i] \in DOMAIN ads
      /\ \A i, j \in 1..H : i < j => handed[i] < handed[j]
      /\ \A i \in 1..H, j \in 1..L : handed[i] < store[j].id
      /\ \A n \in DOMAIN ads :
            \/ \E i \in 1..H : handed[i] = n
            \/ \E i \in 1..L : store[i].id = n
            \/ now > ads[n] + TTL
            \/ Len(ads) - n >= MaxEvents
  BY <1>1 DEF Stored, InOrder
<1> HIDE DEF L, H
<1> HIDE DEF rest, first
<1>3. /\ rest \in Seq(Event) /\ Len(rest) = L - m /\ DOMAIN rest = 1..(L - m)
      /\ \A i \in 1..(L - m) : i + m \in 1..L /\ rest[i] = store[i + m]
  <2>1. /\ rest \in Seq(Event) /\ Len(rest) = L - m
        /\ \A i \in 1..(L - m) : rest[i] = store[i + m]
    BY <1>1, TailFacts DEF rest, L
  <2>2. DOMAIN rest = 1..(L - m)
    BY <2>1
  <2>3. \A i \in 1..(L - m) : i + m \in 1..L
    BY <1>1
  <2>4. QED
    BY <2>1, <2>2, <2>3
<1>4. /\ first \in Seq(Nat) /\ Len(first) = m
      /\ \A i \in 1..m : i \in 1..L /\ first[i] = store[i].id
  <2>1. first \in Seq(Nat) /\ Len(first) = m /\ \A i \in 1..m : first[i] = store[i].id
    BY <1>1, TailFacts DEF first, L
  <2>2. QED
    BY <1>1, <2>1
<1>5. /\ all \in Seq(Nat) /\ Len(all) = H + m /\ DOMAIN all = 1..(H + m)
      /\ \A i \in 1..H : i \in 1..(H + m) /\ all[i] = handed[i]
      /\ \A i \in 1..m : i + H \in 1..(H + m) /\ all[i + H] = store[i].id
      /\ \A i \in 1..(H + m) : i \notin 1..H => i - H \in 1..m /\ (i - H) + H = i
  <2>1. /\ all \in Seq(Nat) /\ Len(all) = Len(handed) + Len(first)
        /\ \A i \in 1..Len(handed) : all[i] = handed[i]
        /\ \A i \in 1..Len(first) : all[Len(handed) + i] = first[i]
    <3>1. PICK h \in Seq(Nat) : h = handed
      BY <1>1
    <3>2. PICK f \in Seq(Nat) : f = first
      BY <1>4
    <3>3. /\ h \o f \in Seq(Nat) /\ Len(h \o f) = Len(h) + Len(f)
          /\ \A i \in 1..Len(h) : (h \o f)[i] = h[i]
          /\ \A i \in 1..Len(f) : (h \o f)[Len(h) + i] = f[i]
      BY ConcatFacts
    <3>4. QED
      BY <3>1, <3>2, <3>3, Zenon
  <2> HIDE DEF all
  <2>2. Len(all) = H + m /\ DOMAIN all = 1..(H + m) /\ \A i \in 1..H : all[i] = handed[i]
    BY <1>1, <1>4, <2>1 DEF H
  <2>3. \A i \in 1..m : i + H = H + i /\ i + H \in 1..(H + m)
    BY <1>1
  <2>4. \A i \in 1..m : all[i + H] = store[i].id
    BY <1>4, <2>1, <2>3 DEF H
  <2>5. /\ \A i \in 1..H : i \in 1..(H + m)
        /\ \A i \in 1..(H + m) : i \notin 1..H => i - H \in 1..m /\ (i - H) + H = i
    BY <1>1
  <2>6. QED
    BY <2>1, <2>2, <2>3, <2>4, <2>5
<1> HIDE DEF all
<1>6. InOrder(rest) /\ Len(rest) <= MaxEvents
  <2>1. \A i, j \in 1..(L - m) : i < j => i + m < j + m
    BY <1>1
  <2>2. Len(rest) <= MaxEvents
    BY <1>1, <1>3, Bounds
  <2>3. QED
    BY <1>2, <1>3, <2>1, <2>2 DEF InOrder
<1>7. \A i \in DOMAIN rest : rest[i].id \in DOMAIN ads /\ rest[i].expires = ads[rest[i].id] + TTL
  BY <1>2, <1>3
<1>8. ASSUME NEW i \in DOMAIN all PROVE all[i] \in DOMAIN ads
  <2>1. CASE i \in 1..H
    BY <1>2, <1>5, <2>1
  <2>2. CASE i \notin 1..H
    <3>1. i - H \in 1..m /\ all[i] = store[i - H].id /\ i - H \in 1..L
      BY <1>4, <1>5, <2>2
    <3>2. QED
      BY <1>2, <3>1
  <2>3. QED
    BY <2>1, <2>2
<1>9. ASSUME NEW i \in DOMAIN all, NEW j \in DOMAIN all, i < j PROVE all[i] < all[j]
  <2>1. CASE j \in 1..H
    <3>1. i \in 1..H
      BY <1>1, <1>5, <1>9, <2>1
    <3>2. QED
      BY <1>2, <1>5, <1>9, <2>1, <3>1
  <2>2. CASE i \in 1..H /\ j \notin 1..H
    <3>1. j - H \in 1..L /\ all[j] = store[j - H].id
      BY <1>4, <1>5, <2>2
    <3>2. QED
      BY <1>2, <1>5, <2>2, <3>1
  <2>3. CASE i \notin 1..H /\ j \notin 1..H
    <3>1. /\ i - H \in 1..L /\ all[i] = store[i - H].id
          /\ j - H \in 1..L /\ all[j] = store[j - H].id
      BY <1>4, <1>5, <2>3
    <3>2. i - H < j - H
      BY <1>1, <1>5, <1>9
    <3>3. QED
      BY <1>2, <3>1, <3>2
  <2>4. QED
    BY <2>1, <2>2, <2>3
<1>10. ASSUME NEW i \in DOMAIN all, NEW j \in DOMAIN rest PROVE all[i] < rest[j].id
  <2>1. j + m \in 1..L /\ rest[j] = store[j + m] /\ m < j + m
    BY <1>1, <1>3
  <2>2. CASE i \in 1..H
    BY <1>2, <1>5, <2>1, <2>2
  <2>3. CASE i \notin 1..H
    <3>1. i - H \in 1..m /\ all[i] = store[i - H].id /\ i - H \in 1..L
      BY <1>4, <1>5, <2>3
    <3>2. i - H < j + m
      BY <1>1, <1>3, <2>1, <3>1
    <3>3. QED
      BY <1>2, <2>1, <3>1, <3>2
  <2>4. QED
    BY <2>2, <2>3
<1>11. ASSUME NEW n \in DOMAIN ads
       PROVE  \/ \E i \in DOMAIN all : all[i] = n
              \/ \E i \in DOMAIN rest : rest[i].id = n
              \/ now > ads[n] + TTL
              \/ Len(ads) - n >= MaxEvents
  <2>1. CASE \E i \in 1..H : handed[i] = n
    BY <1>5, <2>1
  <2>2. CASE \E i \in 1..L : store[i].id = n
    <3>1. PICK i \in 1..L : store[i].id = n
      BY <2>2
    <3>2. CASE i \in 1..m
      BY <1>5, <3>1, <3>2
    <3>3. CASE i \notin 1..m
      <4>1. i - m \in 1..(L - m) /\ (i - m) + m = i
        BY <1>1, <3>3
      <4>2. QED
        BY <1>3, <3>1, <4>1
    <3>4. QED
      BY <3>2, <3>3
  <2>3. QED
    BY <1>2, <2>1, <2>2
<1>12. Stored(rest, all, ads, now)
  BY <1>1, <1>3, <1>5, <1>6, <1>7, <1>8, <1>9, <1>10, <1>11 DEF Stored
<1>13. QED
  BY <1>12 DEF rest, all, first, L

\* A call takes no event's time: no evaluation goes on, or is given another time.
LEMMA CallsTakeNoTime ==
    ASSUME Types, NEW a \in Admins, AdminStep(a), NEW r \in Requests
    PROVE  req'[r].pc = req[r].pc /\ req'[r].at = req[r].at
<1>1. req[r] \in Eval
  BY DEF Types
<1>2. ASSUME NEW name \in {"set", "reload"}, Begin(a, name) PROVE req'[r].pc = req[r].pc /\ req'[r].at = req[r].at
  <2>1. req'[r] = [req[r] EXCEPT !.torn = @ \/ Calling # {}]
    BY <1>2 DEF Begin
  <2>2. QED
    BY <1>1, <2>1 DEF Eval
<1>3. ASSUME NEW g, Enter(a, g) PROVE req'[r].pc = req[r].pc /\ req'[r].at = req[r].at
  <2>1. req'[r] = req[r] \/ req'[r] = [req[r] EXCEPT !.may = @ \union {g}]
    BY <1>3 DEF Enter
  <2>2. QED
    BY <1>1, <2>1 DEF Eval
<1>4. CASE SetConfig(a) \/ Reload(a)
  BY <1>2, <1>4 DEF SetConfig, Reload
<1>5. CASE ClearEngine(a) \/ InstallEngine(a) \/ StoreConfig(a)
  BY <1>3, <1>5 DEF ClearEngine, InstallEngine, StoreConfig
<1>6. CASE UNCHANGED req
  BY <1>6
<1>7. QED
  BY <1>4, <1>5, <1>6
     DEF AdminStep, LookForEngine, ScanRules, CompileRules, BuildFails, StoreExclusions, RereadConfig, SaveConfig

\* The event takes the time at which the engine answers.
LEMMA EngineTakesTime ==
    ASSUME Types, NEW r \in Requests, RunEngine(r), req'[r].pc = "event"
    PROVE  req'[r].at = clock
<1>1. req[r] \in Eval
  BY DEF Types
<1>2. CASE rt.current = NoEngine \/ ~Recorded(r, rt.current)
  <2>1. req'[r].pc = "done"
    BY <1>1, <1>2 DEF RunEngine, Return, Types, Eval
  <2>2. QED
    BY <2>1
<1>3. CASE ~(rt.current = NoEngine \/ ~Recorded(r, rt.current))
  <2> DEFINE blocked == Interrupts(r, rt.current) /\ req[r].mode # "detection"
             eval == [req[r] EXCEPT !.pc = "event", !.at = clock, !.blocked = blocked]
  <2>1. req' = [req EXCEPT ![r].pc = "event", ![r].at = clock, ![r].blocked = blocked]
    BY <1>3 DEF RunEngine
  <2> HIDE DEF blocked
  <2>2. req' = [req EXCEPT ![r] = eval]
    BY <2>1
  <2>3. eval.at = clock
    BY <1>1 DEF Eval
  <2> HIDE DEF eval
  <2>4. QED
    BY <2>2, <2>3 DEF Types
<1>4. QED
  BY <1>2, <1>3

\* The limits of Drain are integers.
LEMMA Asked == AskedLimits \subseteq Int
<1>1. Limits \subseteq Int /\ DrainDefault \in Int /\ DrainMax \in Int
  <2>1. Limits \subseteq Int /\ DrainDefault \in Nat \ {0} /\ DrainMax \in Nat \ {0}
    BY WAFAssumption
  <2>2. QED
    BY <2>1
<1>2. QED
  BY <1>1 DEF AskedLimits

\* Every step leaves the events where EventInv says.
LEMMA EventStep ==
    ASSUME Types, EventInv, [Next]_vars
    PROVE  EventInv'
<1> USE DEF EventInv
<1>1. clock \in Nat /\ \A r \in Requests : req[r].at \in Nat
  BY DEF Types, Eval
<1>2. ASSUME NEW a \in Admins, AdminStep(a) PROVE EventInv'
  <2>1. UNCHANGED <<events, drained, added, clock>>
    BY <1>2 DEF AdminStep, SetConfig, Reload, Begin, ClearEngine, LookForEngine, ScanRules, CompileRules,
                BuildFails, InstallEngine, StoreConfig, StoreExclusions, RereadConfig, SaveConfig
  <2>2. \A r \in Requests : req'[r].pc = req[r].pc /\ req'[r].at = req[r].at
    BY <1>2, CallsTakeNoTime
  <2>3. QED
    BY <2>1, <2>2
<1>3. ASSUME NEW r \in Requests, ReadConfig(r) PROVE EventInv'
  <2>1. UNCHANGED <<events, drained, added, clock>>
    BY <1>3 DEF ReadConfig
  <2>2. req'[r].pc # "event" /\ \A q \in Requests \ {r} : req'[q] = req[q]
    BY <1>3, EvalBegins
  <2>3. QED
    BY <2>1, <2>2
<1>4. ASSUME NEW r \in Requests, ReadExclusions(r) PROVE EventInv'
  <2>1. UNCHANGED <<events, drained, added, clock>>
    BY <1>4 DEF ReadExclusions
  <2>2. req'[r].pc # "event" /\ \A q \in Requests \ {r} : req'[q] = req[q]
    BY <1>4, EvalGoesOn
  <2>3. QED
    BY <2>1, <2>2
<1>5. ASSUME NEW r \in Requests, RunEngine(r) PROVE EventInv'
  <2>1. UNCHANGED <<events, drained, added, clock>>
    BY <1>5 DEF RunEngine
  <2>2. \A q \in Requests \ {r} : req'[q] = req[q]
    BY <1>5, EngineAnswers
  <2>3. req'[r].pc = "event" => req'[r].at = clock
    BY <1>5, EngineTakesTime
  <2>4. clock <= clock
    BY <1>1
  <2>5. QED
    BY <2>1, <2>2, <2>3, <2>4
<1>6. ASSUME NEW r \in Requests, AddEvent(r) PROVE EventInv'
  <2>1. UNCHANGED <<drained, clock>> /\ req[r].pc = "event"
    BY <1>6 DEF AddEvent
  <2>2. req'[r].pc # "event" /\ \A q \in Requests \ {r} : req'[q] = req[q]
    BY <1>6, EvalGoesOn
  <2>3. req[r].at \in Nat /\ req[r].at <= clock
    BY <1>1, <2>1
  <2>4. Stored(Unexpired(events, req[r].at), drained, added, clock)
    BY <1>1, <2>3, StoredUnexpired
  <2>5. /\ events' = Newest(Append(Unexpired(events, req[r].at), BuildEvent(r)), MaxEvents)
        /\ added' = Append(added, req[r].at)
        /\ BuildEvent(r) = [id |-> Len(added) + 1, expires |-> req[r].at + TTL]
    BY <1>6 DEF AddEvent, BuildEvent, NewTraceID
  <2>6. Stored(events', drained, added', clock)
    <3>1. PICK store : store = Unexpired(events, req[r].at)
      OBVIOUS
    <3>2. PICK new : new = BuildEvent(r)
      OBVIOUS
    <3>3. PICK t \in Nat : t = req[r].at
      BY <2>3
    <3>4. Stored(Newest(Append(store, new), MaxEvents), drained, Append(added, t), clock)
      BY <1>1, <2>4, <2>5, <3>1, <3>2, <3>3, StoredAdded
    <3>5. QED
      BY <2>5, <3>1, <3>2, <3>3, <3>4
  <2>7. QED
    BY <2>1, <2>2, <2>6
<1>7. CASE EditRules \/ UNCHANGED vars
  BY <1>7 DEF EditRules, vars
<1>8. CASE Status
  BY <1>1, <1>8, StoredUnexpired DEF Status
<1>9. CASE Drain
  <2>1. UNCHANGED <<req, clock, added>>
    BY <1>9 DEF Drain
  <2> DEFINE store == Unexpired(events, clock)
  <2>2. PICK limit \in AskedLimits :
           LET n == IF limit <= 0 \/ limit > MaxEvents THEN MaxEvents ELSE limit
               m == IF n < Len(store) THEN n ELSE Len(store)
           IN  /\ drained' = drained \o [i \in 1..m |-> store[i].id]
               /\ events' = SubSeq(store, m + 1, Len(store))
    BY <1>9 DEF Drain
  <2>3. Stored(store, drained, added, clock)
    BY <1>1, StoredUnexpired
  <2>4. Len(store) \in Nat
    BY <2>3, StoreTyped DEF Stored
  <2> HIDE DEF store
  <2>5. limit \in Int
    BY Asked
  <2>6. PICK m \in 0..Len(store) :
           /\ drained' = drained \o [i \in 1..m |-> store[i].id]
           /\ events' = SubSeq(store, m + 1, Len(store))
    <3> DEFINE n == IF limit <= 0 \/ limit > MaxEvents THEN MaxEvents ELSE limit
               m == IF n < Len(store) THEN n ELSE Len(store)
    <3>1. drained' = drained \o [i \in 1..m |-> store[i].id] /\ events' = SubSeq(store, m + 1, Len(store))
      BY <2>2
    <3>2. n \in Nat
      BY <2>5, Bounds
    <3> HIDE DEF n
    <3>3. m \in 0..Len(store)
      BY <2>4, <3>2
    <3> HIDE DEF m
    <3>4. QED
      BY <3>1, <3>3
  <2>7. Stored(events', drained', added, clock)
    <3>1. Stored(SubSeq(store, m + 1, Len(store)), drained \o [i \in 1..m |-> store[i].id], added, clock)
      BY <1>1, <2>3, <2>6, StoredDrained
    <3>2. QED
      BY <2>6, <3>1
  <2>8. QED
    BY <2>1, <2>7
<1>10. CASE Tick
  <2>1. UNCHANGED <<req, events, added, drained>> /\ clock' = clock + 1
    BY <1>10 DEF Tick
  <2>2. Stored(events, drained, added, clock')
    BY <1>1, <2>1, StoredLater
  <2>3. \A r \in Requests : req'[r].pc = "event" => req'[r].at <= clock'
    BY <1>1, <2>1
  <2>4. QED
    BY <2>1, <2>2, <2>3
<1>11. CASE Restart
  <2>1. /\ events' = <<>> /\ added' = <<>> /\ drained' = <<>> /\ UNCHANGED clock
        /\ req' = [r \in Requests |-> NoEval]
    BY <1>11 DEF Restart
  <2>2. \A r \in Requests : req'[r].pc # "event"
    BY <2>1 DEF NoEval
  <2>3. Stored(events', drained', added', clock')
    BY <1>1, <2>1, StoredNothing
  <2>4. QED
    BY <2>2, <2>3
<1>12. QED
  BY <1>2, <1>3, <1>4, <1>5, <1>6, <1>7, <1>8, <1>9, <1>10, <1>11 DEF Next, RequestStep

\* What is handed out and what is stored, one behind the other, is in order, and
\* of the rest EventInv says what became.
LEMMA NothingElseLost ==
    ASSUME Types, EventInv
    PROVE  EventsLostOnlyByLimits
<1> DEFINE L == Len(events)
           H == Len(drained)
           ids == [i \in DOMAIN events |-> events[i].id]
           seen == drained \o ids
<1>1. /\ events \in Seq(Event) /\ drained \in Seq(Nat) /\ L \in Nat /\ H \in Nat
      /\ DOMAIN events = 1..L /\ DOMAIN drained = 1..H
      /\ \A i \in 1..L : events[i].id \in Nat
  <2>1. events \in Seq(Event) /\ drained \in Seq(Nat)
    BY DEF EventInv, Stored
  <2>2. QED
    BY <2>1, StoreTyped
<1>2. /\ L <= MaxEvents /\ \A i, j \in 1..L : i < j => events[i].id < events[j].id
      /\ \A i, j \in 1..H : i < j => drained[i] < drained[j]
      /\ \A i \in 1..H, j \in 1..L : drained[i] < events[j].id
      /\ \A n \in DOMAIN added :
            \/ \E i \in 1..H : drained[i] = n
            \/ \E i \in 1..L : events[i].id = n
            \/ clock > added[n] + TTL
            \/ Len(added) - n >= MaxEvents
  BY <1>1 DEF EventInv, Stored, InOrder
<1>3. ids \in Seq(Nat) /\ Len(ids) = L /\ \A i \in 1..L : ids[i] = events[i].id
  BY <1>1
<1> HIDE DEF ids
<1>4. /\ Len(seen) = H + L /\ DOMAIN seen = 1..(H + L)
      /\ \A i \in 1..H : i \in 1..(H + L) /\ seen[i] = drained[i]
      /\ \A i \in 1..L : H + i \in 1..(H + L) /\ seen[H + i] = events[i].id
      /\ \A i \in 1..(H + L) : i \notin 1..H => i - H \in 1..L /\ H + (i - H) = i
  <2>1. PICK h \in Seq(Nat) : h = drained
    BY <1>1
  <2>2. PICK f \in Seq(Nat) : f = ids
    BY <1>3
  <2>3. /\ h \o f \in Seq(Nat) /\ Len(h \o f) = Len(h) + Len(f)
        /\ \A i \in 1..Len(h) : (h \o f)[i] = h[i]
        /\ \A i \in 1..Len(f) : (h \o f)[Len(h) + i] = f[i]
    BY ConcatFacts
  <2>4. Len(h) = H /\ Len(f) = L
    BY <1>3, <2>1, <2>2
  <2>5. DOMAIN (h \o f) = 1..Len(h \o f)
    BY <2>3
  <2>6. /\ \A i \in 1..H : i \in 1..(H + L)
        /\ \A i \in 1..L : H + i \in 1..(H + L)
        /\ \A i \in 1..(H + L) : i \notin 1..H => i - H \in 1..L /\ H + (i - H) = i
    <3> HIDE DEF H, L
    <3>1. QED
      BY <1>1
  <2>7. seen = h \o f
    BY <2>1, <2>2
  <2> HIDE DEF seen, H, L
  <2>8. Len(seen) = H + L /\ DOMAIN seen = 1..(H + L)
    BY <2>3, <2>4, <2>5, <2>7
  <2>9. \A i \in 1..H : seen[i] = drained[i]
    BY <2>1, <2>3, <2>4, <2>7
  <2>10. \A i \in 1..L : seen[H + i] = events[i].id
    BY <1>3, <2>2, <2>3, <2>4, <2>7
  <2>11. QED
    BY <2>6, <2>8, <2>9, <2>10
<1> HIDE DEF seen, H, L
<1>5. ASSUME NEW i \in 1..(H + L), NEW j \in 1..(H + L), i < j PROVE seen[i] < seen[j]
  <2>1. CASE j \in 1..H
    <3>1. i \in 1..H
      BY <1>1, <1>5, <2>1
    <3>2. QED
      BY <1>2, <1>4, <1>5, <2>1, <3>1
  <2>2. CASE i \in 1..H /\ j \notin 1..H
    <3>1. j - H \in 1..L /\ seen[j] = events[j - H].id
      BY <1>4, <2>2
    <3>2. QED
      BY <1>2, <1>4, <2>2, <3>1
  <2>3. CASE i \notin 1..H /\ j \notin 1..H
    <3>1. /\ i - H \in 1..L /\ seen[i] = events[i - H].id
          /\ j - H \in 1..L /\ seen[j] = events[j - H].id
      BY <1>4, <2>3
    <3>2. i - H < j - H
      BY <1>1, <1>5
    <3>3. QED
      BY <1>2, <3>1, <3>2
  <2>4. QED
    BY <2>1, <2>2, <2>3
<1>6. ASSUME NEW n \in DOMAIN added
      PROVE  n \in Range(seen) \/ clock > added[n] + TTL \/ Len(added) - n >= MaxEvents
  <2>1. CASE \E i \in 1..H : drained[i] = n
    <3>1. PICK i \in 1..H : drained[i] = n
      BY <2>1
    <3>2. QED
      BY <1>4, <3>1 DEF Range
  <2>2. CASE \E i \in 1..L : events[i].id = n
    <3>1. PICK i \in 1..L : events[i].id = n
      BY <2>2
    <3>2. QED
      BY <1>4, <3>1 DEF Range
  <2>3. QED
    BY <1>2, <2>1, <2>2
<1>7. QED
  BY <1>2, <1>4, <1>5, <1>6 DEF EventsLostOnlyByLimits, seen, ids, L

\* Events are handed out in the order they were added, each once, and one that was
\* neither handed out nor is stored is too old, or followed by as many as the
\* store holds; for any size of the store, any lifetime of events and any limits
\* of Drain, whatever number of requests adds them at once.
THEOREM EventsAreNotLost == Spec => []EventsLostOnlyByLimits
<1>1. Init => EventInv
  <2> SUFFICES ASSUME Init PROVE EventInv
    OBVIOUS
  <2>1. /\ events = <<>> /\ added = <<>> /\ drained = <<>> /\ clock = 0
        /\ req = [r \in Requests |-> NoEval]
    BY DEF Init
  <2>2. \A r \in Requests : req[r].pc # "event"
    BY <2>1 DEF NoEval
  <2>3. QED
    BY <2>1, <2>2, StoredNothing DEF EventInv
<1>2. Types /\ EventInv /\ [Next]_vars => EventInv'
  BY EventStep
<1>3. Types /\ EventInv => EventsLostOnlyByLimits
  BY NothingElseLost
<1>4. QED
  BY <1>1, <1>2, <1>3, Invariant, PTL DEF Spec

-----------------------------------------------------------------------------
(* What is selected compiles *)

\* A call compiles what it selected on the disk it looked at.
Selected == \A a \in Admins : admin[a].pc = "compile" =>
               admin[a].scanned \in Disks /\ admin[a].targets = LoadOrder(admin[a].scanned)

LEMMA FilesTyped == /\ Files \in Seq(Range(Files)) /\ Text \in [Range(Files) -> Seq(Line)]
                    /\ \A d \in Disks : d \in DiskType
BY WAFAssumption

\* What becomes of the lines of a file.
LEMMA FilteredFacts ==
    ASSUME NEW lines \in Seq(Line), NEW defined
    PROVE  /\ Filtered(lines, defined) \in Seq(Line) /\ Len(Filtered(lines, defined)) = Len(lines)
           /\ \A k \in 1..Len(lines) :
                /\ lines[k].is # "update" => Filtered(lines, defined)[k] = lines[k]
                /\ Filtered(lines, defined)[k].is = "update" =>
                      Filtered(lines, defined)[k] = lines[k] /\ lines[k].id \in defined
<1> DEFINE filtered(k) == IF MissingUpdateTarget(lines[k], defined)
                          THEN [lines[k] EXCEPT !.is = "comment"] ELSE lines[k]
<1>1. Filtered(lines, defined) = [k \in 1..Len(lines) |-> filtered(k)]
  BY DEF Filtered
<1>2. ASSUME NEW k \in 1..Len(lines)
      PROVE  /\ filtered(k) \in Line
             /\ lines[k].is # "update" => filtered(k) = lines[k]
             /\ filtered(k).is = "update" => filtered(k) = lines[k] /\ lines[k].id \in defined
  <2>1. lines[k] \in Line
    OBVIOUS
  <2>2. CASE MissingUpdateTarget(lines[k], defined)
    <3>1. filtered(k) = [lines[k] EXCEPT !.is = "comment"] /\ lines[k].is = "update"
      BY <2>2 DEF MissingUpdateTarget
    <3>2. QED
      BY <2>1, <3>1 DEF Line
  <2>3. CASE ~MissingUpdateTarget(lines[k], defined)
    <3>1. filtered(k) = lines[k] /\ (lines[k].is = "update" => lines[k].id \in defined)
      BY <2>3 DEF MissingUpdateTarget
    <3>2. QED
      BY <2>1, <3>1
  <2>4. QED
    BY <2>2, <2>3
<1> HIDE DEF filtered
<1>3. QED
  BY <1>1, <1>2

\* What is loaded, from a disk all of whose enabled files can be read, is
\* compiled, if every rule is defined before it is updated.
LEMMA SelectionCompiles ==
    ASSUME DefinedFirst, NEW d \in Disks, Range(LoadOrder(d)) \intersect d.bad = {}
    PROVE  Compiles(LoadOrder(d), d)
<1> DEFINE keep == {i \in DOMAIN Files : Files[i] \in d.present /\ Enabled(Files[i], d)}
           targets == LoadOrder(d)
           F == Len(Files)
           N == Len(targets)
           defined == DefinedRuleIDs(targets)
           ss == [i \in 1..N |-> Filtered(Text[targets[i]], defined)]
           lines == FlattenSeq(ss)
<1>1. /\ targets = Kept(Files, keep) /\ keep \subseteq 1..F /\ F \in Nat
      /\ \A i \in keep : Files[i] \in d.present
  BY FilesTyped DEF LoadOrder
<1> HIDE DEF keep
<1>2. targets \in Seq(Range(Files)) /\ Places(targets, Files, F, keep) # {}
  BY <1>1, FilesTyped, KeptFacts
<1> HIDE DEF targets
<1>3. PICK place \in Places(targets, Files, F, keep) : TRUE
  BY <1>2
<1>4. N \in Nat /\ DOMAIN targets = 1..N /\ \A i \in 1..N : targets[i] \in Range(Files)
  BY <1>2
<1>5. /\ \A i \in 1..N : place[i] \in 1..F /\ place[i] \in keep /\ targets[i] = Files[place[i]]
      /\ \A i, j \in 1..N : i < j => place[i] < place[j]
  BY <1>3, <1>4 DEF Places
<1> HIDE DEF F, N
<1>6. \A i \in 1..N : Text[targets[i]] \in Seq(Line)
  BY <1>4, FilesTyped
<1> HIDE DEF defined
<1>7. /\ ss \in Seq(Seq(Line)) /\ Len(ss) = N
      /\ \A n \in 1..N : ss[n] = Filtered(Text[targets[n]], defined)
  <2>1. \A i \in 1..N : Filtered(Text[targets[i]], defined) \in Seq(Line)
    BY <1>6, FilteredFacts
  <2>2. QED
    BY <1>4, <2>1
<1>8. \A n \in 1..N :
         /\ Len(ss[n]) = Len(Text[targets[n]]) /\ Len(ss[n]) \in Nat
         /\ \A k \in 1..Len(ss[n]) :
               /\ Text[targets[n]][k].is # "update" => ss[n][k] = Text[targets[n]][k]
               /\ ss[n][k].is = "update" => ss[n][k] = Text[targets[n]][k] /\ Text[targets[n]][k].id \in defined
  <2> TAKE n \in 1..N
  <2>1. PICK text \in Seq(Line) : text = Text[targets[n]]
    BY <1>6
  <2>2. Len(text) \in Nat /\ ss[n] = Filtered(text, defined)
    BY <1>7, <2>1
  <2>3. QED
    BY <2>1, <2>2, FilteredFacts
<1> HIDE DEF ss
<1>9. lines \in Seq(Line) /\ Offsets(ss, lines) # {}
  BY <1>7, FlattenFacts
<1> HIDE DEF lines
<1>10. PICK at \in Offsets(ss, lines) : TRUE
  BY <1>9
<1>11. /\ \A n \in 0..N : at[n] \in Nat
       /\ \A n \in 1..N : at[n] = at[n - 1] + Len(ss[n])
       /\ \A m, n \in 0..N : m <= n => at[m] <= at[n]
       /\ \A n \in 1..N : \A k \in 1..Len(ss[n]) : lines[at[n - 1] + k] = ss[n][k]
       /\ \A p \in 1..Len(lines) : \E n \in 1..N : p - at[n - 1] \in 1..Len(ss[n])
  BY <1>7, <1>10 DEF Offsets
<1>12. \A i \in DOMAIN targets : targets[i] \in d.present /\ targets[i] \notin d.bad
  <2>1. Range(targets) \intersect d.bad = {}
    BY DEF targets
  <2>2. \A i \in 1..N : targets[i] \in Range(targets)
    BY <1>4 DEF Range
  <2>3. QED
    BY <1>1, <1>4, <1>5, <2>1, <2>2
<1>13. ASSUME NEW p \in 1..Len(lines), lines[p].is = "update"
       PROVE  \E j \in 1..(p - 1) : lines[j] = [is |-> "rule", id |-> lines[p].id]
  <2>1. PICK n \in 1..N : p - at[n - 1] \in 1..Len(ss[n])
    BY <1>11
  <2> DEFINE k == p - at[n - 1]
  <2>2. n - 1 \in 0..N /\ n \in 0..N /\ at[n - 1] \in Nat /\ p \in Nat /\ at[n - 1] + k = p /\ k \in Nat /\ 1 <= k
    <3>1. n - 1 \in 0..N /\ n \in 0..N
      BY <1>4
    <3>2. at[n - 1] \in Nat /\ p \in Nat
      BY <1>9, <1>11, <3>1
    <3>3. k \in Nat /\ 1 <= k
      BY <1>8, <2>1
    <3>4. QED
      BY <3>1, <3>2, <3>3
  <2> HIDE DEF k
  <2>3. k \in 1..Len(ss[n]) /\ lines[p] = ss[n][k]
    BY <1>11, <2>1, <2>2 DEF k
  <2>4. /\ lines[p] = Text[targets[n]][k] /\ Text[targets[n]][k].is = "update"
        /\ Text[targets[n]][k].id \in defined /\ k \in DOMAIN Text[targets[n]]
    <3>1. /\ lines[p] = Text[targets[n]][k] /\ Text[targets[n]][k].is = "update"
          /\ Text[targets[n]][k].id \in defined
      BY <1>8, <1>13, <2>3
    <3>2. DOMAIN Text[targets[n]] = 1..Len(Text[targets[n]])
      BY <1>6
    <3>3. QED
      BY <1>8, <2>3, <3>1, <3>2
  <2>5. PICK file \in Range(targets) : \E l \in DOMAIN Text[file] :
            Text[targets[n]][k].id \in RuleIDActionIDs(Text[file][l])
    BY <2>4 DEF defined, DefinedRuleIDs
  <2>6. PICK m \in 1..N : file = targets[m]
    BY <1>4 DEF Range
  <2>7. PICK l \in DOMAIN Text[targets[m]] :
            Text[targets[m]][l].is = "rule" /\ Text[targets[m]][l].id = Text[targets[n]][k].id
    BY <2>5, <2>6 DEF RuleIDActionIDs
  <2>8. l \in Nat /\ l \in 1..Len(ss[m]) /\ Text[targets[m]][l] \in Line
    <3>1. l \in Nat /\ l \in 1..Len(Text[targets[m]]) /\ Text[targets[m]][l] \in Line
      BY <1>6, <2>7
    <3>2. QED
      BY <1>8, <3>1
  <2>9. ss[m][l] = [is |-> "rule", id |-> lines[p].id]
    <3>1. ss[m][l] = Text[targets[m]][l]
      BY <1>8, <2>7, <2>8
    <3>2. QED
      BY <2>4, <2>7, <2>8, <3>1 DEF Line
  <2>10. m < n \/ (m = n /\ l < k)
    <3>1. place[m] < place[n] \/ (place[m] = place[n] /\ l < k)
      <4>1. /\ place[m] \in DOMAIN Files /\ place[n] \in DOMAIN Files
            /\ targets[m] = Files[place[m]] /\ targets[n] = Files[place[n]]
        <5>1. DOMAIN Files = 1..F
          BY FilesTyped DEF F
        <5>2. QED
          BY <1>5, <5>1
      <4>2. QED
        BY <2>4, <2>7, <4>1 DEF DefinedFirst
    <3>2. place[m] \in Nat /\ place[n] \in Nat /\ m \in Nat /\ n \in Nat
      BY <1>1, <1>4, <1>5
    <3>3. n < m => place[n] < place[m]
      BY <1>5
    <3>4. m = n => ~(place[m] < place[n])
      BY <3>2
    <3>5. QED
      BY <3>1, <3>2, <3>3, <3>4
  <2>11. m - 1 \in 0..N /\ m \in 0..N /\ at[m - 1] \in Nat /\ at[m] \in Nat
         /\ at[m] = at[m - 1] + Len(ss[m]) /\ lines[at[m - 1] + l] = ss[m][l]
    <3>1. m - 1 \in 0..N /\ m \in 0..N
      BY <1>4
    <3>2. QED
      BY <1>11, <2>8, <3>1
  <2>12. at[m - 1] + l \in 1..(p - 1)
    <3>1. at[m - 1] + l < p
      <4>1. CASE m < n
        <5>1. m <= n - 1
          BY <1>4, <4>1
        <5>2. at[m] <= at[n - 1]
          BY <1>11, <2>2, <2>11, <5>1
        <5>3. l <= Len(ss[m]) /\ Len(ss[m]) \in Nat
          BY <1>8, <2>8
        <5>4. at[m - 1] + l <= at[m]
          BY <2>8, <2>11, <5>3
        <5>5. at[n - 1] < p
          BY <2>2
        <5>6. QED
          BY <2>2, <2>8, <2>11, <5>2, <5>4, <5>5
      <4>2. CASE m = n /\ l < k
        BY <2>2, <2>8, <2>11, <4>2
      <4>3. QED
        BY <2>10, <4>1, <4>2
    <3>2. 1 <= l
      BY <2>8
    <3>3. at[m - 1] + l \in Nat /\ 1 <= at[m - 1] + l
      BY <2>8, <2>11, <3>2
    <3>4. \A q, r \in Nat : 1 <= q /\ q < r => q \in 1..(r - 1)
      OBVIOUS
    <3>5. QED
      BY <2>2, <3>1, <3>3, <3>4
  <2>13. QED
    BY <2>9, <2>11, <2>12
<1>14. lines = FlattenSeq([i \in DOMAIN targets |-> Filtered(Text[targets[i]], DefinedRuleIDs(targets))])
  BY <1>4 DEF lines, ss, defined
<1>15. DOMAIN lines = 1..Len(lines)
  BY <1>9
<1>16. Compiles(targets, d)
  BY <1>12, <1>13, <1>14, <1>15 DEF Compiles
<1>17. QED
  BY <1>16 DEF targets

\* What a call selects is of the disk it looks at.
LEMMA ScanSelects ==
    ASSUME Types, NEW a \in Admins, ScanRules(a)
    PROVE  admin'[a].scanned = disk /\ admin'[a].targets = LoadOrder(disk)
<1> DEFINE targets == LoadOrder(disk)
<1> HIDE DEF targets
<1>1. admin' = [admin EXCEPT ![a].pc = "compile", ![a].targets = targets, ![a].scanned = disk]
  BY DEF ScanRules, targets
<1>2. admin[a] \in Call
  BY DEF Types
<1> DEFINE call == [admin[a] EXCEPT !.pc = "compile", !.targets = targets, !.scanned = disk]
<1>3. call.targets = targets /\ call.scanned = disk
  BY <1>2 DEF Call
<1>4. admin' = [admin EXCEPT ![a] = call]
  BY <1>1
<1> HIDE DEF call
<1>5. QED
  BY <1>3, <1>4 DEF Types, targets

\* Nothing else is selected, and what is selected stays.
LEMMA SelectedStep ==
    ASSUME Types, Selected, [Next]_vars
    PROVE  Selected'
<1>1. ASSUME NEW a \in Admins, AdminStep(a) PROVE Selected'
  <2>1. CASE ScanRules(a)
    BY <2>1, CallBuilds, ScanSelects DEF Selected, Types
  <2>2. ASSUME NEW name \in {"set", "reload"}, Begin(a, name) PROVE Selected'
    <3>1. admin'[a].pc # "compile"
      BY <2>2, BeginCalls
    <3>2. ASSUME NEW b \in Admins \ {a}
          PROVE  /\ admin'[b].pc = admin[b].pc /\ admin'[b].targets = admin[b].targets
                 /\ admin'[b].scanned = admin[b].scanned
      <4>1. admin'[b] = [admin[b] EXCEPT !.alone = b \notin Calling]
        BY <2>2 DEF Begin
      <4>2. admin[b] \in Call
        BY DEF Types
      <4>3. QED
        BY <4>1, <4>2 DEF Call
    <3>3. QED
      BY <3>1, <3>2 DEF Selected
  <2>3. CASE CompileRules(a) \/ RereadConfig(a)
    BY <2>3, CallBuilds DEF Selected
  <2>4. CASE BuildFails(a) \/ SaveConfig(a)
    <3>1. Settle(a, TRUE) \/ Settle(a, FALSE)
      BY <2>4 DEF BuildFails, SaveConfig
    <3>2. QED
      BY <3>1, SettleEnds DEF Selected
  <2>5. ASSUME NEW pc \in Stages, pc # "compile", admin' = [admin EXCEPT ![a].pc = pc] PROVE Selected'
    BY <2>5, CallMoves DEF Selected
  <2>6. CASE ClearEngine(a) \/ InstallEngine(a) \/ LookForEngine(a) \/ StoreConfig(a) \/ StoreExclusions(a)
    <3>1. \E pc \in {"config", "scan", "exclusions", "save", "reread"} : admin' = [admin EXCEPT ![a].pc = pc]
      BY <2>6 DEF ClearEngine, InstallEngine, LookForEngine, StoreConfig, StoreExclusions
    <3>2. QED
      BY <2>5, <3>1 DEF Stages, Before
  <2>7. QED
    BY <1>1, <2>1, <2>2, <2>3, <2>4, <2>6 DEF AdminStep, SetConfig, Reload
<1>2. CASE (\E r \in Requests : RequestStep(r)) \/ EditRules \/ Status \/ Drain \/ Tick \/ UNCHANGED vars
  BY <1>2, OthersStandBack DEF Selected
<1>3. CASE Restart
  <2>1. \A a \in Admins : admin'[a] = NoCall
    BY <1>3 DEF Restart
  <2>2. NoCall.pc # "compile"
    BY DEF NoCall
  <2>3. QED
    BY <2>1, <2>2 DEF Selected
<1>4. QED
  BY <1>1, <1>2, <1>3 DEF Next

\* Whichever files are switched off, and however the disk changed, a build of what
\* was found on the disk as it is fails only if an enabled file is bad; for any
\* rule files that define their rules before they update them.
THEOREM SelectionsCompile ==
    ASSUME DefinedFirst
    PROVE  Spec => []AnySelectionCompiles
<1>1. Init => Selected
  <2>1. Init => \A a \in Admins : admin[a].pc = "idle"
    BY DEF Init, NoCall
  <2>2. QED
    BY <2>1 DEF Selected
<1>2. Types /\ Selected /\ [Next]_vars => Selected'
  BY SelectedStep
<1>3. Types /\ Selected => AnySelectionCompiles
  <2> SUFFICES ASSUME Types, Selected, NEW a \in Admins, admin[a].pc = "compile", admin[a].scanned = disk,
                      Range(LoadOrder(disk)) \intersect disk.bad = {}
               PROVE  Compiles(admin[a].targets, disk)
    BY DEF AnySelectionCompiles
  <2>1. disk \in Disks /\ admin[a].targets = LoadOrder(disk)
    BY DEF Selected
  <2>2. QED
    BY <2>1, SelectionCompiles
<1>4. QED
  BY <1>1, <1>2, <1>3, Invariant, PTL DEF Spec

================================================================================
