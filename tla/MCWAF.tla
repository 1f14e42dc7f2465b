-------------------------------- MODULE MCWAF --------------------------------
(***************************************************************************)
(* Two callers of the admin API and two requests, with configurations that  *)
(* differ in everything a request reads and rule files in all the states    *)
(* that the loader tells apart.                                             *)
(***************************************************************************)
EXTENDS WAF, TLC

CONSTANTS a1, a2, r1, r2, setup, lfi, custom

Config(enabled, mode, hosts, paths) == [enabled |-> enabled, mode |-> mode, hosts |-> hosts, paths |-> paths]
MCConfigs == {Config(TRUE, "unknown", {}, {""}), Config(TRUE, "blocking", {"", "host"}, {}),
              Config(TRUE, "detection", {}, {}), Config(FALSE, "", {""}, {})}

\* A custom file that tunes a rule of a system file that is off by default.
MCFiles == <<setup, lfi, custom>>
ARule(id) == [is |-> "rule", id |-> id]
AnUpdate(id) == [is |-> "update", id |-> id]
MCText == (setup :> <<ARule(901)>> @@ lfi :> <<AnUpdate(901), ARule(930)>>
           @@ custom :> <<AnUpdate(930), ARule(1)>>)
ASSUME MCDefinedFirst == DefinedFirst
\* The request whose body cannot be read may be caught by its headers.
MCCatches == (r1 :> {lfi, custom} @@ r2 :> {lfi})

Disk(present, lfiState, customState, bad, corrupt) ==
    [present |-> present, state |-> (setup :> "off" @@ lfi :> lfiState @@ custom :> customState),
     bad |-> bad, corrupt |-> corrupt]
All == Range(MCFiles)
MCDisks == {Disk(All, "unset", "unset", {}, FALSE), Disk(All, "on", "off", {}, FALSE),
            Disk(All, "off", "off", {custom}, FALSE), Disk(All, "on", "on", {custom}, FALSE),
            Disk({setup, custom}, "on", "unset", {}, FALSE), Disk({}, "unset", "unset", {}, TRUE)}

Budget(time, calls, edits, evals, restarts, drains) ==
    [time |-> time, calls |-> calls, edits |-> edits, evals |-> evals, restarts |-> restarts,
     drains |-> drains]
MCBudgets == {Budget(0, 2, 1, 0, 1, 0), Budget(0, 2, 0, 1, 0, 0), Budget(0, 1, 1, 2, 1, 0), Budget(3, 0, 0, 4, 0, 2)}
MCSymmetry == Permutations(Admins)

=============================================================================
