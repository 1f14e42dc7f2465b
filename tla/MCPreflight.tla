----------------------------- MODULE MCPreflight -----------------------------
(***************************************************************************)
(* A browser and an FN app that share a key, and requests for which there   *)
(* is no key.                                                               *)
(***************************************************************************)
EXTENDS Preflight, TLC

CONSTANTS r1, r2, k1

Profile(key, app, internal) == [key |-> key, app |-> app, internal |-> internal]
Browser == Profile(k1, FALSE, FALSE)
App == Profile(k1, TRUE, FALSE)
Keyless == Profile(None, FALSE, FALSE)
Check == Profile(k1, FALSE, TRUE)
MCProfiles == {Browser, App, Keyless, Check}
MCConfigs == {[pass |-> 1, fail |-> 0, port |-> TRUE], [pass |-> 0, fail |-> 0, port |-> FALSE]}
Budget(time, requests, changes, clears, profiles) ==
    [time |-> time, requests |-> requests, changes |-> changes, clears |-> clears, profiles |-> profiles]
MCBudgets == {Budget(3, 3, 1, 0, {Browser, App}), Budget(2, 2, 1, 0, {Browser, Keyless, Check}),
              Budget(2, 2, 0, 1, {Browser, App})}
MCSymmetry == Permutations(Requests)

=============================================================================
