------------------------------- MODULE MCThrottle -------------------------------
(***************************************************************************)
(* Two requests of two clients of a shard, and configurations among which  *)
(* one is off, one leaves numbers to the defaults, and one shortens the    *)
(* blocks.  A token is two fractions, so that buckets hold half tokens.    *)
(***************************************************************************)
EXTENDS Throttle, TLC

CONSTANTS r1, r2, c1, c2
MCRequests == {r1, r2}
MCClients == {c1, c2}
SameRequestsAndClients == Permutations(MCRequests) \union Permutations(MCClients)

Setting(on, rate, burst, block) ==
    [enabled |-> on, rate |-> rate, burst |-> burst, block |-> block]

MCDefaults == Setting(TRUE, 1, 2, 4)
MCConfigs == {Setting(FALSE, 0, 0, 0), Setting(TRUE, 0, 0, 0), Setting(TRUE, 1, 3, 1)}

=============================================================================
