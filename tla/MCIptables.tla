------------------------------ MODULE MCIptables ------------------------------
(***************************************************************************)
(* Two overlapping calls of a firewall with one table and the shortest     *)
(* lists that show an order: one local network, one exempt port or none.   *)
(***************************************************************************)
EXTENDS Iptables, TLC

CONSTANTS c1, c2

MCTables == <<"iptables">>
MCInitRequests == {[chain |-> {"REAUTH_FW"}, parents |-> <<"">>, exempt |-> {<<"", "p1">>}],
                   [chain |-> {}, parents |-> <<"INPUT">>, exempt |-> {<<>>}]}
MCExistingParents == [t \in {"iptables"} |-> {"INPUT"}]
MCLocalCIDRs == [t \in {"iptables"} |-> <<"10.0.0.0/8">>]
MCTableOf == [ip \in Addresses |-> "iptables"]
MCPolicyParents == <<"INPUT">>
MCPolicies == {[ports |-> <<"22", "22">>, allow |-> <<"ip1">>, block |-> <<"ip2", "", "ip2">>, local |-> TRUE],
               [ports |-> <<"22", "0", "23">>, allow |-> <<>>, block |-> <<"ip1">>, local |-> FALSE],
               [ports |-> <<"22">>, allow |-> <<>>, block |-> <<>>, local |-> FALSE],
               [ports |-> <<"0">>, allow |-> <<>>, block |-> <<"ip1">>, local |-> FALSE]}
MCRedirects == {<<"80", "7999">>, <<"80", "7998">>}

\* What overlaps with what: calls on an address, on the default, on the whole
\* chain (one at a time with a fault, or two without), on the SSH policy, on
\* redirects.
Calling(names, max, whole, most) == [names |-> names, calls |-> max, whole |-> whole, faults |-> most]
MCClients == {Calling({"init", "allow", "block", "remove"}, 3, 1, 1),
              Calling({"init", "block", "remove"}, 4, 1, 1),
              Calling({"init", "allow", "block", "block port", "remove port"}, 3, 1, 1),
              Calling({"init", "flush", "block all", "allow all", "block"}, 3, 1, 1),
              Calling({"init", "flush", "destroy"}, 2, 2, 0),
              Calling({"init", "flush", "destroy"}, 3, 1, 1),
              Calling({"sync", "clear"}, 3, 1, 1),
              Calling({"sync", "clear", "init"}, 2, 1, 1),
              Calling({"redirect", "no redirect"}, 4, 1, 1)}
CallerSymmetry == Permutations(Callers)

=============================================================================
