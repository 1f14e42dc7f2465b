---------------------------- MODULE MCGatewayLog ----------------------------
(***************************************************************************)
(* One request that logs, one client that reads, and chunks shorter than    *)
(* most lines.                                                              *)
(***************************************************************************)
EXTENDS GatewayLog

CONSTANTS c1, l1

Entry(width, status, loggedIn, denied, credentials) ==
    [width |-> width, words |-> {}, status |-> status, loggedIn |-> loggedIn, denied |-> denied,
     credentials |-> credentials]
MCKinds == {Entry(1, 200, TRUE, FALSE, {"a"}), Entry(3, 403, FALSE, TRUE, {})}
Asking(status, loggedIn, credential) ==
    [search |-> "", status |-> status, loggedIn |-> loggedIn, credential |-> credential]
MCFilters == {Asking({0}, "all", ""), Asking({4, 200}, "no", "missing"), Asking({4}, "maybe", ""),
              Asking({6}, "", "")}
MCConfigs == {[enabled |-> TRUE, maxDays |-> 2], [enabled |-> FALSE, maxDays |-> 0],
              [enabled |-> TRUE, maxDays |-> -1]}
MCZones == {8, -5}

\* Paging while lines are logged and the file is deleted; pages; and the
\* writer's files over several days.
Bound(days, lines, cursors, pages, edits, errors) ==
    [days |-> days, lines |-> lines, cursors |-> cursors, pages |-> pages, changes |-> edits,
     faults |-> errors]
MCBounds == {Bound(1, 3, 3, 0, 0, 1), Bound(1, 2, 2, 0, 1, 0), Bound(1, 3, 0, 1, 0, 1),
             Bound(1, 2, 0, 1, 1, 0), Bound(3, 3, 0, 0, 2, 1)}

=============================================================================
