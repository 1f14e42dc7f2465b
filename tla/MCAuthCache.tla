----------------------------- MODULE MCAuthCache -----------------------------
(***************************************************************************)
(* A small gateway for TLC: one browser that moves between two addresses,  *)
(* an FN app, and a visitor without cookies.                               *)
(***************************************************************************)
EXTENDS AuthCache, TLC

CONSTANTS c1, t1, i1, i2, v1, r1, r2

Profile(cookie, auth, ip, app, probe) ==
    [cookie |-> cookie, auth |-> auth, ip |-> ip, view |-> v1, app |-> app, probe |-> probe]

\* One jar with and without an Authorization header; the jar at two addresses,
\* and a visitor without a jar.  A Set-Cookie ends or renews the session of the
\* jar, or begins the visitor's.
Browser == Profile(c1, None, i1, FALSE, FALSE)
WithHeader == Profile(c1, t1, i1, FALSE, FALSE)
Elsewhere == Profile(c1, None, i2, FALSE, TRUE)
Visitor == Profile(None, None, i1, FALSE, FALSE)
MixedProfiles == {Browser, WithHeader, Elsewhere, Visitor}
MixedTraffics == {{Browser, WithHeader}, {Browser, Elsewhere, Visitor}}
MixedConfigs == {[pass |-> 1, fail |-> 1]}
MixedSetCookies == {c1, Absent}

\* One key, which an FN app uses, and as much time as it takes for an answer
\* to be stored, to expire and to be replaced; the cache is switched off and on.
OneKeyProfiles == {Profile(c1, None, i1, TRUE, FALSE)}
OneKeyTraffics == {OneKeyProfiles}
OnOffConfigs == {[pass |-> 1, fail |-> 1], [pass |-> 0, fail |-> 0]}
LiveSetCookies == {Absent}

MCRequests2 == {r1, r2}
RequestSymmetry == Permutations(Requests)

=============================================================================
