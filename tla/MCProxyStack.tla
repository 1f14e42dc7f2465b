----------------------------- MODULE MCProxyStack -----------------------------
(***************************************************************************)
(* Two calls of SetProxyProtocolForce, and enough changes for one in the   *)
(* middle of a rebind and one after it.                                    *)
(***************************************************************************)
EXTENDS ProxyStack

CONSTANTS a1, a2
MCAdmins == {a1, a2}

=============================================================================
