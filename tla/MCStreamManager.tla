---------------------------- MODULE MCStreamManager ----------------------------
(***************************************************************************)
(* Two calls on a TCP and a UDP key, with one connection.  Each key has at *)
(* most one listener with open sockets, and each call closes one listener  *)
(* at a time: with as many listener states as keys and calls none is ever  *)
(* missing.                                                                *)
(***************************************************************************)
EXTENDS StreamManager, TLC

CONSTANTS c1, c2, l1, l2, l3, l4
StreamSymmetry == Permutations({c1, c2}) \union Permutations(Listeners)

=============================================================================
