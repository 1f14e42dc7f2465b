---------------------------- MODULE MCConfigStore ----------------------------
(***************************************************************************)
(* Two calls on a section of each kind, with a file that fails at every   *)
(* step, and one crash.                                                    *)
(***************************************************************************)
EXTENDS ConfigStore

CONSTANTS c1, c2
MCCalls == {c1, c2}

=============================================================================
