---------------------------- MODULE MCCallEngine ----------------------------
(* Instances of CallEngine for TLC.                                        *)
EXTENDS CallEngine

CONSTANTS a1, a2

MCAddr == {a1, a2}
=============================================================================
