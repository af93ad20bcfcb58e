----------------------------- MODULE MCCodePages -----------------------------
(* An instance of CodePages for TLC: pages of six lines, of which every     *)
(* second operation needs a bridge.                                         *)
EXTENDS CodePages
=============================================================================
