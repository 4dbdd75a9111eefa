---------------------------- MODULE MCTraceDrain ----------------------------
(***************************************************************************)
(* TraceDrain for TLC.                                                     *)
(***************************************************************************)
EXTENDS TraceDrain, TLC

PluginSymmetry == Permutations(Plugins)
=============================================================================
