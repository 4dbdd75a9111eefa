-------------------------- MODULE MCTraceRegistry --------------------------
(***************************************************************************)
(* TLC instance of TraceRegistry: processes are interchangeable.           *)
(***************************************************************************)
EXTENDS TraceRegistry, TLC

ProcessSymmetry == Permutations(Processes)
=============================================================================
