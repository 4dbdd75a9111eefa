--------------------------- MODULE MCSandboxAgent ---------------------------
(* Small instances of SandboxAgent for TLC.                                 *)
EXTENDS SandboxAgent, TLC

\* Neither requests nor endpoints are ordered or compared but for equality.
Symmetry == Permutations(Requests) \cup Permutations(Endpoints)

Safety == Init /\ [][Next]_vars

=============================================================================
