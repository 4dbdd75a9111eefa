--------------------------- MODULE MCVsockGateway ---------------------------
(* Instances of the gateway for model checking; safety runs need no fairness. *)
EXTENDS VsockGateway

Safety == Init /\ [][Next]_vars
=============================================================================
