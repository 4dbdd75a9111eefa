-------------------------- MODULE GatewayAdmission -------------------------
(***************************************************************************)
(* What GatewayIngestRuntime promises its callers, with nothing of how     *)
(* (crates/core/gateway_ingest_runtime/src/runtime.rs).                    *)
(*                                                                         *)
(* An admission is granted in one step, never after shutdown was requested *)
(* and never beyond the limit.  A granted opener gets a gateway id that    *)
(* nobody was given before, or is refused because there is none left.      *)
(***************************************************************************)
EXTENDS Integers, FiniteSets

CONSTANTS
    Openers,        \* the callers of try_open
    MaxConnections, \* the connections that may be open or granted at a time
    IdLimit         \* the largest gateway id

VARIABLES
    stopped,        \* shutdown was requested
    granted,        \* the openers whose admission is decided and not yet made
    connection,     \* the gateway id each opener is connected under, 0 if none
    used            \* the gateway ids handed out

admissionVars == <<stopped, granted, connection, used>>

Live == {o \in Openers : connection[o] # 0}

Init ==
    /\ stopped = FALSE
    /\ granted = {}
    /\ connection = [o \in Openers |-> 0]
    /\ used = {}

\* try_open decides to admit.
Grant(o) ==
    /\ ~stopped
    /\ o \notin granted \cup Live
    /\ Cardinality(granted \cup Live) < MaxConnections
    /\ granted' = granted \cup {o}
    /\ UNCHANGED <<stopped, connection, used>>

\* try_open returns a GatewayConnection.
Admit(o, id) ==
    /\ o \in granted
    /\ id \notin used
    /\ granted' = granted \ {o}
    /\ connection' = [connection EXCEPT ![o] = id]
    /\ used' = used \cup {id}
    /\ UNCHANGED stopped

\* try_open fails after the decision: every id has been handed out.
Exhausted(o) ==
    /\ o \in granted
    /\ used = 1 .. IdLimit
    /\ granted' = granted \ {o}
    /\ UNCHANGED <<stopped, connection, used>>

\* A GatewayConnection is dropped.
Close(o) ==
    /\ o \in Live
    /\ connection' = [connection EXCEPT ![o] = 0]
    /\ UNCHANGED <<stopped, granted, used>>

\* request_shutdown.
Stop ==
    /\ stopped' = TRUE
    /\ UNCHANGED <<granted, connection, used>>

Next ==
    \/ Stop
    \/ \E o \in Openers :
          \/ Grant(o)
          \/ \E id \in 1 .. IdLimit : Admit(o, id)
          \/ Exhausted(o)
          \/ Close(o)

Spec == Init /\ [][Next]_admissionVars

=============================================================================
