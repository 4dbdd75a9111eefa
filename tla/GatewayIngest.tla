--------------------------- MODULE GatewayIngest ---------------------------
(***************************************************************************)
(* Admission of gateway connections by GatewayIngestRuntime                *)
(* (crates/core/gateway_ingest_runtime/src/runtime.rs).                    *)
(*                                                                         *)
(* Any number of threads call try_open on the shared RuntimeState and drop *)
(* the GatewayConnection they got.  Every atomic operation of the code is  *)
(* one step, so the load of shutdown_requested, the fetch_update of        *)
(* active_connections, the second load and the allocation of the gateway   *)
(* id interleave freely with the same steps of the other threads.          *)
(***************************************************************************)
EXTENDS Integers, FiniteSets

CONSTANTS
    Openers,        \* the threads; each holds at most one connection at a time
    MaxConnections, \* RuntimeState::max_connections
    IdLimit         \* stands for u32::MAX, the largest gateway id

ASSUME OpenersFinite == IsFiniteSet(Openers)
ASSUME LimitsPositive ==
    /\ MaxConnections \in Nat \ {0}
    /\ IdLimit \in Nat \ {0}

VARIABLES
    shutdownRequested, \* AtomicBool
    active,            \* active_connections: AtomicU32
    nextGatewayId,     \* AtomicU64, starts at 1; every value past IdLimit is IdLimit + 1
    accepted,          \* accepted_connections
    closed,            \* closed_connections
    pc,                \* where each thread is inside try_open or Drop
    gatewayId          \* the id of the connection a thread holds, 0 if none

vars == <<shutdownRequested, active, nextGatewayId, accepted, closed,
          pc, gatewayId>>

\* Threads whose reservation is counted in active_connections.
HoldingPcs == {"reserved", "allocating", "releasing", "open"}
Holding == {o \in Openers : pc[o] \in HoldingPcs}
\* Threads that own a GatewayConnection, the last one inside its Drop.
ConnectedPcs == {"open", "dropped"}
Connected == {o \in Openers : pc[o] \in ConnectedPcs}

Init ==
    /\ shutdownRequested = FALSE
    /\ active = 0
    /\ nextGatewayId = 1
    /\ accepted = 0
    /\ closed = 0
    /\ pc = [o \in Openers |-> "idle"]
    /\ gatewayId = [o \in Openers |-> 0]

Goto(o, label) == pc' = [pc EXCEPT ![o] = label]

\* try_open, first load of shutdown_requested.
TryOpen(o) ==
    /\ pc[o] = "idle"
    /\ Goto(o, IF shutdownRequested THEN "idle" ELSE "checked")
    /\ UNCHANGED <<shutdownRequested, active, nextGatewayId, accepted,
                   closed, gatewayId>>

\* try_open, the fetch_update that reserves a slot or fails with Capacity.
Reserve(o) ==
    /\ pc[o] = "checked"
    /\ IF active < MaxConnections
         THEN /\ active' = active + 1
              /\ Goto(o, "reserved")
         ELSE /\ active' = active
              /\ Goto(o, "idle")
    /\ UNCHANGED <<shutdownRequested, nextGatewayId, accepted, closed, gatewayId>>

\* Mutant: try_open looks at shutdown_requested only once.
RecheckNothing(o) ==
    /\ pc[o] = "reserved"
    /\ Goto(o, "allocating")
    /\ UNCHANGED <<shutdownRequested, active, nextGatewayId, accepted,
                   closed, gatewayId>>

\* try_open, second load of shutdown_requested.
Recheck(o) ==
    /\ pc[o] = "reserved"
    /\ Goto(o, IF shutdownRequested THEN "releasing" ELSE "allocating")
    /\ UNCHANGED <<shutdownRequested, active, nextGatewayId, accepted,
                   closed, gatewayId>>

\* fetch_add on the u64 counter: all values that no longer fit u32 are alike.
IncrementRawId(n) == IF n <= IdLimit THEN n + 1 ELSE n

\* try_open, the fetch_add of next_gateway_id, the u32 conversion and the
\* accepted count.
Allocate(o) ==
    /\ pc[o] = "allocating"
    /\ nextGatewayId' = IncrementRawId(nextGatewayId)
    /\ IF nextGatewayId <= IdLimit
         THEN /\ gatewayId' = [gatewayId EXCEPT ![o] = nextGatewayId]
              /\ accepted' = accepted + 1
              /\ Goto(o, "open")
         ELSE /\ UNCHANGED <<gatewayId, accepted>>
              /\ Goto(o, "releasing")
    /\ UNCHANGED <<shutdownRequested, active, closed>>

\* release_reserved_connection on either error path.
ReleaseReserved(o) ==
    /\ pc[o] = "releasing"
    /\ active' = active - 1
    /\ Goto(o, "idle")
    /\ UNCHANGED <<shutdownRequested, nextGatewayId, accepted,
                   closed, gatewayId>>

\* Drop for GatewayConnection, the fetch_sub.
DropActive(o) ==
    /\ pc[o] = "open"
    /\ active' = active - 1
    /\ Goto(o, "dropped")
    /\ UNCHANGED <<shutdownRequested, nextGatewayId, accepted,
                   closed, gatewayId>>

\* Drop for GatewayConnection, the closed count; the value is gone.
DropCount(o) ==
    /\ pc[o] = "dropped"
    /\ closed' = closed + 1
    /\ gatewayId' = [gatewayId EXCEPT ![o] = 0]
    /\ Goto(o, "idle")
    /\ UNCHANGED <<shutdownRequested, active, nextGatewayId, accepted>>

\* request_shutdown.
RequestShutdown ==
    /\ shutdownRequested' = TRUE
    /\ UNCHANGED <<active, nextGatewayId, accepted, closed, pc, gatewayId>>

\* The part of Next that runs inside try_open.
OpenStep(o) ==
    \/ TryOpen(o)
    \/ Reserve(o)
    \/ Recheck(o)
    \/ Allocate(o)
    \/ ReleaseReserved(o)

Next ==
    \/ RequestShutdown
    \/ \E o \in Openers : OpenStep(o) \/ DropActive(o) \/ DropCount(o)

Spec == Init /\ [][Next]_vars

----------------------------------------------------------------------------

\* Every variable of RuntimeState keeps its type; the unsigned counters never
\* go below zero (runtime.rs:14).
TypeOK ==
    /\ shutdownRequested \in BOOLEAN
    /\ active \in Nat
    /\ nextGatewayId \in 1 .. IdLimit + 1
    /\ accepted \in Nat
    /\ closed \in Nat
    /\ pc \in [Openers -> HoldingPcs \cup {"idle", "checked", "dropped"}]
    /\ gatewayId \in [Openers -> 0 .. IdLimit]

\* active_connections is exactly the number of threads between a successful
\* fetch_update and the matching fetch_sub, on every path out of try_open.
ReservationsExact == active = Cardinality(Holding)

\* However the openers interleave, active_connections never exceeds
\* max_connections, so at most that many connections are open.
CapacityRespected == active <= MaxConnections

\* No two live connections have the same gateway id, and none has id 0, also
\* after the u64 counter has run past u32::MAX (runtime.rs:74).
GatewayIdsUnique ==
    \A o \in Connected :
        /\ gatewayId[o] # 0
        /\ \A p \in Connected : gatewayId[p] = gatewayId[o] => p = o

\* The status counters balance: every accepted connection is either still
\* owned by a thread or counted in closed_connections.
AcceptedAccounted == accepted = closed + Cardinality(Connected)

\* A gateway id is never handed out twice: a newly opened connection has an
\* id greater than that of every connection alive at that moment.
GatewayIdsFresh ==
    [][\A o \in Openers :
         gatewayId'[o] \notin {0, gatewayId[o]}
            => \A p \in Openers : gatewayId[p] < gatewayId'[o]]_vars

\* The abstract admission that the interleaved steps of try_open and Drop make
\* up: the decision falls at the second load of shutdown_requested, the end of
\* a connection at the fetch_sub of its Drop.
Granted == {o \in Openers : pc[o] = "allocating"}
ConnectedAs == [o \in Openers |-> IF pc[o] = "open" THEN gatewayId[o] ELSE 0]
UsedIds == {i \in 1 .. IdLimit : i < nextGatewayId}

Admission ==
    INSTANCE GatewayAdmission WITH
        stopped <- shutdownRequested, granted <- Granted,
        connection <- ConnectedAs, used <- UsedIds

\* However the openers interleave, what they see is one admission at a time:
\* granted before shutdown, within max_connections, under a fresh id.
AdmitsOneAtATime == Admission!Spec

=============================================================================
