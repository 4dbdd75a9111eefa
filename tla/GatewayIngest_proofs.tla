----------------------- MODULE GatewayIngest_proofs ------------------------
(***************************************************************************)
(* The admission runtime is correct for any number of threads, any limit   *)
(* on connections and any width of the gateway id.                         *)
(*                                                                         *)
(* Capacity and uniqueness are not inductive.  The limit holds because     *)
(* active counts exactly the threads between reservation and release, and  *)
(* uniqueness because every id in use is below the counter that the next   *)
(* one is taken from, and threads that are not connected hold no id.       *)
(*                                                                         *)
(* The TCP server takes only steps of the runtime, so all of this is true  *)
(* of the server; and when its shutdown has returned nothing is left open. *)
(***************************************************************************)
EXTENDS UpstreamServer, FiniteSetTheorems, TLAPS

\* Ids come from below the counter; only connected threads have one.
IdsBelowCounter ==
    \A o \in Openers :
        /\ gatewayId[o] < nextGatewayId
        /\ gatewayId[o] # 0 <=> o \in Connected

DistinctIds ==
    \A o, p \in Openers : gatewayId[o] = gatewayId[p] /\ gatewayId[o] # 0 => o = p

\* The inductive invariant.
IInv ==
    /\ TypeOK
    /\ ReservationsExact
    /\ CapacityRespected
    /\ IdsBelowCounter
    /\ DistinctIds
    /\ AcceptedAccounted

Pcs == HoldingPcs \cup {"idle", "checked", "dropped"}

\* A thread that enters a counted section adds one to the count of threads in
\* it, one that leaves subtracts one, any other step changes nothing.
LEMMA CountWhenMoved ==
    ASSUME NEW f \in [Openers -> Pcs], NEW o \in Openers, NEW l \in Pcs,
           NEW S, NEW F, NEW G,
           F = {q \in Openers : f[q] \in S},
           G = {q \in Openers : [f EXCEPT ![o] = l][q] \in S}
    PROVE  /\ Cardinality(F) \in Nat
           /\ f[o] \notin S /\ l \in S => Cardinality(G) = Cardinality(F) + 1
           /\ f[o] \in S /\ l \notin S => Cardinality(G) = Cardinality(F) - 1
           /\ (f[o] \in S <=> l \in S) => G = F
  <1>1. IsFiniteSet(F)
    BY OpenersFinite, FS_Subset
  <1>2. Cardinality(F) \in Nat
    BY <1>1, FS_CardinalityType
  <1>3. ASSUME f[o] \notin S, l \in S
        PROVE  Cardinality(G) = Cardinality(F) + 1
    <2>1. G = F \cup {o} /\ o \notin F
      BY <1>3
    <2> QED
      BY <1>1, <2>1, FS_AddElement
  <1>4. ASSUME f[o] \in S, l \notin S
        PROVE  Cardinality(G) = Cardinality(F) - 1
    <2>1. G = F \ {o} /\ o \in F
      BY <1>4
    <2> QED
      BY <1>1, <2>1, FS_RemoveElement
  <1>5. ASSUME f[o] \in S <=> l \in S
        PROVE  G = F
    BY <1>5
  <1> QED
    BY <1>2, <1>3, <1>4, <1>5

\* The initial state satisfies the invariant: nobody holds anything.
LEMMA InitIInv == Init => IInv
  <1> SUFFICES ASSUME Init PROVE IInv
    OBVIOUS
  <1>1. TypeOK
    <2>1. IdLimit \in Nat /\ IdLimit >= 1
      BY LimitsPositive
    <2>2. nextGatewayId \in 1 .. IdLimit + 1
      BY <2>1 DEF Init
    <2>3. gatewayId \in [Openers -> 0 .. IdLimit]
      BY <2>1 DEF Init
    <2>4. pc \in [Openers -> HoldingPcs \cup {"idle", "checked", "dropped"}]
      BY DEF Init
    <2> QED
      BY <2>2, <2>3, <2>4 DEF Init, TypeOK
  <1>2. Holding = {} /\ Connected = {}
    BY DEF Init, Holding, HoldingPcs, Connected, ConnectedPcs
  <1>3. Cardinality(Holding) = 0 /\ Cardinality(Connected) = 0
    BY <1>2, FS_EmptySet
  <1>4. ReservationsExact /\ CapacityRespected /\ AcceptedAccounted
    BY <1>3, LimitsPositive
    DEF Init, ReservationsExact, CapacityRespected, AcceptedAccounted
  <1>5. IdsBelowCounter /\ DistinctIds
    BY <1>2 DEF Init, IdsBelowCounter, DistinctIds
  <1> QED
    BY <1>1, <1>4, <1>5 DEF IInv

\* What a step that moves one thread does to the two counts.
LEMMA CountsWhenMoved ==
    ASSUME TypeOK, NEW o \in Openers, NEW l \in Pcs, pc' = [pc EXCEPT ![o] = l]
    PROVE  /\ Cardinality(Holding) \in Nat
           /\ Cardinality(Connected) \in Nat
           /\ pc[o] \notin HoldingPcs /\ l \in HoldingPcs
                 => Cardinality(Holding') = Cardinality(Holding) + 1
           /\ pc[o] \in HoldingPcs /\ l \notin HoldingPcs
                 => Cardinality(Holding') = Cardinality(Holding) - 1
           /\ (pc[o] \in HoldingPcs <=> l \in HoldingPcs) => Holding' = Holding
           /\ pc[o] \notin ConnectedPcs /\ l \in ConnectedPcs
                 => Cardinality(Connected') = Cardinality(Connected) + 1
           /\ pc[o] \in ConnectedPcs /\ l \notin ConnectedPcs
                 => Cardinality(Connected') = Cardinality(Connected) - 1
           /\ (pc[o] \in ConnectedPcs <=> l \in ConnectedPcs)
                 => Connected' = Connected
  <1>1. pc \in [Openers -> Pcs]
    BY DEF TypeOK, Pcs
  <1>2. /\ Cardinality(Holding) \in Nat
        /\ pc[o] \notin HoldingPcs /\ l \in HoldingPcs
              => Cardinality(Holding') = Cardinality(Holding) + 1
        /\ pc[o] \in HoldingPcs /\ l \notin HoldingPcs
              => Cardinality(Holding') = Cardinality(Holding) - 1
        /\ (pc[o] \in HoldingPcs <=> l \in HoldingPcs) => Holding' = Holding
    <2>1. Holding = {q \in Openers : pc[q] \in HoldingPcs}
      BY DEF Holding
    <2>2. Holding' = {q \in Openers : [pc EXCEPT ![o] = l][q] \in HoldingPcs}
      BY DEF Holding
    <2> QED
      BY <1>1, <2>1, <2>2, CountWhenMoved
  <1>3. /\ Cardinality(Connected) \in Nat
        /\ pc[o] \notin ConnectedPcs /\ l \in ConnectedPcs
              => Cardinality(Connected') = Cardinality(Connected) + 1
        /\ pc[o] \in ConnectedPcs /\ l \notin ConnectedPcs
              => Cardinality(Connected') = Cardinality(Connected) - 1
        /\ (pc[o] \in ConnectedPcs <=> l \in ConnectedPcs)
              => Connected' = Connected
    <2>1. Connected = {q \in Openers : pc[q] \in ConnectedPcs}
      BY DEF Connected
    <2>2. Connected' = {q \in Openers : [pc EXCEPT ![o] = l][q] \in ConnectedPcs}
      BY DEF Connected
    <2> QED
      BY <1>1, <2>1, <2>2, CountWhenMoved
  <1> QED
    BY <1>2, <1>3

\* Every step preserves the invariant.
LEMMA NextIInv == IInv /\ [Next]_vars => IInv'
  <1> SUFFICES ASSUME IInv, [Next]_vars PROVE IInv'
    OBVIOUS
  <1> USE DEF IInv
  <1>0. /\ MaxConnections \in Nat /\ IdLimit \in Nat /\ active \in Nat
        /\ nextGatewayId \in 1 .. IdLimit + 1
        /\ accepted \in Nat /\ closed \in Nat
        /\ pc \in [Openers -> Pcs]
        /\ gatewayId \in [Openers -> 0 .. IdLimit]
    BY LimitsPositive DEF TypeOK, Pcs
  <1>1. CASE RequestShutdown
    <2>1. Holding' = Holding /\ Connected' = Connected
      BY <1>1 DEF RequestShutdown, Holding, Connected
    <2> QED
      BY <1>1, <2>1 DEF RequestShutdown, TypeOK, ReservationsExact,
         CapacityRespected, IdsBelowCounter, DistinctIds, AcceptedAccounted
  <1>2. ASSUME NEW o \in Openers, TryOpen(o) PROVE IInv'
    <2>1. PICK l \in Pcs : /\ pc' = [pc EXCEPT ![o] = l]
                           /\ l \in {"idle", "checked"}
      BY <1>2 DEF TryOpen, Goto, Pcs
    <2>2. Holding' = Holding /\ Connected' = Connected
      BY <1>0, <1>2, <2>1, CountsWhenMoved DEF TryOpen, HoldingPcs, ConnectedPcs
    <2> QED
      BY <1>0, <1>2, <2>1, <2>2 DEF TryOpen, TypeOK, Pcs, ReservationsExact,
         CapacityRespected, IdsBelowCounter, DistinctIds, AcceptedAccounted
  <1>3. ASSUME NEW o \in Openers, Reserve(o) PROVE IInv'
    <2>1. CASE active < MaxConnections
      <3>1. pc' = [pc EXCEPT ![o] = "reserved"] /\ "reserved" \in Pcs
        BY <1>3, <2>1 DEF Reserve, Goto, Pcs, HoldingPcs
      <3>2. Cardinality(Holding') = Cardinality(Holding) + 1 /\ Connected' = Connected
        BY <1>3, <3>1, CountsWhenMoved DEF Reserve, HoldingPcs, ConnectedPcs
      <3> QED
        BY <1>0, <1>3, <2>1, <3>1, <3>2 DEF Reserve, TypeOK, Pcs,
           ReservationsExact, CapacityRespected, IdsBelowCounter, DistinctIds,
           AcceptedAccounted
    <2>2. CASE ~(active < MaxConnections)
      <3>1. pc' = [pc EXCEPT ![o] = "idle"] /\ "idle" \in Pcs
        BY <1>3, <2>2 DEF Reserve, Goto, Pcs
      <3>2. Holding' = Holding /\ Connected' = Connected
        BY <1>3, <3>1, CountsWhenMoved DEF Reserve, HoldingPcs, ConnectedPcs
      <3> QED
        BY <1>0, <1>3, <2>2, <3>1, <3>2 DEF Reserve, TypeOK, Pcs,
           ReservationsExact, CapacityRespected, IdsBelowCounter, DistinctIds,
           AcceptedAccounted
    <2> QED
      BY <2>1, <2>2
  <1>4. ASSUME NEW o \in Openers, Recheck(o) PROVE IInv'
    <2>1. PICK l \in Pcs : /\ pc' = [pc EXCEPT ![o] = l]
                           /\ l \in {"releasing", "allocating"}
      BY <1>4 DEF Recheck, Goto, Pcs, HoldingPcs
    <2>2. Holding' = Holding /\ Connected' = Connected
      BY <1>0, <1>4, <2>1, CountsWhenMoved DEF Recheck, HoldingPcs, ConnectedPcs
    <2> QED
      BY <1>0, <1>4, <2>1, <2>2 DEF Recheck, TypeOK, Pcs, ReservationsExact,
         CapacityRespected, IdsBelowCounter, DistinctIds, AcceptedAccounted
  <1>5. ASSUME NEW o \in Openers, Allocate(o) PROVE IInv'
    <2>1. CASE nextGatewayId <= IdLimit
      <3>1. /\ pc' = [pc EXCEPT ![o] = "open"] /\ "open" \in Pcs
            /\ pc[o] = "allocating"
        BY <1>5, <2>1 DEF Allocate, Goto, Pcs, HoldingPcs
      <3>2. /\ Holding' = Holding
            /\ Cardinality(Connected') = Cardinality(Connected) + 1
            /\ Cardinality(Connected) \in Nat
        BY <3>1, CountsWhenMoved DEF HoldingPcs, ConnectedPcs
      <3>3. /\ nextGatewayId' = nextGatewayId + 1
            /\ gatewayId' = [gatewayId EXCEPT ![o] = nextGatewayId]
            /\ accepted' = accepted + 1
            /\ UNCHANGED <<shutdownRequested, active, closed>>
        BY <1>5, <2>1 DEF Allocate, IncrementRawId
      <3>4. TypeOK'
        BY <1>0, <2>1, <3>1, <3>3 DEF TypeOK, Pcs
      <3>5. ReservationsExact' /\ CapacityRespected' /\ AcceptedAccounted'
        BY <1>0, <3>2, <3>3 DEF ReservationsExact, CapacityRespected, AcceptedAccounted
      <3>6. IdsBelowCounter'
        BY <1>0, <2>1, <3>1, <3>3 DEF IdsBelowCounter, Connected, ConnectedPcs
      <3>7. DistinctIds'
        BY <1>0, <2>1, <3>3 DEF DistinctIds, IdsBelowCounter
      <3> QED
        BY <3>4, <3>5, <3>6, <3>7
    <2>2. CASE ~(nextGatewayId <= IdLimit)
      <3>1. pc' = [pc EXCEPT ![o] = "releasing"] /\ "releasing" \in Pcs
        BY <1>5, <2>2 DEF Allocate, Goto, Pcs, HoldingPcs
      <3>2. Holding' = Holding /\ Connected' = Connected
        BY <1>5, <3>1, CountsWhenMoved DEF Allocate, HoldingPcs, ConnectedPcs
      <3>3. UNCHANGED <<shutdownRequested, active, nextGatewayId, accepted,
                        closed, gatewayId>>
        BY <1>5, <2>2 DEF Allocate, IncrementRawId
      <3> QED
        BY <1>0, <3>1, <3>2, <3>3 DEF TypeOK, Pcs, ReservationsExact,
           CapacityRespected, IdsBelowCounter, DistinctIds, AcceptedAccounted
    <2> QED
      BY <2>1, <2>2
  <1>6. ASSUME NEW o \in Openers, ReleaseReserved(o) PROVE IInv'
    <2>1. /\ pc' = [pc EXCEPT ![o] = "idle"] /\ "idle" \in Pcs
          /\ pc[o] = "releasing"
      BY <1>6 DEF ReleaseReserved, Goto, Pcs
    <2>2. /\ Cardinality(Holding') = Cardinality(Holding) - 1
          /\ Connected' = Connected
          /\ Cardinality(Holding) \in Nat
      BY <2>1, CountsWhenMoved DEF HoldingPcs, ConnectedPcs
    <2>3. active > 0
      <3>1. o \in Holding
        BY <2>1 DEF Holding, HoldingPcs
      <3>2. IsFiniteSet(Holding)
        BY OpenersFinite, FS_Subset DEF Holding
      <3> QED
        BY <1>0, <3>1, <3>2, FS_EmptySet DEF ReservationsExact
    <2> QED
      BY <1>0, <1>6, <2>1, <2>2, <2>3 DEF ReleaseReserved, TypeOK, Pcs,
         ReservationsExact, CapacityRespected, IdsBelowCounter, DistinctIds,
         AcceptedAccounted
  <1>7. ASSUME NEW o \in Openers, DropActive(o) PROVE IInv'
    <2>1. /\ pc' = [pc EXCEPT ![o] = "dropped"] /\ "dropped" \in Pcs
          /\ pc[o] = "open"
      BY <1>7 DEF DropActive, Goto, Pcs
    <2>2. /\ Cardinality(Holding') = Cardinality(Holding) - 1
          /\ Connected' = Connected
          /\ Cardinality(Holding) \in Nat
      BY <2>1, CountsWhenMoved DEF HoldingPcs, ConnectedPcs
    <2>3. active > 0
      <3>1. o \in Holding
        BY <2>1 DEF Holding, HoldingPcs
      <3>2. IsFiniteSet(Holding)
        BY OpenersFinite, FS_Subset DEF Holding
      <3> QED
        BY <1>0, <3>1, <3>2, FS_EmptySet DEF ReservationsExact
    <2> QED
      BY <1>0, <1>7, <2>1, <2>2, <2>3 DEF DropActive, TypeOK, Pcs,
         ReservationsExact, CapacityRespected, IdsBelowCounter, DistinctIds,
         AcceptedAccounted
  <1>8. ASSUME NEW o \in Openers, DropCount(o) PROVE IInv'
    <2>1. /\ pc' = [pc EXCEPT ![o] = "idle"] /\ "idle" \in Pcs
          /\ pc[o] = "dropped"
      BY <1>8 DEF DropCount, Goto, Pcs
    <2>2. /\ Holding' = Holding
          /\ Cardinality(Connected') = Cardinality(Connected) - 1
          /\ Cardinality(Connected) \in Nat
      BY <2>1, CountsWhenMoved DEF HoldingPcs, ConnectedPcs
    <2>3. /\ gatewayId' = [gatewayId EXCEPT ![o] = 0]
          /\ closed' = closed + 1
          /\ UNCHANGED <<shutdownRequested, active, nextGatewayId, accepted>>
      BY <1>8 DEF DropCount
    <2>4. TypeOK'
      BY <1>0, <2>1, <2>3 DEF TypeOK, Pcs
    <2>5. ReservationsExact' /\ CapacityRespected' /\ AcceptedAccounted'
      BY <1>0, <2>2, <2>3 DEF ReservationsExact, CapacityRespected, AcceptedAccounted
    <2>6. IdsBelowCounter'
      BY <1>0, <2>1, <2>3 DEF IdsBelowCounter, Connected, ConnectedPcs
    <2>7. DistinctIds'
      BY <1>0, <2>3 DEF DistinctIds
    <2> QED
      BY <2>4, <2>5, <2>6, <2>7
  <1>9. CASE UNCHANGED vars
    <2>1. Holding' = Holding /\ Connected' = Connected
      BY <1>9 DEF vars, Holding, Connected
    <2> QED
      BY <1>9, <2>1 DEF vars, TypeOK, ReservationsExact, CapacityRespected,
         IdsBelowCounter, DistinctIds, AcceptedAccounted
  <1> QED
    BY <1>1, <1>2, <1>3, <1>4, <1>5, <1>6, <1>7, <1>8, <1>9 DEF Next, OpenStep

\* The inductive invariant holds in every reachable state.
THEOREM Invariance == Spec => []IInv
  BY InitIInv, NextIInv, PTL DEF Spec

\* The counters and identifiers of RuntimeState always have their types; in
\* particular the unsigned active_connections is never decremented below zero.
THEOREM TypeCorrect == Spec => []TypeOK
  <1>1. IInv => TypeOK
    BY DEF IInv
  <1> QED
    BY <1>1, Invariance, PTL

\* try_open never lets more than max_connections connections be active, for
\* any number of threads.
THEOREM CapacityHolds == Spec => []CapacityRespected
  <1>1. IInv => CapacityRespected
    BY DEF IInv
  <1> QED
    BY <1>1, Invariance, PTL

\* Every reservation is released exactly once, whatever path try_open takes.
THEOREM ReservationsHold == Spec => []ReservationsExact
  <1>1. IInv => ReservationsExact
    BY DEF IInv
  <1> QED
    BY <1>1, Invariance, PTL

\* accepted_connections and closed_connections account for every connection.
THEOREM AccountingHolds == Spec => []AcceptedAccounted
  <1>1. IInv => AcceptedAccounted
    BY DEF IInv
  <1> QED
    BY <1>1, Invariance, PTL

\* Live gateway ids are distinct and non-zero, however far the counter ran.
THEOREM UniqueIds == Spec => []GatewayIdsUnique
  <1>1. IInv => GatewayIdsUnique
    BY DEF IInv, TypeOK, IdsBelowCounter, DistinctIds, GatewayIdsUnique, Connected
  <1> QED
    BY <1>1, Invariance, PTL

\* try_open never hands out an id that a live connection has or had before it.
THEOREM FreshIds == Spec => GatewayIdsFresh
  <1> DEFINE Fresh ==
        \A o \in Openers :
          gatewayId'[o] \notin {0, gatewayId[o]}
             => \A p \in Openers : gatewayId[p] < gatewayId'[o]
  <1>1. IInv /\ [Next]_vars => [Fresh]_vars
    <2> SUFFICES ASSUME IInv, Next PROVE Fresh
      OBVIOUS
    <2>0. gatewayId \in [Openers -> 0 .. IdLimit]
      BY DEF IInv, TypeOK
    <2>1. CASE RequestShutdown
      BY <2>1 DEF RequestShutdown
    <2>2. ASSUME NEW o \in Openers, TryOpen(o) \/ Reserve(o) \/ Recheck(o)
                    \/ ReleaseReserved(o) \/ DropActive(o)
          PROVE Fresh
      BY <2>2 DEF TryOpen, Reserve, Recheck, ReleaseReserved, DropActive
    <2>3. ASSUME NEW o \in Openers, Allocate(o) PROVE Fresh
      BY <2>0, <2>3 DEF Allocate, IInv, IdsBelowCounter
    <2>4. ASSUME NEW o \in Openers, DropCount(o) PROVE Fresh
      BY <2>0, <2>4 DEF DropCount
    <2> QED
      BY <2>1, <2>2, <2>3, <2>4 DEF Next, OpenStep
  <1> QED
    BY <1>1, Invariance, PTL DEF Spec, GatewayIdsFresh

-----------------------------------------------------------------------------
(* The interleaved steps of try_open and Drop implement the abstract       *)
(* admission, in which each opener is admitted in one step.                *)

\* Openers that wait for nothing but an id, or are connected, hold a slot.
LEMMA AdmittedHold ==
    ASSUME TypeOK
    PROVE  /\ Admission!Live \subseteq {o \in Openers : pc[o] = "open"}
           /\ Granted \cup Admission!Live \subseteq Holding
  BY DEF Admission!Live, Granted, ConnectedAs, Holding, HoldingPcs

\* A decision to admit is made under the limit: the opener that decides holds a
\* slot itself, and so does everyone admitted before.
LEMMA GrantWithinLimit ==
    ASSUME IInv, NEW o \in Openers, pc[o] = "reserved"
    PROVE  /\ o \notin Granted \cup Admission!Live
           /\ Cardinality(Granted \cup Admission!Live) < MaxConnections
  <1> DEFINE A == Granted \cup Admission!Live
  <1>1. o \in Holding /\ o \notin A /\ A \subseteq Holding \ {o}
    BY AdmittedHold DEF IInv, Holding, HoldingPcs, Granted
  <1> HIDE DEF A
  <1>2. IsFiniteSet(Holding)
    BY OpenersFinite, FS_Subset DEF Holding
  <1>3. /\ IsFiniteSet(Holding \ {o})
        /\ Cardinality(Holding \ {o}) = Cardinality(Holding) - 1
    BY <1>1, <1>2, FS_RemoveElement
  <1>4. /\ Cardinality(A) \in Nat /\ Cardinality(Holding) \in Nat
        /\ Cardinality(A) <= Cardinality(Holding \ {o})
    BY <1>1, <1>2, <1>3, FS_Subset, FS_CardinalityType
  <1>5. Cardinality(Holding) <= MaxConnections
    BY DEF IInv, ReservationsExact, CapacityRespected
  <1>6. Cardinality(A) < MaxConnections
    BY <1>3, <1>4, <1>5, LimitsPositive
  <1> QED BY <1>1, <1>6 DEF A

\* The instance counts the way the runtime's module does.
LEMMA SameCount == \A S : Admission!Cardinality(S) = Cardinality(S)
  BY DEF Cardinality, Admission!Cardinality

\* Every step of the runtime is a step of the abstract admission or none.
LEMMA AdmissionStep ==
    IInv /\ [Next]_vars => [Admission!Next]_(Admission!admissionVars)
  <1> SUFFICES ASSUME IInv, [Next]_vars
               PROVE  Admission!Next \/ UNCHANGED Admission!admissionVars
    OBVIOUS
  <1> USE DEF Goto
  <1>0. TypeOK /\ pc \in [Openers -> Pcs]
    BY DEF IInv, TypeOK, Pcs
  <1>1. CASE RequestShutdown
    <2>1. Admission!Stop
      BY <1>1 DEF RequestShutdown, Admission!Stop, Granted, ConnectedAs, UsedIds
    <2> QED BY <2>1 DEF Admission!Next
  <1>2. ASSUME NEW o \in Openers, TryOpen(o) \/ Reserve(o) \/ ReleaseReserved(o)
        PROVE  UNCHANGED Admission!admissionVars
    <2>1. PICK l \in {"idle", "checked", "reserved"} : pc' = [pc EXCEPT ![o] = l]
      BY <1>2 DEF TryOpen, Reserve, ReleaseReserved
    <2>2. /\ pc[o] \in {"idle", "checked", "releasing"}
          /\ UNCHANGED <<shutdownRequested, nextGatewayId, gatewayId>>
      BY <1>2 DEF TryOpen, Reserve, ReleaseReserved
    <2>3. UNCHANGED Granted /\ UNCHANGED ConnectedAs
      BY <1>0, <2>1, <2>2 DEF Granted, ConnectedAs
    <2> QED BY <2>2, <2>3 DEF Admission!admissionVars, UsedIds
  <1>3. ASSUME NEW o \in Openers, Recheck(o)
        PROVE  Admission!Next \/ UNCHANGED Admission!admissionVars
    <2>1. /\ pc[o] = "reserved"
          /\ pc' = [pc EXCEPT ![o] = IF shutdownRequested THEN "releasing"
                                                          ELSE "allocating"]
          /\ UNCHANGED <<shutdownRequested, nextGatewayId, gatewayId>>
      BY <1>3 DEF Recheck
    <2>2. UNCHANGED ConnectedAs /\ UNCHANGED UsedIds
      BY <1>0, <2>1 DEF ConnectedAs, UsedIds
    <2>3. CASE shutdownRequested
      <3>1. UNCHANGED Granted
        BY <1>0, <2>1, <2>3 DEF Granted
      <3> QED BY <2>1, <2>2, <3>1 DEF Admission!admissionVars
    <2>4. CASE ~shutdownRequested
      <3>1. Granted' = Granted \cup {o}
        BY <1>0, <2>1, <2>4 DEF Granted
      <3>2. Admission!Grant(o)
        BY <2>1, <2>2, <2>4, <3>1, GrantWithinLimit, SameCount DEF Admission!Grant
      <3> QED BY <3>2 DEF Admission!Next
    <2> QED BY <2>3, <2>4
  <1>4. ASSUME NEW o \in Openers, Allocate(o) PROVE Admission!Next
    <2>1. /\ pc[o] = "allocating" /\ o \in Granted
          /\ nextGatewayId' = IncrementRawId(nextGatewayId)
          /\ UNCHANGED shutdownRequested
      BY <1>4 DEF Allocate, Granted
    <2>2. nextGatewayId \in 1 .. IdLimit + 1 /\ IdLimit \in Nat
      BY <1>0, LimitsPositive DEF TypeOK
    <2>3. CASE nextGatewayId <= IdLimit
      <3>1. /\ gatewayId' = [gatewayId EXCEPT ![o] = nextGatewayId]
            /\ pc' = [pc EXCEPT ![o] = "open"]
        BY <1>4, <2>3 DEF Allocate
      <3>2. Granted' = Granted \ {o}
        BY <1>0, <2>1, <3>1 DEF Granted
      <3>3. ConnectedAs' = [ConnectedAs EXCEPT ![o] = nextGatewayId]
        BY <1>0, <3>1 DEF ConnectedAs, TypeOK
      <3>4. /\ nextGatewayId \in 1 .. IdLimit /\ nextGatewayId \notin UsedIds
            /\ UsedIds' = UsedIds \cup {nextGatewayId}
        <4>1. /\ nextGatewayId' = nextGatewayId + 1
              /\ nextGatewayId \in 1 .. IdLimit /\ nextGatewayId \notin UsedIds
          BY <2>1, <2>2, <2>3 DEF UsedIds, IncrementRawId
        <4>2. \A i \in 1 .. IdLimit :
                 i < nextGatewayId + 1 <=> i < nextGatewayId \/ i = nextGatewayId
          BY <2>2
        <4> QED BY <4>1, <4>2 DEF UsedIds
      <3>5. Admission!Admit(o, nextGatewayId)
        BY <2>1, <3>2, <3>3, <3>4 DEF Admission!Admit
      <3> QED BY <3>4, <3>5 DEF Admission!Next
    <2>4. CASE nextGatewayId > IdLimit
      <3>1. UNCHANGED gatewayId /\ pc' = [pc EXCEPT ![o] = "releasing"]
        BY <1>4, <2>2, <2>4 DEF Allocate
      <3>2. Granted' = Granted \ {o}
        BY <1>0, <2>1, <3>1 DEF Granted
      <3>3. UNCHANGED ConnectedAs
        BY <1>0, <2>1, <3>1 DEF ConnectedAs
      <3>4. UsedIds = 1 .. IdLimit /\ UNCHANGED UsedIds
        BY <2>1, <2>2, <2>4 DEF UsedIds, IncrementRawId
      <3>5. Admission!Exhausted(o)
        BY <2>1, <3>2, <3>3, <3>4 DEF Admission!Exhausted
      <3> QED BY <3>5 DEF Admission!Next
    <2> QED BY <2>2, <2>3, <2>4
  <1>5. ASSUME NEW o \in Openers, DropActive(o) PROVE Admission!Next
    <2>1. /\ pc[o] = "open" /\ pc' = [pc EXCEPT ![o] = "dropped"]
          /\ UNCHANGED <<shutdownRequested, nextGatewayId, gatewayId>>
      BY <1>5 DEF DropActive
    <2>2. gatewayId[o] # 0
      BY <2>1 DEF IInv, IdsBelowCounter, Connected, ConnectedPcs
    <2>3. o \in Admission!Live
      BY <2>1, <2>2 DEF Admission!Live, ConnectedAs
    <2>4. UNCHANGED Granted /\ UNCHANGED UsedIds
      BY <1>0, <2>1 DEF Granted, UsedIds
    <2>5. ConnectedAs' = [ConnectedAs EXCEPT ![o] = 0]
      BY <1>0, <2>1 DEF ConnectedAs
    <2>6. Admission!Close(o)
      BY <2>1, <2>3, <2>4, <2>5 DEF Admission!Close
    <2> QED BY <2>6 DEF Admission!Next
  <1>6. ASSUME NEW o \in Openers, DropCount(o) PROVE UNCHANGED Admission!admissionVars
    <2>1. /\ pc[o] = "dropped" /\ pc' = [pc EXCEPT ![o] = "idle"]
          /\ gatewayId' = [gatewayId EXCEPT ![o] = 0]
          /\ UNCHANGED <<shutdownRequested, nextGatewayId>>
      BY <1>6 DEF DropCount
    <2>2. UNCHANGED Granted /\ UNCHANGED ConnectedAs
      BY <1>0, <2>1 DEF Granted, ConnectedAs, TypeOK
    <2> QED BY <2>1, <2>2 DEF Admission!admissionVars, UsedIds
  <1>7. CASE UNCHANGED vars
    BY <1>7 DEF vars, Admission!admissionVars, Granted, ConnectedAs, UsedIds
  <1> QED
    BY <1>1, <1>2, <1>3, <1>4, <1>5, <1>6, <1>7 DEF Next, OpenStep

\* The runtime implements the abstract admission: whatever the interleaving, an
\* opener is admitted in one step, before shutdown was requested, within
\* max_connections and under an id never handed out before (runtime.rs try_open
\* and Drop).
THEOREM RuntimeAdmits == Spec => AdmitsOneAtATime
  <1>1. Init => Admission!Init
    BY LimitsPositive DEF Init, Admission!Init, Granted, ConnectedAs, UsedIds
  <1> QED
    BY <1>1, AdmissionStep, Invariance, PTL DEF Spec, AdmitsOneAtATime, Admission!Spec

----------------------------------------------------------------------------
\* A step of the server is a step of the runtime, or leaves it alone.
LEMMA ServerStep == [ServerNext]_allVars => [Next]_vars
  <1> SUFFICES ASSUME [ServerNext]_allVars PROVE [Next]_vars
    OBVIOUS
  <1>1. CASE CallerStep
    BY <1>1 DEF CallerStep, ShutdownStop, ShutdownRuntime, ShutdownJoin, ingestVars, Next
  <1>2. CASE OwnerStep
    BY <1>2 DEF OwnerStep, OwnerLoop, OwnerIdle, OwnerClose, OwnerJoin, OwnerAccept,
                ingestVars, Next
  <1>3. ASSUME NEW w \in Workers, WorkerStep(w) PROVE [Next]_vars
    <2>1. CASE Opening(w) \/ Ending(w)
      BY <2>1 DEF Opening, Ending, Workers, ingestVars, Next
    <2> QED BY <1>3, <2>1 DEF WorkerStep, LoopCheck, ReadEnds, ReadFrames, DecoderEmpty,
          BadFrame, HelloFrame, Welcome, WelcomeFails, HeartbeatFrame, ForwardedFrame,
          Delivered, ingestVars
  <1>4. CASE UNCHANGED allVars
    BY <1>4 DEF allVars, ingestVars
  <1> QED BY <1>1, <1>2, <1>3, <1>4 DEF ServerNext

\* The server implements the runtime's specification: whatever its owner, its
\* workers and its caller interleave, admission and release are steps of
\* try_open, Drop and request_shutdown (server.rs, connection.rs).
THEOREM ServerImplements == ServerSpec => ImplementsIngest
  <1>1. ServerInit => Init
    BY DEF ServerInit
  <1> QED BY <1>1, ServerStep, PTL DEF ServerSpec, ImplementsIngest, Spec

\* And so does the TCP server that drives it.
THEOREM ServerAdmits == ServerSpec => AdmitsOneAtATime
  BY ServerImplements, RuntimeAdmits DEF ImplementsIngest

\* Where a worker is in its loop says where it is in try_open or Drop, and the
\* owner has the handle of every thread that runs.
AwayIo == {"none", "finished"}
LoopIo == {"reading", "blocked", "decoding", "delivering"}
WorkerAgrees(w) ==
    /\ io[w] \in AwayIo => pc[w] = "idle"
    /\ io[w] \in LoopIo => pc[w] = IF welcomed[w] THEN "open" ELSE "idle"
    /\ io[w] = "delivering" => welcomed[w]
    /\ io[w] = "opening" => pc[w] \notin ConnectedPcs
    /\ io[w] = "welcoming" => pc[w] = "open"
    /\ io[w] = "ending" => pc[w] \in {"idle"} \cup ConnectedPcs
    /\ io[w] \notin AwayIo => w \in handles
IoLabels == AwayIo \cup LoopIo \cup {"opening", "welcoming", "ending"}
ServerInv ==
    /\ io \in [Workers -> IoLabels]
    /\ welcomed \in [Workers -> BOOLEAN]
    /\ \A w \in Workers : WorkerAgrees(w)
    /\ owner = "done" => \A w \in Workers : io[w] \in AwayIo
    /\ caller = "returned" => owner = "done"

\* A step of one worker, which runs, and so the owner has not joined it.
LEMMA WorkerKeeps ==
    ASSUME ServerInv, NEW w \in Workers, io[w] \notin AwayIo,
           UNCHANGED serverVars, io' \in [Workers -> IoLabels], welcomed' \in [Workers -> BOOLEAN],
           \A v \in Workers \ {w} : io'[v] = io[v] /\ welcomed'[v] = welcomed[v] /\ pc'[v] = pc[v],
           WorkerAgrees(w)'
    PROVE  ServerInv'
  <1>1. owner # "done" /\ UNCHANGED <<owner, caller, handles>>
    BY DEF ServerInv, serverVars
  <1>2. \A v \in Workers \ {w} : WorkerAgrees(v)'
    BY <1>1 DEF ServerInv, WorkerAgrees
  <1> QED BY <1>1, <1>2 DEF ServerInv

\* A worker that moves on outside try_open and Drop.
LEMMA MoveKeeps ==
    ASSUME ServerInv, NEW w \in Workers, NEW l \in IoLabels, MoveTo(w, l), io[w] \notin AwayIo,
           UNCHANGED <<pc, serverVars, welcomed>>,
           l # "finished", l # "none", l # "welcoming",
           l = "delivering" => welcomed[w],
           l \in LoopIo => io[w] \in LoopIo,
           l = "opening" => io[w] \in LoopIo /\ ~welcomed[w],
           io[w] # "opening"
    PROVE  ServerInv'
  <1>1. io' \in [Workers -> IoLabels] /\ io'[w] = l /\ \A v \in Workers \ {w} : io'[v] = io[v]
    BY DEF MoveTo, ServerInv
  <1>2. WorkerAgrees(w)
    BY DEF ServerInv
  <1>3. WorkerAgrees(w)'
    <2>0. UNCHANGED handles
      BY DEF serverVars
    <2>1. CASE l \in LoopIo
      BY <1>1, <1>2, <2>0, <2>1 DEF WorkerAgrees, AwayIo, LoopIo
    <2>2. CASE l = "opening"
      BY <1>1, <1>2, <2>0, <2>2 DEF WorkerAgrees, AwayIo, LoopIo, ConnectedPcs
    <2>3. CASE l = "ending"
      BY <1>1, <1>2, <2>0, <2>3 DEF WorkerAgrees, AwayIo, LoopIo, IoLabels, ConnectedPcs, ServerInv
    <2> QED BY <2>1, <2>2, <2>3 DEF IoLabels, AwayIo
  <1>4. welcomed \in [Workers -> BOOLEAN]
    BY DEF ServerInv
  <1> QED BY <1>1, <1>3, <1>4, WorkerKeeps

\* The steps of a worker (connection.rs).
LEMMA WorkerStepKeeps ==
    ASSUME TypeOK, ServerInv, NEW w \in Workers, WorkerStep(w)
    PROVE  ServerInv'
  <1>0. pc \in [Workers -> Pcs] /\ welcomed \in [Workers -> BOOLEAN] /\ WorkerAgrees(w)
    BY DEF TypeOK, ServerInv, Workers, Pcs, HoldingPcs
  <1>1. CASE LoopCheck(w) \/ ReadEnds(w) \/ (\E n \in 0 .. MaxChunk : ReadFrames(w, n))
    BY <1>1, MoveKeeps DEF LoopCheck, ReadEnds, ReadFrames, ingestVars, vars,
                           AwayIo, LoopIo, IoLabels
  <1>2. CASE DecoderEmpty(w) \/ BadFrame(w) \/ HelloFrame(w)
    BY <1>2, MoveKeeps DEF DecoderEmpty, BadFrame, HelloFrame, TakeFrame, ingestVars, vars,
                           AwayIo, LoopIo, IoLabels
  <1>3. CASE WelcomeFails(w) \/ ForwardedFrame(w) \/ Delivered(w)
    BY <1>3, MoveKeeps DEF WelcomeFails, ForwardedFrame, Delivered, TakeFrame, ingestVars, vars,
                           AwayIo, LoopIo, IoLabels
  <1>4. CASE HeartbeatFrame(w)
    <2>1. UNCHANGED <<pc, serverVars, io, welcomed>>
      BY <1>4 DEF HeartbeatFrame, ingestVars, vars
    <2> QED BY <2>1 DEF ServerInv, WorkerAgrees, serverVars
  <1>5. CASE Welcome(w)
    <2>1. /\ io' \in [Workers -> IoLabels] /\ io'[w] = "decoding" /\ io[w] = "welcoming"
          /\ welcomed' \in [Workers -> BOOLEAN] /\ welcomed'[w] /\ UNCHANGED <<pc, serverVars>>
          /\ \A v \in Workers \ {w} : io'[v] = io[v] /\ welcomed'[v] = welcomed[v]
      BY <1>0, <1>5 DEF Welcome, MoveTo, ServerInv, IoLabels, LoopIo, ingestVars, vars
    <2>2. WorkerAgrees(w)'
      BY <1>0, <2>1 DEF WorkerAgrees, AwayIo, LoopIo, serverVars
    <2> QED BY <2>1, <2>2, WorkerKeeps DEF AwayIo
  <1>6. CASE Opening(w)
    <2>1. /\ io[w] = "opening" /\ UNCHANGED <<serverVars, welcomed>>
          /\ io' = [io EXCEPT ![w] = CASE pc'[w] = "open" -> "welcoming"
                                       [] pc'[w] = "idle" -> "ending"
                                       [] OTHER -> "opening"]
      BY <1>6 DEF Opening, MoveTo
    <2>2. /\ \A v \in Workers \ {w} : pc'[v] = pc[v]
          /\ pc'[w] # "dropped"
      BY <1>0, <1>6 DEF Opening, OpenStep, TryOpen, Reserve, Recheck, Allocate,
                        ReleaseReserved, Goto, Workers
    <2>3. /\ io' \in [Workers -> IoLabels] /\ \A v \in Workers \ {w} : io'[v] = io[v]
          /\ \/ pc'[w] = "open" /\ io'[w] = "welcoming"
             \/ pc'[w] = "idle" /\ io'[w] = "ending"
             \/ pc'[w] \notin {"open", "idle"} /\ io'[w] = "opening"
      BY <2>1 DEF ServerInv, IoLabels
    <2>4. WorkerAgrees(w)'
      BY <1>0, <2>1, <2>2, <2>3 DEF WorkerAgrees, AwayIo, LoopIo, ConnectedPcs, serverVars
    <2> QED BY <1>0, <2>1, <2>2, <2>3, <2>4, WorkerKeeps DEF AwayIo
  <1>7. CASE Ending(w)
    <2>1. io[w] = "ending" /\ UNCHANGED <<serverVars, welcomed>>
      BY <1>7 DEF Ending
    <2>2. /\ io' \in [Workers -> IoLabels] /\ \A v \in Workers \ {w} : io'[v] = io[v]
          /\ \A v \in Workers \ {w} : pc'[v] = pc[v]
          /\ \/ io'[w] = "ending" /\ pc'[w] \in {"idle", "dropped"}
             \/ io'[w] = "finished" /\ pc'[w] = "idle"
      BY <1>0, <1>7 DEF Ending, DropActive, DropCount, Goto, MoveTo, ServerInv, IoLabels, AwayIo,
                        Workers, ingestVars, vars
    <2>3. WorkerAgrees(w)'
      BY <1>0, <2>1, <2>2 DEF WorkerAgrees, AwayIo, LoopIo, ConnectedPcs, serverVars
    <2> QED BY <1>0, <2>1, <2>2, <2>3, WorkerKeeps DEF AwayIo
  <1> QED BY <1>1, <1>2, <1>3, <1>4, <1>5, <1>6, <1>7 DEF WorkerStep

\* The steps of the owner and of the caller of shutdown (server.rs).
LEMMA OwnerCallerKeeps ==
    ASSUME TypeOK, ServerInv, OwnerStep \/ CallerStep \/ UNCHANGED allVars
    PROVE  ServerInv'
  <1>1. CASE OwnerLoop
    <2>0. UNCHANGED <<pc, caller, welcomed>>
      BY <1>1 DEF OwnerLoop, ingestVars, vars
    <2>1. CASE owner' = "closing" /\ UNCHANGED <<handles, io>>
      BY <1>1, <2>0, <2>1 DEF ServerInv, WorkerAgrees, OwnerLoop
    <2>2. CASE /\ owner = "loop" /\ owner' = "accept"
               /\ handles' = handles \ {w \in handles : io[w] = "finished"}
               /\ io' = [w \in Workers |-> IF w \in {v \in handles : io[v] = "finished"}
                                             THEN "none" ELSE io[w]]
      <3>1. \A w \in Workers : \/ io'[w] = io[w] /\ (w \in handles => w \in handles' \/ io[w] \in AwayIo)
                               \/ io[w] = "finished" /\ io'[w] = "none"
        BY <2>2 DEF AwayIo
      <3>2. io' \in [Workers -> IoLabels]
        BY <2>2 DEF ServerInv, IoLabels, AwayIo
      <3>3. \A w \in Workers : WorkerAgrees(w)'
        BY <2>0, <3>1 DEF ServerInv, WorkerAgrees, AwayIo, LoopIo
      <3> QED BY <2>0, <2>2, <3>2, <3>3 DEF ServerInv
    <2> QED BY <1>1, <2>1, <2>2 DEF OwnerLoop
  <1>2. ASSUME NEW w \in Workers, OwnerAccept(w) PROVE ServerInv'
    <2>0. UNCHANGED <<pc, caller>> /\ owner = "accept" /\ owner' = "loop" /\ io[w] = "none"
      BY <1>2 DEF OwnerAccept, ingestVars, vars
    <2>1. CASE UNCHANGED <<handles, workerVars>>
      BY <2>0, <2>1 DEF ServerInv, WorkerAgrees, workerVars
    <2>2. CASE /\ handles' = handles \cup {w} /\ io' = [io EXCEPT ![w] = "reading"]
               /\ welcomed' = [welcomed EXCEPT ![w] = FALSE]
      <3>1. /\ io' \in [Workers -> IoLabels] /\ welcomed' \in [Workers -> BOOLEAN]
            /\ io'[w] = "reading" /\ ~welcomed'[w] /\ w \in handles'
            /\ \A v \in Workers \ {w} : /\ io'[v] = io[v] /\ welcomed'[v] = welcomed[v]
                                        /\ v \in handles => v \in handles'
        BY <2>2 DEF ServerInv, IoLabels, LoopIo
      <3>2. \A v \in Workers : WorkerAgrees(v)'
        BY <2>0, <3>1 DEF ServerInv, WorkerAgrees, AwayIo, LoopIo
      <3> QED BY <2>0, <3>1, <3>2 DEF ServerInv
    <2> QED BY <1>2, <2>1, <2>2 DEF OwnerAccept, MoveTo
  <1>3. CASE OwnerIdle \/ OwnerClose
    <2>1. UNCHANGED <<pc, caller, handles, io, welcomed>> /\ owner # "done" /\ owner' # "done"
      BY <1>3 DEF OwnerIdle, OwnerClose, RequestShutdown, ingestVars, vars, workerVars
    <2> QED BY <2>1 DEF ServerInv, WorkerAgrees
  <1>4. CASE OwnerJoin
    <2>1. /\ UNCHANGED <<pc, caller, io, welcomed>> /\ owner' = "done"
          /\ \A w \in handles : io[w] = "finished"
      BY <1>4 DEF OwnerJoin, ingestVars, vars, workerVars
    <2>2. \A w \in Workers : io[w] \in AwayIo
      BY <2>1 DEF ServerInv, WorkerAgrees, AwayIo
    <2>3. \A w \in Workers : WorkerAgrees(w)'
      BY <2>1, <2>2 DEF ServerInv, WorkerAgrees
    <2> QED BY <2>1, <2>2, <2>3 DEF ServerInv
  <1>5. CASE CallerStep
    <2>1. /\ UNCHANGED <<pc, owner, handles, io, welcomed>>
          /\ caller' = "returned" => owner = "done"
      BY <1>5 DEF CallerStep, ShutdownStop, ShutdownRuntime, ShutdownJoin, RequestShutdown,
                  ingestVars, vars, workerVars
    <2> QED BY <2>1 DEF ServerInv, WorkerAgrees
  <1>6. CASE UNCHANGED allVars
    BY <1>6 DEF allVars, ingestVars, vars, serverVars, workerVars, ServerInv, WorkerAgrees
  <1> QED BY <1>1, <1>2, <1>3, <1>4, <1>5, <1>6 DEF OwnerStep

\* The invariant of the server is inductive.
LEMMA ServerInvariance == ServerSpec => []ServerInv
  <1>1. ServerInit => ServerInv
    BY DEF ServerInit, Init, ServerInv, WorkerAgrees, IoLabels, AwayIo, LoopIo, Workers
  <1>2. TypeOK /\ ServerInv /\ [ServerNext]_allVars => ServerInv'
    BY WorkerStepKeeps, OwnerCallerKeeps DEF ServerNext
  <1>3. ServerSpec => []TypeOK
    BY ServerImplements, TypeCorrect DEF ImplementsIngest
  <1> QED BY <1>1, <1>2, <1>3, PTL DEF ServerSpec

\* When shutdown has returned, every reservation has been given back and every
\* accepted connection is counted as closed: no thread the owner forgot still
\* holds one (server.rs, shutdown and join_connections).
THEOREM ShutdownDrains ==
    ServerSpec => [](caller = "returned" => active = 0 /\ accepted = closed)
  <1>1. IInv /\ ServerInv => (caller = "returned" => active = 0 /\ accepted = closed)
    <2> SUFFICES ASSUME IInv, ServerInv, caller = "returned"
                 PROVE  active = 0 /\ accepted = closed
      OBVIOUS
    <2>1. \A o \in Openers : pc[o] = "idle"
      BY DEF ServerInv, WorkerAgrees, Workers
    <2>2. Holding = {} /\ Connected = {}
      BY <2>1 DEF Holding, Connected, HoldingPcs, ConnectedPcs
    <2>3. active = 0 /\ accepted = closed + 0 /\ closed \in Nat
      BY <2>2, FS_EmptySet DEF IInv, ReservationsExact, AcceptedAccounted, TypeOK
    <2> QED BY <2>3
  <1>2. ServerSpec => []IInv
    BY ServerImplements, Invariance DEF ImplementsIngest
  <1> QED BY <1>1, <1>2, ServerInvariance, PTL

\* The sink is only called for a gateway that was admitted and is still
\* connected: a worker that delivers has an id (connection.rs, handle_frame).
THEOREM DeliversForAdmitted ==
    ServerSpec => [](\A w \in Workers : io[w] = "delivering" => gatewayId[w] # 0)
  <1>1. IInv /\ ServerInv => (\A w \in Workers : io[w] = "delivering" => gatewayId[w] # 0)
    BY DEF IInv, IdsBelowCounter, ServerInv, WorkerAgrees, LoopIo, Connected, ConnectedPcs, Workers
  <1>2. ServerSpec => []IInv
    BY ServerImplements, Invariance DEF ImplementsIngest
  <1> QED BY <1>1, <1>2, ServerInvariance, PTL

=============================================================================
