----------------------- MODULE TraceRegistry_proofs -----------------------
(***************************************************************************)
(* Proofs about TraceRegistry for every set of processes and every bound   *)
(* on the number of traces.                                                *)
(*                                                                         *)
(* All registry operations but create and forget work on one entry, so the *)
(* argument is made once for entries: Sound is preserved by each operation *)
(* of TraceModel, and each operation makes only the steps that Evolves     *)
(* allows.  The invariant of the registry is Sound of every entry.         *)
(***************************************************************************)
EXTENDS TraceRegistry, TLAPS

\* What holds of every entry of the registry, present or absent.
Sound(e) ==
    /\ e \in Entries
    /\ e.life # "Absent" => IsMember(e, e.root)
    /\ e.life \in {"Draining", "Completed", "Exited"} => ~Open(e.members[e.root])
    /\ e.life = "Exited" => e.members[e.root].state = "Exited"

\* What one operation may do to an entry.
Evolves(e, f) ==
    /\ Sound(f)
    /\ f.life # "Absent"
    /\ e.life \in Terminal => f.life = e.life
    /\ (/\ f.life \in {"Completed", "Exited"}
        /\ e.life \notin {"Completed", "Exited"})
          => ~HasCapturableMembers(f) \/ f.degraded

IInv == TypeOK /\ \A t \in TraceIds : Sound(traces[t])

USE DEF Terminal

\* Replacing one membership keeps the shape of an entry and every other
\* membership.
LEMMA SetMemberShape ==
    ASSUME NEW e \in Entries, NEW p \in Processes, NEW m \in Memberships
    PROVE  /\ SetMember(e, p, m) \in Entries
           /\ SetMember(e, p, m).life = e.life
           /\ SetMember(e, p, m).root = e.root
           /\ SetMember(e, p, m).degraded = e.degraded
           /\ SetMember(e, p, m).members[p] = m
           /\ \A q \in Processes \ {p} :
                 SetMember(e, p, m).members[q] = e.members[q]
BY DEF SetMember, Entries

\* Changing the lifecycle state keeps everything else.
LEMMA MoveShape ==
    ASSUME NEW e \in Entries, NEW to \in LifecycleStates
    PROVE  /\ Move(e, to).entry \in Entries
           /\ Move(e, to).entry.root = e.root
           /\ Move(e, to).entry.members = e.members
           /\ Move(e, to).entry.degraded = e.degraded
           /\ Move(e, to).entry.life \in {e.life, to}
           /\ <<e.life, to>> \notin Allowed => Move(e, to).entry = e
BY DEF Move, Entries, Ok, Err

\* reconcile_lifecycle changes nothing but the lifecycle state, and that only
\* along the transitions its tests select.
LEMMA ReconcileEvolves ==
    ASSUME NEW e \in Entries, IsMember(e, e.root), e.life # "Absent",
           e.life \in {"Completed", "Exited"} => ~Open(e.members[e.root]),
           e.life = "Draining" => ~Open(e.members[e.root]),
           e.life = "Exited" => e.members[e.root].state = "Exited"
    PROVE  Evolves(e, ReconcileLifecycle(e).entry)
<1> DEFINE f == ReconcileLifecycle(e).entry
           r == e.members[e.root]
<1>r. e.root \in Processes /\ r \in Memberships
  BY DEF Entries
<1>1. CASE e.life \in Terminal \/ (r.capture /\ r.state # "Exited")
  <2>1. f = e
    BY <1>1 DEF ReconcileLifecycle, Ok
  <2> QED
    BY <2>1, <1>1, <1>r DEF Evolves, Sound, Open
<1>2. CASE /\ ~(e.life \in Terminal \/ (r.capture /\ r.state # "Exited"))
           /\ HasCapturableMembers(e)
  <2>0. ~Open(r)
    BY <1>2, <1>r DEF Open, Memberships
  <2>1. f = IF e.life = "Active" THEN Move(e, "Draining").entry ELSE e
    BY <1>2 DEF ReconcileLifecycle, Ok
  <2>a. "Draining" \in LifecycleStates
    BY DEF LifecycleStates
  <2> HIDE DEF f
  <2>2. /\ f \in Entries /\ f.root = e.root /\ f.members = e.members
        /\ f.life \in {e.life, "Draining"}
    <3>1. CASE e.life = "Active"
      BY <2>1, <2>a, <3>1, MoveShape
    <3>2. CASE e.life # "Active"
      BY <2>1, <3>2
    <3> QED
      BY <3>1, <3>2
  <2> USE DEF f
  <2> QED
    BY <1>2, <2>0, <2>2 DEF Evolves, Sound, IsMember
<1>3. CASE /\ ~(e.life \in Terminal \/ (r.capture /\ r.state # "Exited"))
           /\ ~HasCapturableMembers(e)
  <2> DEFINE to == IF r.state = "Exited" THEN "Exited" ELSE "Completed"
  <2>1. f = Move(e, to).entry
    BY <1>3 DEF ReconcileLifecycle
  <2>a. to \in LifecycleStates
    BY DEF LifecycleStates
  <2> HIDE DEF to, f
  <2>2. /\ f \in Entries /\ f.root = e.root /\ f.members = e.members
        /\ f.life \in {e.life, to}
    BY <2>1, <2>a, MoveShape
  <2> USE DEF to, f
  <2>3. ~Open(r)
    BY <1>3, <1>r DEF HasCapturableMembers
  <2>4. ~HasCapturableMembers(f)
    BY <1>3, <2>2 DEF HasCapturableMembers
  <2> QED
    BY <1>3, <2>2, <2>3, <2>4 DEF Evolves, Sound, IsMember
<1> QED
  BY <1>1, <1>2, <1>3

\* track_remove_root.
LEMMA RemoveRootEvolves ==
    ASSUME NEW e, Sound(e), e.life # "Absent"
    PROVE  Evolves(e, TrackRemoveRoot(e).entry)
<1> DEFINE m == [e.members[e.root] EXCEPT !.capture = FALSE, !.propagate = FALSE]
           g == SetMember(e, e.root, m)
<1>1. e \in Entries /\ e.root \in Processes /\ e.members[e.root] \in Memberships
  BY DEF Sound, Entries
<1>2. /\ m \in Memberships /\ ~m.capture
      /\ m.state = e.members[e.root].state
  BY <1>1 DEF Memberships
<1>3. /\ g \in Entries /\ g.life = e.life /\ g.root = e.root
      /\ g.members[g.root] = m
  BY <1>1, <1>2, SetMemberShape
<1>4. Evolves(g, ReconcileLifecycle(g).entry)
  <2>1. IsMember(g, g.root) /\ ~Open(g.members[g.root])
    BY <1>2, <1>3 DEF Sound, IsMember, Open
  <2>2. e.life = "Exited" => g.members[g.root].state = "Exited"
    BY <1>2, <1>3 DEF Sound
  <2> QED
    BY <1>3, <2>1, <2>2, ReconcileEvolves
<1>5. TrackRemoveRoot(e) = ReconcileLifecycle(g)
  BY DEF TrackRemoveRoot
<1> QED
  BY <1>3, <1>4, <1>5 DEF Evolves

\* mark_process_exited.
LEMMA ExitEvolves ==
    ASSUME NEW e, Sound(e), e.life # "Absent", NEW p \in Processes
    PROVE  Evolves(e, MarkProcessExited(e, p).entry)
<1> DEFINE m == [e.members[p] EXCEPT !.state = "Exited"]
           g == SetMember(e, p, m)
<1>1. /\ e \in Entries /\ e.root \in Processes
      /\ e.members[p] \in Memberships /\ e.members[e.root] \in Memberships
  BY DEF Sound, Entries
<1>2. m \in Memberships /\ m.state = "Exited" /\ ~Open(m)
  BY <1>1 DEF Memberships, MembershipStates, Open
<1>3. /\ g \in Entries /\ g.life = e.life /\ g.root = e.root
      /\ g.members[g.root] \in {m, e.members[e.root]}
  <2> HIDE DEF m, g
  <2>1. /\ g \in Entries /\ g.life = e.life /\ g.root = e.root
        /\ g.members[p] = m
        /\ \A q \in Processes \ {p} : g.members[q] = e.members[q]
    BY <1>1, <1>2, SetMemberShape DEF g
  <2>2. CASE e.root = p
    BY <2>1, <2>2
  <2>3. CASE e.root # p
    BY <1>1, <2>1, <2>3
  <2> QED
    BY <2>2, <2>3
<1>4. Evolves(g, ReconcileLifecycle(g).entry)
  BY <1>2, <1>3, ReconcileEvolves DEF Sound, IsMember
<1>5. CASE IsMember(e, p)
  BY <1>3, <1>4, <1>5 DEF MarkProcessExited, Evolves
<1>6. CASE ~IsMember(e, p)
  BY <1>6 DEF MarkProcessExited, Evolves, Err
<1> QED
  BY <1>5, <1>6

\* insert_membership, inherit_process and insert_observed_child of a process
\* other than the root.
LEMMA InsertEvolves ==
    ASSUME NEW e, Sound(e), e.life # "Absent",
           NEW p \in Processes, p # e.root
    PROVE  Evolves(e, InsertMembership(e, p))
<1>1. e \in Entries /\ e.root \in Processes
  BY DEF Sound, Entries
<1>2. NewMembership \in Memberships
  BY DEF NewMembership, Memberships, MembershipStates
<1>3. /\ InsertMembership(e, p) \in Entries
      /\ InsertMembership(e, p).life = e.life
      /\ InsertMembership(e, p).root = e.root
      /\ InsertMembership(e, p).members[e.root] = e.members[e.root]
  BY <1>1, <1>2, SetMemberShape DEF InsertMembership
<1> QED
  BY <1>3 DEF Evolves, Sound, IsMember

\* inherit_process and insert_observed_child change nothing or insert.
LEMMA InheritEvolves ==
    ASSUME NEW e, Sound(e), e.life # "Absent", NEW p \in Processes,
           NEW q \in Processes, q # e.root
    PROVE  /\ Evolves(e, InheritProcess(e, p, q).entry)
           /\ Evolves(e, InsertObservedChild(e, p, q).entry)
<1>1. Evolves(e, InsertMembership(e, q))
  BY InsertEvolves
<1>2. Evolves(e, e)
  BY DEF Evolves
<1> HIDE DEF Evolves
<1> QED
  BY <1>1, <1>2 DEF InheritProcess, InsertObservedChild, Ok, Err

\* activate_trace of a trace that is still starting.
LEMMA ActivateEvolves ==
    ASSUME NEW e, Sound(e), e.life = "Starting"
    PROVE  Evolves(e, Activate(e).entry)
<1> DEFINE ms == [p \in Processes |-> IF IsMember(e, p)
                                   THEN [e.members[p] EXCEPT !.state = "Active"]
                                   ELSE e.members[p]]
           g == [e EXCEPT !.members = ms]
<1>1. e \in Entries /\ e.root \in Processes
  BY DEF Sound, Entries
<1>2. ASSUME NEW p \in Processes
      PROVE  ms[p] \in Memberships
  BY <1>1 DEF Entries, Memberships, MembershipStates
<1>3. ms \in [Processes -> Memberships]
  BY <1>2
<1>4. ms[e.root].state = "Active"
  <2>1. e.members[e.root] \in Memberships
    BY <1>1 DEF Entries
  <2> QED
    BY <1>1, <2>1 DEF Sound, Memberships
<1>5. /\ g \in Entries /\ g.life = e.life /\ g.root = e.root /\ g.members = ms
  <2> HIDE DEF ms
  <2> QED BY <1>1, <1>3 DEF Entries
<1>6. "Active" \in LifecycleStates
  BY DEF LifecycleStates
<1>7. Activate(e) = Move(g, "Active")
  BY DEF Activate
<1> HIDE DEF g, ms
<1> DEFINE f == Activate(e).entry
<1>f. f = Move(g, "Active").entry
  BY <1>7
<1> HIDE DEF f
<1>8. /\ f \in Entries /\ f.root = e.root /\ f.members = ms
      /\ f.life \in {"Starting", "Active"}
  BY <1>5, <1>6, <1>f, MoveShape
<1>9. Evolves(e, f)
  BY <1>4, <1>8 DEF Evolves, Sound, IsMember
<1> QED
  BY <1>9 DEF f

\* mark_degraded.
LEMMA DegradeEvolves ==
    ASSUME NEW e, Sound(e), e.life # "Absent"
    PROVE  /\ Evolves(e, Degrade(e))
           /\ Degrade(e).degraded /\ Degrade(e).life = e.life
           /\ Degrade(e).members = e.members /\ Degrade(e).root = e.root
<1>1. /\ Degrade(e) \in Entries /\ Degrade(e).life = e.life
      /\ Degrade(e).root = e.root /\ Degrade(e).members = e.members
      /\ Degrade(e).degraded
  BY DEF Degrade, Sound, Entries
<1> QED
  BY <1>1 DEF Evolves, Sound, IsMember

\* fail_trace.
LEMMA FailEvolves ==
    ASSUME NEW e, Sound(e), e.life # "Absent"
    PROVE  Evolves(e, FailTrace(e).entry)
<1> DEFINE f == FailTrace(e).entry
<1>1. e \in Entries
  BY DEF Sound
<1>2. "Failed" \in LifecycleStates
  BY DEF LifecycleStates
<1>3. /\ f \in Entries /\ f.root = e.root /\ f.members = e.members
      /\ f.life \in {e.life, "Failed"}
      /\ e.life \in Terminal => f = e
  BY <1>1, <1>2, MoveShape DEF FailTrace, Allowed
<1> HIDE DEF f
<1>4. Evolves(e, f)
  BY <1>3 DEF Evolves, Sound, IsMember
<1> QED
  BY <1>4 DEF f

\* complete_after_resource_barrier.
LEMMA CompleteEvolves ==
    ASSUME NEW e, Sound(e), e.life # "Absent"
    PROVE  Evolves(e, CompleteAfterResourceBarrier(e).entry)
<1> DEFINE g == IF HasCapturableMembers(e) THEN Degrade(e) ELSE e
           f == CompleteAfterResourceBarrier(e).entry
<1>1. /\ Sound(g) /\ g \in Entries /\ g.life = e.life /\ g.root = e.root
      /\ g.members = e.members
      /\ HasCapturableMembers(e) => g.degraded
  BY DegradeEvolves DEF Evolves, Sound
<1>2. "Completed" \in LifecycleStates
  BY DEF LifecycleStates
<1>3. f = IF e.life = "Draining" THEN Move(g, "Completed").entry ELSE g
  BY DEF CompleteAfterResourceBarrier, Ok, Err
<1> HIDE DEF f, g
<1>4. /\ f \in Entries /\ f.root = e.root /\ f.members = e.members
      /\ f.degraded = g.degraded
      /\ f.life = e.life \/ (e.life = "Draining" /\ f.life = "Completed")
  <2>1. CASE e.life = "Draining"
    BY <1>1, <1>2, <1>3, <2>1, MoveShape
  <2>2. CASE e.life # "Draining"
    BY <1>1, <1>3, <2>2
  <2> QED
    BY <2>1, <2>2
<1>5. HasCapturableMembers(f) => f.degraded
  BY <1>1, <1>4 DEF HasCapturableMembers
<1>6. Evolves(e, f)
  BY <1>4, <1>5 DEF Evolves, Sound, IsMember
<1> QED
  BY <1>6 DEF f

\* Every call of the registry other than create and forget.
OneEntryStep ==
    \E t \in TraceIds :
        /\ Present(t)
        /\ nextTraceId' = nextTraceId
        /\ \E f : Evolves(traces[t], f) /\ Put(t, f)

\* Every call on a registered trace evolves that one entry.
LEMMA CallsEvolve ==
    ASSUME IInv, NEW t \in TraceIds,
           \/ ActivateTrace(t) \/ RemoveRoot(t) \/ MarkDegraded(t)
           \/ Fail(t) \/ Complete(t)
           \/ \E p \in Processes : InsertMember(t, p) \/ ProcessExited(t, p)
           \/ \E p, q \in Processes : Inherit(t, p, q) \/ ObserveChild(t, p, q)
    PROVE  OneEntryStep
<1> DEFINE e == traces[t]
<1>1. Sound(e)
  BY DEF IInv
<1>2. ASSUME NEW r, Apply(t, r), Evolves(e, r.entry)
      PROVE  OneEntryStep
  <2>1. Present(t) /\ nextTraceId' = nextTraceId /\ Put(t, r.entry)
    BY <1>2 DEF Apply
  <2> HIDE DEF Evolves, Put, Present
  <2> QED
    BY <1>2, <2>1 DEF OneEntryStep
<1>3. CASE ActivateTrace(t)
  <2>1. e.life = "Starting" /\ Apply(t, Activate(e))
    BY <1>3 DEF ActivateTrace
  <2>2. Evolves(e, Activate(e).entry)
    BY <1>1, <2>1, ActivateEvolves
  <2> HIDE DEF e
  <2> QED BY <1>2, <2>1, <2>2
<1>4. CASE RemoveRoot(t)
  <2>1. e.life # "Absent" /\ Apply(t, TrackRemoveRoot(e))
    BY <1>4 DEF RemoveRoot, Apply, Present
  <2>2. Evolves(e, TrackRemoveRoot(e).entry)
    BY <1>1, <2>1, RemoveRootEvolves
  <2> HIDE DEF e
  <2> QED BY <1>2, <2>1, <2>2
<1>5. CASE MarkDegraded(t)
  <2>1. e.life # "Absent" /\ Apply(t, Ok(Degrade(e)))
    BY <1>5 DEF MarkDegraded, Apply, Present
  <2>2. Evolves(e, Ok(Degrade(e)).entry)
    BY <1>1, <2>1, DegradeEvolves DEF Ok
  <2> HIDE DEF e
  <2> QED BY <1>2, <2>1, <2>2
<1>6. CASE Fail(t)
  <2>1. e.life # "Absent" /\ Apply(t, FailTrace(e))
    BY <1>6 DEF Fail, Apply, Present
  <2>2. Evolves(e, FailTrace(e).entry)
    BY <1>1, <2>1, FailEvolves
  <2> HIDE DEF e
  <2> QED BY <1>2, <2>1, <2>2
<1>7. CASE Complete(t)
  <2>1. e.life # "Absent" /\ Apply(t, CompleteAfterResourceBarrier(e))
    BY <1>7 DEF Complete, Apply, Present
  <2>2. Evolves(e, CompleteAfterResourceBarrier(e).entry)
    BY <1>1, <2>1, CompleteEvolves
  <2> HIDE DEF e
  <2> QED BY <1>2, <2>1, <2>2
<1>8. ASSUME NEW p \in Processes, InsertMember(t, p)
      PROVE  OneEntryStep
  <2>1. /\ e.life # "Absent" /\ ~IsMember(e, p)
        /\ Apply(t, Ok(InsertMembership(e, p)))
    BY <1>8 DEF InsertMember, Apply, Present
  <2>2. p # e.root
    BY <1>1, <2>1 DEF Sound
  <2>3. Evolves(e, Ok(InsertMembership(e, p)).entry)
    BY <1>1, <2>1, <2>2, InsertEvolves DEF Ok
  <2> HIDE DEF e
  <2> QED BY <1>2, <2>1, <2>3
<1>9. ASSUME NEW p \in Processes, ProcessExited(t, p)
      PROVE  OneEntryStep
  <2>1. e.life # "Absent" /\ Apply(t, MarkProcessExited(e, p))
    BY <1>9 DEF ProcessExited, Apply, Present
  <2>2. Evolves(e, MarkProcessExited(e, p).entry)
    BY <1>1, <2>1, ExitEvolves
  <2> HIDE DEF e
  <2> QED BY <1>2, <2>1, <2>2
<1>10. ASSUME NEW p \in Processes, NEW q \in Processes,
              Inherit(t, p, q) \/ ObserveChild(t, p, q)
       PROVE  OneEntryStep
  <2>1. /\ e.life # "Absent" /\ q # e.root
        /\ \/ Apply(t, InheritProcess(e, p, q))
           \/ Apply(t, InsertObservedChild(e, p, q))
    BY <1>10 DEF Inherit, ObserveChild, Apply, Present
  <2>2. /\ Evolves(e, InheritProcess(e, p, q).entry)
        /\ Evolves(e, InsertObservedChild(e, p, q).entry)
    BY <1>1, <2>1, InheritEvolves
  <2> HIDE DEF e
  <2> QED BY <1>2, <2>1, <2>2
<1> QED
  BY <1>3, <1>4, <1>5, <1>6, <1>7, <1>8, <1>9, <1>10

\* A freshly created and an absent entry are sound.
LEMMA NewEntriesSound ==
    ASSUME NEW root \in Processes
    PROVE  /\ Sound(StartingEntry(root)) /\ StartingEntry(root).life = "Starting"
           /\ Sound(AbsentEntry(root)) /\ AbsentEntry(root).life = "Absent"
<1>1. NewMembership \in Memberships /\ NoMembership \in Memberships
  BY DEF NewMembership, NoMembership, Memberships, MembershipStates
<1>2. NewMembership.state # "None"
  BY DEF NewMembership
<1>3. StartingEntry(root) \in Entries /\ AbsentEntry(root) \in Entries
  BY <1>1 DEF StartingEntry, AbsentEntry, Entries, LifecycleStates
<1>4. /\ StartingEntry(root).life = "Starting" /\ StartingEntry(root).root = root
      /\ StartingEntry(root).members[root] = NewMembership
      /\ AbsentEntry(root).life = "Absent"
  BY DEF StartingEntry, AbsentEntry
<1> QED
  BY <1>2, <1>3, <1>4 DEF Sound, IsMember

\* The registry starts empty.
LEMMA InitIInv == Init => IInv
<1> SUFFICES ASSUME Init PROVE IInv
  OBVIOUS
<1>1. PICK root \in Processes : traces = [t \in TraceIds |-> AbsentEntry(root)]
  BY DEF Init
<1>2. \A t \in TraceIds : Sound(traces[t]) /\ traces[t] \in Entries
  BY <1>1, NewEntriesSound DEF Sound
<1>3. nextTraceId \in 1 .. MaxTraces + 1
  BY MaxTracesPositive DEF Init
<1> QED
  BY <1>1, <1>2, <1>3 DEF IInv, TypeOK

\* The registry's steps, sorted by what they do to the map.
LEMMA NextCases ==
    ASSUME IInv, [Next]_vars
    PROVE  \/ UNCHANGED vars
           \/ OneEntryStep
           \/ \E root \in Processes, created \in BOOLEAN : TrackAdd(root, created)
           \/ \E t \in TraceIds : ForgetTrace(t)
BY CallsEvolve DEF Next

\* Every step keeps the inductive invariant.
LEMMA NextIInv == IInv /\ [Next]_vars => IInv'
<1> SUFFICES ASSUME IInv, [Next]_vars PROVE IInv'
  OBVIOUS
<1>1. CASE UNCHANGED vars
  BY <1>1 DEF IInv, TypeOK, vars
<1> DEFINE Replaces(t, f) ==
      /\ t \in TraceIds /\ Sound(f) /\ traces' = [traces EXCEPT ![t] = f]
      /\ nextTraceId' \in 1 .. MaxTraces + 1
<1>2. ASSUME NEW t, NEW f, Replaces(t, f) PROVE IInv'
  <2>1. f \in Entries
    BY <1>2 DEF Sound
  <2>2. traces' \in [TraceIds -> Entries]
    BY <1>2, <2>1 DEF IInv, TypeOK
  <2>3. \A u \in TraceIds : traces'[u] = IF u = t THEN f ELSE traces[u]
    BY <1>2 DEF IInv, TypeOK
  <2>4. \A u \in TraceIds : Sound(traces'[u])
    BY <1>2, <2>3 DEF IInv
  <2> QED
    BY <1>2, <2>2, <2>4 DEF IInv, TypeOK
<1>3. CASE OneEntryStep
  <2>1. PICK t \in TraceIds : \E f : Evolves(traces[t], f) /\ Put(t, f)
    BY <1>3 DEF OneEntryStep
  <2>2. PICK f : Evolves(traces[t], f) /\ Put(t, f)
    BY <2>1
  <2>3. Replaces(t, f)
    BY <1>3, <2>2 DEF Evolves, Put, OneEntryStep, IInv, TypeOK
  <2> QED
    BY <1>2, <2>3
<1>4. ASSUME NEW root \in Processes, NEW created \in BOOLEAN, TrackAdd(root, created)
      PROVE  IInv'
  <2>1. nextTraceId \in TraceIds /\ nextTraceId' \in 1 .. MaxTraces + 1
    BY <1>4, MaxTracesPositive DEF TrackAdd, IInv, TypeOK, TraceIds
  <2>2. CASE created
    BY <1>2, <1>4, <2>1, <2>2, NewEntriesSound DEF TrackAdd, Put
  <2>3. CASE ~created
    BY <1>4, <2>1, <2>3 DEF TrackAdd, IInv, TypeOK
  <2> QED
    BY <2>2, <2>3
<1>5. ASSUME NEW t \in TraceIds, ForgetTrace(t)
      PROVE  IInv'
  <2>1. traces[t].root \in Processes
    BY DEF IInv, Sound, Entries
  <2>2. Sound(AbsentEntry(traces[t].root))
    BY <2>1, NewEntriesSound
  <2>3. Replaces(t, AbsentEntry(traces[t].root))
    BY <1>5, <2>2 DEF ForgetTrace, Put, IInv, TypeOK
  <2> QED
    BY <1>2, <2>3
<1> QED
  BY <1>1, <1>3, <1>4, <1>5, NextCases

\* The inductive invariant of the registry.
THEOREM Invariance == Spec => []IInv
  BY InitIInv, NextIInv, PTL DEF Spec

\* Whatever calls the daemon makes, a draining, completed or exited trace has
\* a root that is no longer captured.
THEOREM RootClosed == Spec => []EndedRootClosed
<1>1. IInv => EndedRootClosed
  BY DEF IInv, Sound, EndedRootClosed
<1> QED
  BY <1>1, Invariance, PTL

\* No registry call ever finds the root membership missing.
THEOREM RootKnown == Spec => []RootIsMember
<1>1. IInv => RootIsMember
  BY DEF IInv, Sound, RootIsMember, Present
<1> QED
  BY <1>1, Invariance, PTL

\* Exited is only reached by the exit of the root.
THEOREM ExitedByRoot == Spec => []ExitedMeansRootExited
<1>1. IInv => ExitedMeansRootExited
  BY DEF IInv, Sound, ExitedMeansRootExited
<1> QED
  BY <1>1, Invariance, PTL
\* Type correctness of the registry.
THEOREM TypeCorrect == Spec => []TypeOK
<1>1. IInv => TypeOK
  BY DEF IInv
<1> QED
  BY <1>1, Invariance, PTL

\* How the four kinds of step change any one entry.
LEMMA EntrySteps ==
    ASSUME IInv, [Next]_vars, NEW t \in TraceIds
    PROVE  \/ traces'[t] = traces[t]
           \/ Present(t) /\ Evolves(traces[t], traces'[t])
           \/ t = nextTraceId /\ nextTraceId' = nextTraceId + 1
               /\ traces'[t].life = "Starting"
           \/ traces[t].life \in Terminal /\ traces'[t].life = "Absent"
<1>0. traces \in [TraceIds -> Entries]
  BY DEF IInv, TypeOK
<1>1. CASE UNCHANGED vars
  BY <1>1 DEF vars
<1>2. CASE OneEntryStep
  <2>1. PICK u \in TraceIds : Present(u) /\ \E f : Evolves(traces[u], f) /\ Put(u, f)
    BY <1>2 DEF OneEntryStep
  <2>2. PICK f : Evolves(traces[u], f) /\ Put(u, f)
    BY <2>1
  <2>3. traces'[t] = IF t = u THEN f ELSE traces[t]
    BY <1>0, <2>2 DEF Put
  <2> QED
    BY <2>1, <2>2, <2>3
<1>3. ASSUME NEW root \in Processes, NEW created \in BOOLEAN, TrackAdd(root, created)
      PROVE  \/ traces'[t] = traces[t]
             \/ t = nextTraceId /\ nextTraceId' = nextTraceId + 1
                 /\ traces'[t].life = "Starting"
  <2>1. StartingEntry(root).life = "Starting"
    BY NewEntriesSound
  <2>2. CASE created
    BY <1>0, <1>3, <2>1, <2>2 DEF TrackAdd, Put
  <2>3. CASE ~created
    BY <1>3, <2>3 DEF TrackAdd
  <2> QED
    BY <2>2, <2>3
<1>4. ASSUME NEW u \in TraceIds, ForgetTrace(u)
      PROVE  \/ traces'[t] = traces[t]
             \/ traces[t].life \in Terminal /\ traces'[t].life = "Absent"
  <2>1. traces[u].root \in Processes
    BY <1>0 DEF Entries
  <2>2. AbsentEntry(traces[u].root).life = "Absent"
    BY <2>1, NewEntriesSound
  <2> QED
    BY <1>0, <1>4, <2>2 DEF ForgetTrace, Put
<1> QED
  BY <1>1, <1>2, <1>3, <1>4, NextCases

\* Ids that are not yet reserved have no entry.
FreshAbsent == \A t \in TraceIds : t >= nextTraceId => traces[t].life = "Absent"

\* An id that was not handed out has no entry.
LEMMA FreshIds == Spec => []FreshAbsent
<1>1. Init => FreshAbsent
  BY NewEntriesSound DEF Init, FreshAbsent
<1>2. ASSUME IInv, FreshAbsent, [Next]_vars, NEW t \in TraceIds, t >= nextTraceId'
      PROVE  traces'[t].life = "Absent"
  <2>1. nextTraceId' \in {nextTraceId, nextTraceId + 1} /\ nextTraceId \in Int
    BY <1>2, NextCases DEF OneEntryStep, TrackAdd, ForgetTrace, vars, IInv, TypeOK
  <2>2. t >= nextTraceId /\ (t = nextTraceId => nextTraceId' = nextTraceId)
    BY <1>2, <2>1 DEF TraceIds
  <2>3. traces[t].life = "Absent" /\ ~Present(t)
    BY <1>2, <2>2 DEF FreshAbsent, Present
  <2> QED
    BY <1>2, <2>1, <2>2, <2>3, EntrySteps
<1>3. IInv /\ FreshAbsent /\ [Next]_vars => FreshAbsent'
  BY <1>2 DEF FreshAbsent
<1> QED
  BY <1>1, <1>3, Invariance, PTL DEF Spec

\* No trace is declared Completed or Exited while one of its processes still
\* needs observation, unless it is marked degraded.
THEOREM EndsClean == Spec => EndsCleanOrDegraded
<1>1. ASSUME IInv, [Next]_vars, NEW t \in TraceIds,
             traces'[t].life \in {"Completed", "Exited"},
             traces[t].life \notin {"Completed", "Exited"}
      PROVE  ~HasCapturableMembers(traces'[t]) \/ traces'[t].degraded
  BY <1>1, EntrySteps DEF Evolves
<1>2. IInv /\ [Next]_vars
        => [\A t \in TraceIds :
              (/\ traces'[t].life \in {"Completed", "Exited"}
               /\ traces[t].life \notin {"Completed", "Exited"})
                 => ~HasCapturableMembers(traces'[t]) \/ traces'[t].degraded]_vars
  BY <1>1
<1> QED
  BY <1>2, Invariance, PTL DEF Spec, EndsCleanOrDegraded

\* A trace leaves a terminal state only by being forgotten.
THEOREM TerminalFinal == Spec => TerminalIsFinal
<1>1. ASSUME IInv, FreshAbsent, [Next]_vars, NEW t \in TraceIds,
             traces[t].life \in Terminal
      PROVE  traces'[t].life \in {traces[t].life, "Absent"}
  <2>0. t >= t /\ traces[t].life # "Absent"
    BY <1>1 DEF TraceIds
  <2>1. t # nextTraceId
    BY <1>1, <2>0 DEF FreshAbsent
  <2> QED
    BY <1>1, <2>1, EntrySteps DEF Evolves
<1>2. IInv /\ FreshAbsent /\ [Next]_vars
        => [\A t \in TraceIds :
              traces[t].life \in Terminal
                 => traces'[t].life \in {traces[t].life, "Absent"}]_vars
  BY <1>1
<1> QED
  BY <1>2, Invariance, FreshIds, PTL DEF Spec, TerminalIsFinal

\* Once reserved, an id that is gone stays gone.
THEOREM IdsFresh == Spec => IdsNotReused
<1>1. ASSUME IInv, [Next]_vars, NEW t \in TraceIds, t < nextTraceId, ~Present(t)
      PROVE  traces'[t].life = "Absent"
  <2>1. t # nextTraceId /\ traces[t].life = "Absent"
    BY <1>1 DEF Present, IInv, TypeOK, TraceIds
  <2> QED
    BY <1>1, <2>1, EntrySteps DEF Present
<1>2. IInv /\ [Next]_vars
        => [\A t \in TraceIds :
              t < nextTraceId /\ ~Present(t) => traces'[t].life = "Absent"]_vars
  BY <1>1
<1> QED
  BY <1>2, Invariance, PTL DEF Spec, IdsNotReused
=============================================================================
