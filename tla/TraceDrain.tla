----------------------------- MODULE TraceDrain -----------------------------
(***************************************************************************)
(* The drain loop of actraild: how kernel events, resource scopes,         *)
(* post-trace plugins and the control socket drive the traces of the       *)
(* registry from creation to the moment they are forgotten                 *)
(* (crates/apps/daemon/src/services: live.rs, live/batch.rs,               *)
(* live/reconcile.rs, live/shutdown.rs, post_trace/coordinator.rs,         *)
(* payload/transaction.rs, attach.rs).                                     *)
(*                                                                         *)
(* One thread runs drain_live_events_impl and, between two cycles, the     *)
(* control commands.  A cycle is cut into phases at the points where it    *)
(* reads something the rest of the machine changes meanwhile: the plugin   *)
(* completions, the cgroups, the event buffers, procfs.  An error that the *)
(* code propagates with ? ends the cycle; socket_loop.rs only logs it.     *)
(***************************************************************************)
EXTENDS Integers, Sequences, FiniteSets, SequencesExt, TraceModel

CONSTANTS
    MaxTraces,    \* bound on the trace ids a behaviour reserves
    Plugins,      \* the loaded post-trace plugin instances
    MaxInFlight,  \* PostTraceCoordinator::max_in_flight_tasks
    PerCycle,     \* finalization_traces_per_cycle
    MaxLost,      \* bound on the kernel events that are lost
    MaxData,      \* bound on the payload events that are captured
    MaxFaults,    \* bound on the storage and plugin-queue failures
    Outcomes      \* the results of an attach to be explored

ASSUME DrainBoundsValid ==
    /\ {MaxTraces, MaxInFlight, PerCycle} \subseteq Nat \ {0}
    /\ {MaxLost, MaxData, MaxFaults} \subseteq Nat

TraceIds == 1 .. MaxTraces
Tasks == TraceIds \X Plugins

VARIABLES
    \* TraceRuntime, and the traces of the store
    nextTraceId, traces, stored,
    \* the machine: processes, the BPF maps from processes to traces, the
    \* events not yet polled, and whether some were lost since the last poll
    proc, kernel, ring, newLoss, lost, sent,
    \* EbpfCollector::bindings, and its capabilities_by_trace
    bindings, caps,
    \* payload segments kept back by the gate, the reorderer and seccomp TLS
    held,
    \* StorageAttachService: the terminal traces on their way out
    pending, settled, finalized, todo, ended,
    \* ResourceMetrics: traces with a managed scope, completed barriers
    scoped, barriers,
    \* PostTraceCoordinator, the plugin workers and their answers
    barrier, admitted, running, executing, completions,
    phase, faults

registry == <<nextTraceId, traces, stored>>
machine == <<proc, kernel, ring, newLoss, lost, sent>>
collector == <<bindings, caps>>
finalization == <<pending, settled, finalized, todo, ended>>
resources == <<scoped, barriers>>
postTrace == <<barrier, admitted, running, executing, completions>>
vars == <<registry, machine, collector, held, finalization, resources,
          postTrace, phase, faults>>

Present(t) == traces[t].life # "Absent"
AbsentEntry(root) ==
    [life |-> "Absent", degraded |-> FALSE, root |-> root,
     members |-> [p \in Processes |-> NoMembership]]

Init ==
    /\ nextTraceId = 1 /\ stored = {}
    /\ LET someone == CHOOSE p \in Processes : TRUE
       IN  /\ traces = [t \in TraceIds |-> AbsentEntry(someone)]
           /\ proc = [p \in Processes |-> IF p = someone THEN "alive" ELSE "unborn"]
    /\ kernel = [p \in Processes |-> 0]
    /\ ring = <<>>
    /\ newLoss = FALSE /\ lost = 0 /\ sent = 0
    /\ bindings = {} /\ caps = {} /\ held = {}
    /\ pending = {} /\ settled = {} /\ finalized = {} /\ todo = {} /\ ended = 0
    /\ scoped = {} /\ barriers = {}
    /\ barrier = {} /\ admitted = {} /\ running = {}
    /\ executing = {} /\ completions = {}
    /\ phase = "idle" /\ faults = 0

----------------------------------------------------------------------------
\* The machine.

Records == [kind : {"fork", "exit", "data"}, trace : TraceIds,
            process : Processes, parent : Processes]

\* emit_event: the record is buffered, or dropped and counted.
Emit(record) ==
    \/ /\ ring' = Append(ring, record)
       /\ UNCHANGED <<newLoss, lost>>
    \/ /\ lost < MaxLost
       /\ lost' = lost + 1
       /\ newLoss' = TRUE
       /\ ring' = ring

Outside == <<registry, collector, held, finalization, resources, postTrace,
             phase, faults>>

\* handle_sched_process_fork: the child inherits the trace of its parent
\* before it runs.
Fork(parent, child) ==
    /\ proc[parent] = "alive" /\ proc[child] = "unborn"
    /\ proc' = [proc EXCEPT ![child] = "alive"]
    /\ kernel' = [kernel EXCEPT ![child] = kernel[parent]]
    /\ IF kernel[parent] = 0
         THEN UNCHANGED <<ring, newLoss, lost>>
         ELSE Emit([kind |-> "fork", trace |-> kernel[parent],
                    process |-> child, parent |-> parent])
    /\ UNCHANGED <<sent, Outside>>

\* handle_sched_process_exit.
Exit(p) ==
    /\ proc[p] = "alive"
    /\ proc' = [proc EXCEPT ![p] = "dead"]
    /\ kernel' = [kernel EXCEPT ![p] = 0]
    /\ IF kernel[p] = 0
         THEN UNCHANGED <<ring, newLoss, lost>>
         ELSE Emit([kind |-> "exit", trace |-> kernel[p],
                    process |-> p, parent |-> p])
    /\ UNCHANGED <<sent, Outside>>

\* A tracked process transfers data on a captured descriptor.
Transfer(p) ==
    /\ proc[p] = "alive" /\ kernel[p] # 0 /\ sent < MaxData
    /\ sent' = sent + 1
    /\ Emit([kind |-> "data", trace |-> kernel[p], process |-> p, parent |-> p])
    /\ UNCHANGED <<proc, kernel, Outside>>

\* A plugin worker finishes a task.
TaskDone(task) ==
    /\ task \in executing
    /\ executing' = executing \ {task}
    /\ completions' = completions \cup {task}
    /\ UNCHANGED <<registry, machine, collector, held, finalization, resources,
                   barrier, admitted, running, phase, faults>>

\* terminal_settle_delay elapses for a queued trace.
Settle(t) ==
    /\ t \in pending \ settled
    /\ settled' = settled \cup {t}
    /\ UNCHANGED <<registry, machine, collector, held, pending, finalized, todo,
                   ended, resources, postTrace, phase, faults>>

----------------------------------------------------------------------------
\* Control commands, between two cycles.

\* bootstrap_snapshot: the root and the descendants procfs shows.
Snapshot(root, members) ==
    [StartingEntry(root) EXCEPT !.members =
        [p \in Processes |-> IF p \in members THEN NewMembership ELSE NoMembership]]

\* The kernel map after the bind of an attach, and after the unbind that takes
\* it back; what tracked the processes before is not restored.
Tracked(members, t) == [p \in Processes |-> IF p \in members THEN t ELSE kernel[p]]

\* finalize_trace stores the trace once it is active; an attach that fails may
\* do so before or after.
Recorded(t, outcome) ==
    IF outcome = "leaked" THEN {stored}
    ELSE IF outcome \in {"bound", "scoped"} THEN {stored \cup {t}}
    ELSE {stored, stored \cup {t}}

\* attach_with_collector and attach_snapshot_only.  An error before bind_trace
\* leaves a Starting or a Failed trace; a launch, or a container, that fails
\* later is unbound again; another process keeps its binding.
Attach(root, members, outcome, degraded) ==
    LET t == nextTraceId
        snapshot == Snapshot(root, members)
        marked == IF degraded THEN Degrade(snapshot) ELSE snapshot
        entry == CASE outcome = "leaked" -> snapshot
                   [] outcome \in {"failed", "failedUnbound", "failedBound"} ->
                          FailTrace(marked).entry
                   [] OTHER -> Activate(marked).entry
        bound == outcome \in {"failedBound", "bound", "scoped"}
    IN  /\ phase = "idle" /\ t <= MaxTraces
        /\ root \in members
        /\ \A p \in members : proc[p] = "alive"
        /\ nextTraceId' = t + 1
        /\ traces' = [traces EXCEPT ![t] = entry]
        /\ stored' \in Recorded(t, outcome)
        /\ caps' = IF bound THEN caps \cup {t} ELSE caps
        /\ bindings' = IF bound THEN bindings \cup ({t} \X members) ELSE bindings
        /\ kernel' = IF bound THEN Tracked(members, t)
                     ELSE IF outcome = "failedUnbound" THEN Tracked(members, 0)
                     ELSE kernel
        /\ scoped' = IF outcome = "scoped" THEN scoped \cup {t} ELSE scoped
        /\ UNCHANGED <<proc, ring, newLoss, lost, sent, held, finalization,
                       barriers, postTrace, phase, faults>>

\* remove_root_impl: track_remove_root, stop_kernel_tracking_process,
\* enqueue_trace_finalization_if_terminal.
RemoveRoot(t) ==
    LET result == TrackRemoveRoot(traces[t])
        root == traces[t].root
    IN  /\ phase = "idle" /\ Present(t)
        /\ traces' = [traces EXCEPT ![t] = result.entry]
        /\ IF result.ok
             THEN /\ kernel' = [kernel EXCEPT ![root] = 0]
                  /\ pending' = IF result.entry.life \in Terminal /\ t \notin finalized
                                  THEN pending \cup {t} ELSE pending
             ELSE UNCHANGED <<kernel, pending>>
        /\ UNCHANGED <<nextTraceId, stored, proc, ring, newLoss, lost, sent, collector,
                       held, settled, finalized, todo, ended, resources,
                       postTrace, phase, faults>>

----------------------------------------------------------------------------
\* One drain cycle.

\* drain_completions: the leases are released and the tasks no longer run.
PostTraceDrain ==
    /\ phase = "idle"
    /\ running' = running \ completions
    /\ completions' = {}
    /\ phase' = "resources"
    /\ UNCHANGED <<registry, machine, collector, held, finalization, resources,
                   barrier, admitted, executing, faults>>

\* drain_completions, when the lease of one completion cannot be released:
\* the completions after it in the drained list are gone.
PostTraceDrainFails(released) ==
    /\ phase = "idle" /\ faults < MaxFaults
    /\ completions \ released # {}
    /\ faults' = faults + 1
    /\ running' = running \ released
    /\ completions' = {}
    /\ UNCHANGED <<registry, machine, collector, held, finalization, resources,
                   barrier, admitted, executing, phase>>

\* drain_resource_finalizations_impl: the scope of an ending trace is empty,
\* or its deadline has passed while it still holds processes.
ResourceDrain(done, timedOut) ==
    LET finish(e, late) ==
            CompleteAfterResourceBarrier(IF late THEN Degrade(e) ELSE e).entry
    IN  /\ phase = "resources"
        /\ done \subseteq {t \in scoped : traces[t].life \in Terminal \cup {"Draining"}}
        /\ timedOut \subseteq done
        /\ traces' = [t \in TraceIds |-> IF t \in done
                                           THEN finish(traces[t], t \in timedOut)
                                           ELSE traces[t]]
        /\ scoped' = scoped \ done
        /\ barriers' = barriers \cup done
        /\ phase' = "poll"
        /\ UNCHANGED <<nextTraceId, stored, machine, collector, held, finalization,
                       postTrace, faults>>

\* persist_event_transport_loss_diagnostics_impl.
DegradeAll(entries) ==
    [t \in TraceIds |-> IF entries[t].life \in Terminal \cup {"Absent"}
                          THEN entries[t] ELSE Degrade(entries[t])]
\* Mutant: the loss counters are read and not charged.
AfterLossUncharged == traces
AfterLoss == IF newLoss THEN DegradeAll(traces) ELSE traces

\* poll_events: each CPU's buffer is read at its own moment, so a poll may
\* miss events older than ones it returns; what it returns is in causal order.
Polled(taken) == [i \in 1 .. Cardinality(taken) |-> ring[SetToSortSeq(taken, <)[i]]]
Left(taken) == LET kept == DOMAIN ring \ taken
               IN [i \in 1 .. Cardinality(kept) |-> ring[SetToSortSeq(kept, <)[i]]]

\* poll_batch_impl handles the exits of a poll after everything else.
ExitsLast(batch) ==
    SelectSeq(batch, LAMBDA r : r.kind # "exit")
        \o SelectSeq(batch, LAMBDA r : r.kind = "exit")

\* handle_batch_event: decode_fork binds the child even when the trace is no
\* longer bound; a payload of a process that is not bound fails the whole poll.
Of(batch, kind) == {<<r.trace, r.process>> : r \in {x \in ToSet(batch) : x.kind = kind}}
BoundBefore(batch, i) == bindings \cup Of(SubSeq(batch, 1, i - 1), "fork")
Unbound(batch) ==
    {i \in DOMAIN batch : /\ batch[i].kind = "data"
                          /\ <<batch[i].trace, batch[i].process>> \notin BoundBefore(batch, i)}
Decode(batch) ==
    LET fails == Unbound(batch)
        stop == IF fails = {} THEN Len(batch) + 1 ELSE Min(fails)
    IN  [bindings |-> BoundBefore(batch, stop), ok |-> fails = {}]

\* RuntimeProcessEventApplier::apply: an event of a process that is not a
\* member is ignored, and so is a fork whose parent is not a member.
ApplyOne(e, r) ==
    IF r.kind = "fork" /\ IsMember(e, r.parent)
      THEN InsertObservedChild(e, r.parent, r.process)
    ELSE IF r.kind = "exit" /\ IsMember(e, r.process)
      THEN MarkProcessExited(e, r.process)
    ELSE Ok(e)

\* process_live_event_batch; capabilities gone, the decoder yields no event.
ApplyAll(entries, batch) ==
    FoldLeft(LAMBDA acc, r :
                 IF ~acc.ok \/ r.trace \notin caps THEN acc
                 ELSE LET result == ApplyOne(acc.entries[r.trace], r)
                      IN [entries |-> [acc.entries EXCEPT ![r.trace] = result.entry],
                          ok |-> result.ok],
             [entries |-> entries, ok |-> TRUE], batch)

\* The active path, from poll_batch to process_live_event_batch.
PollBatch(taken) ==
    \E batch \in {ExitsLast(Polled(taken))} :
    \E decoded \in {Decode(batch)}, applied \in {ApplyAll(AfterLoss, batch)} :
        /\ phase = "poll" /\ bindings # {}
        /\ ring' = Left(taken)
        /\ newLoss' = FALSE
        /\ IF decoded.ok
             THEN /\ bindings' = decoded.bindings \ Of(batch, "exit")
                  /\ traces' = applied.entries
                  /\ held' = IF applied.ok THEN held \cup Of(batch, "data") ELSE held
                  /\ phase' = IF applied.ok THEN "payload" ELSE "idle"
             ELSE /\ bindings' = decoded.bindings
                  /\ traces' = AfterLoss
                  /\ held' = held
                  /\ phase' = "idle"
        /\ UNCHANGED <<nextTraceId, stored, proc, kernel, lost, sent, caps, finalization,
                       resources, postTrace, faults>>

\* The inactive path: poll_tls_payload_control_events drops the observations.
PollControl(taken) ==
    /\ phase = "poll" /\ bindings = {}
    /\ ring' = Left(taken)
    /\ newLoss' = FALSE
    /\ traces' = AfterLoss
    /\ phase' = "payload"
    /\ UNCHANGED <<nextTraceId, stored, proc, kernel, lost, sent, collector, held,
                   finalization, resources, postTrace, faults>>

\* process_payload_segments_impl: every segment that is released makes its
\* process a member; the first one of a forgotten trace fails the cycle, and
\* the segments released with it are gone.
PayloadSegments(ready, before) ==
    LET unknown == {s \in ready : ~Present(s[1])}
        applied == IF unknown = {} THEN ready ELSE before
        enrol(t) == {p \in Processes : <<t, p>> \in applied /\ ~IsMember(traces[t], p)}
    IN  /\ phase = "payload"
        /\ ready \subseteq held /\ before \subseteq ready \ unknown
        /\ unknown = {} => before = {}
        /\ held' = held \ ready
        /\ traces' = [t \in TraceIds |->
                        [traces[t] EXCEPT !.members =
                            [p \in Processes |-> IF p \in enrol(t)
                                                   THEN NewMembership ELSE @[p]]]]
        /\ phase' = IF unknown = {} THEN "reconcile" ELSE "idle"
        /\ UNCHANGED <<nextTraceId, stored, machine, collector, finalization, resources,
                       postTrace, faults>>

\* Mutant: only terminal traces are compared with procfs.
ReconciledTerminal(e) ==
    IF e.life \in Terminal /\ \E p \in Processes : Open(e.members[p]) /\ proc[p] = "alive"
      THEN Degrade(e) ELSE e

\* reconcile_draining_memberships_impl on one trace: members that procfs no
\* longer knows have exited, a live member of a terminal trace degrades it.
Reconciled(e) ==
    LET gone == {p \in Processes : Open(e.members[p]) /\ proc[p] = "dead"}
        closed == [e EXCEPT !.members =
                      [p \in Processes |-> IF p \in gone
                                             THEN [@[p] EXCEPT !.state = "Exited"]
                                             ELSE @[p]]]
        alive == \E p \in Processes \ gone : Open(e.members[p])
    IN  IF e.life \notin Terminal \cup {"Draining"} THEN e
        ELSE IF e.life \in Terminal /\ alive THEN Degrade(closed)
        ELSE IF gone = {} THEN e
        ELSE ReconcileLifecycle(closed).entry

\* reconcile_draining_memberships_impl, then the start of
\* finalize_terminal_traces_impl: enqueue_terminal_finalizations_impl.
Reconcile ==
    LET entries == [t \in TraceIds |-> Reconciled(traces[t])]
    IN  /\ phase = "reconcile"
        /\ traces' = entries
        /\ pending' = pending \cup {t \in TraceIds \ finalized : entries[t].life \in Terminal}
        /\ todo' = pending'
        /\ ended' = 0
        /\ phase' = "finalize"
        /\ UNCHANGED <<nextTraceId, stored, machine, collector, held, settled, finalized,
                       resources, postTrace, faults>>

\* The trace progress_terminal_finalizations_impl looks at next.
Turn(t) == phase = "finalize" /\ ended < PerCycle /\ t \in todo /\ \A u \in todo : t <= u
NextTurn(t) == todo' = todo \ {t}

\* Mutant: open memberships do not delay the barrier.
MayPassBarrierOpen(t) == t \in settled /\ t \notin scoped

\* The conditions a terminal trace waits for before its barrier.
MayPassBarrier(t) ==
    /\ t \in settled
    /\ HasCapturableMembers(traces[t]) => t \in barriers
    /\ t \notin scoped

\* A queued trace that was finalized before, or is not terminal, leaves the
\* queue; one that is not registered fails the cycle (trace_is_terminal); one
\* that may not pass the barrier yet waits for a later cycle.
FinalizeSkips(t) ==
    LET live == t \notin finalized /\ traces[t].life \in Terminal
    IN  /\ Turn(t)
        /\ ~live \/ ~MayPassBarrier(t)
        /\ IF t \notin finalized /\ ~Present(t)
             THEN /\ phase' = "idle"
                  /\ UNCHANGED <<todo, pending, settled>>
             ELSE /\ NextTurn(t)
                  /\ pending' = IF live THEN pending ELSE pending \ {t}
                  /\ settled' = IF live THEN settled ELSE settled \ {t}
                  /\ phase' = phase
        /\ UNCHANGED <<registry, machine, collector, held, finalized, ended,
                       resources, postTrace, faults>>

Ready(t) ==
    /\ Turn(t)
    /\ t \notin finalized /\ traces[t].life \in Terminal
    /\ MayPassBarrier(t)

\* unbind_trace, finalize_semantic_projection_for_trace, mark_barrier_ready.
PassBarrier(t) ==
    /\ Ready(t) /\ t \notin barrier
    /\ barrier' = barrier \cup {t}
    /\ caps' = caps \ {t}
    /\ bindings' = {b \in bindings : b[1] # t}
    /\ kernel' = [p \in Processes |->
                    IF kernel[p] = t \/ <<t, p>> \in bindings THEN 0 ELSE kernel[p]]
    /\ UNCHANGED <<registry, proc, ring, newLoss, lost, sent, held, finalization,
                   resources, admitted, running, executing, completions, phase, faults>>

\* Mutant: a task that was drained is admitted again.
MissingAgain(t) == {task \in ({t} \X Plugins) : task \notin running}
Missing(t) == {task \in ({t} \X Plugins) : task \notin admitted}
Smaller(m, n) == IF m < n THEN m ELSE n

\* admit_trace: as many tasks as fit, one failing enqueue_task aside; the
\* trace stays queued while one of its tasks is not admitted or still runs.
Admit(t) ==
    /\ Ready(t) /\ t \in barrier
    /\ \/ Missing(t) # {} \/ \E task \in running : task[1] = t
    /\ \E failing \in SUBSET Missing(t) :
        \E added \in SUBSET (Missing(t) \ failing) :
           /\ Cardinality(failing) <= 1
           /\ failing # {} => faults < MaxFaults
           /\ Cardinality(added) = Smaller(MaxInFlight - Cardinality(running),
                                           Cardinality(Missing(t) \ failing))
           /\ faults' = faults + Cardinality(failing)
           /\ admitted' = admitted \cup added
           /\ running' = running \cup added
           /\ executing' = executing \cup added
    /\ NextTurn(t)
    /\ UNCHANGED <<registry, machine, collector, held, pending, settled, finalized,
                   ended, resources, barrier, completions, phase>>

\* Mutant: the forgotten trace is not recorded as finalized.
ForgetUnrecorded(t, gated) ==
    /\ Ready(t) /\ t \in barrier
    /\ held' = held \ gated
    /\ Missing(t) = {} /\ \A task \in running : task[1] # t
    /\ pending' = pending \ {t}
    /\ settled' = settled \ {t}
    /\ barrier' = barrier \ {t}
    /\ admitted' = {task \in admitted : task[1] # t}
    /\ traces' = [traces EXCEPT ![t] = AbsentEntry(traces[t].root)]
    /\ ended' = ended + 1
    /\ NextTurn(t)
    /\ UNCHANGED <<nextTraceId, stored, machine, collector, finalized, resources,
                   running, executing, completions, phase, faults>>

\* Mutant: the trace does not wait for its running tasks.
ForgetEarly(t, gated) ==
    /\ Ready(t) /\ t \in barrier
    /\ held' = held \ gated
    /\ Missing(t) = {}
    /\ finalized' = finalized \cup {t}
    /\ pending' = pending \ {t}
    /\ settled' = settled \ {t}
    /\ barrier' = barrier \ {t}
    /\ admitted' = {task \in admitted : task[1] # t}
    /\ traces' = [traces EXCEPT ![t] = AbsentEntry(traces[t].root)]
    /\ ended' = ended + 1
    /\ NextTurn(t)
    /\ UNCHANGED <<nextTraceId, stored, machine, collector, resources, running,
                   executing, completions, phase, faults>>

\* Every task is admitted and none runs: the trace is forgotten, with the
\* segments the socket gate keeps for it but not the ones held elsewhere.
Forget(t, gated) ==
    /\ Ready(t) /\ t \in barrier
    /\ held' = held \ gated
    /\ Missing(t) = {} /\ \A task \in running : task[1] # t
    /\ finalized' = finalized \cup {t}
    /\ pending' = pending \ {t}
    /\ settled' = settled \ {t}
    /\ barrier' = barrier \ {t}
    /\ admitted' = {task \in admitted : task[1] # t}
    /\ traces' = [traces EXCEPT ![t] = AbsentEntry(traces[t].root)]
    /\ ended' = ended + 1
    /\ NextTurn(t)
    /\ UNCHANGED <<nextTraceId, stored, machine, collector, resources, running,
                   executing, completions, phase, faults>>

\* expired_candidates and purge_trace: the traces retention may purge; a
\* running post-trace task holds a lease on its trace.
Expired == {t \in stored : ~Present(t) \/ (traces[t].life \in Terminal /\ t \in finalized)}
Leased == {task[1] : task \in running}

\* forget_terminal_trace_state_impl drops the segments of finalized traces
\* that are still registered.
KeptSegments == {s \in held : ~(s[1] \in finalized /\ Present(s[1]))}

\* sweep_if_due: the purged traces leave the registry and both lists.
Purge(purged) ==
    /\ stored' = stored \ purged
    /\ traces' = [t \in TraceIds |-> IF t \in purged THEN AbsentEntry(traces[t].root)
                                                     ELSE traces[t]]
    /\ finalized' = finalized \ purged
    /\ pending' = pending \ purged

\* The end of the cycle: forget_terminal_trace_state_impl, the retention sweep
\* and, if it purged or skipped a leased trace, prune_forgotten.
CycleEnds(purged) ==
    /\ phase = "finalize"
    /\ todo = {} \/ ended >= PerCycle
    /\ purged \subseteq Expired \ Leased
    /\ held' = KeptSegments
    /\ Purge(purged)
    /\ \/ /\ purged \cup (Expired \cap Leased) # {}
          /\ barriers' = {t \in barriers : traces'[t].life # "Absent"}
       \/ purged = {} /\ barriers' = barriers
    /\ todo' = {}
    /\ phase' = "idle"
    /\ UNCHANGED <<nextTraceId, machine, collector, settled, ended, scoped,
                   postTrace, faults>>

\* A storage or collector error in a step that is not best effort.
CycleFails ==
    /\ phase \in {"payload", "reconcile", "finalize"} /\ faults < MaxFaults
    /\ faults' = faults + 1
    /\ phase' = "idle"
    /\ UNCHANGED <<registry, machine, collector, held, finalization, resources,
                   postTrace>>

----------------------------------------------------------------------------

FinalizeStep(t) ==
    \/ FinalizeSkips(t) \/ PassBarrier(t) \/ Admit(t)
    \/ \E gated \in SUBSET {s \in held : s[1] = t} : Forget(t, gated)

Cycle ==
    \/ PostTraceDrain
    \/ \E done \in SUBSET scoped : \E late \in SUBSET done : ResourceDrain(done, late)
    \/ \E taken \in SUBSET DOMAIN ring : PollBatch(taken) \/ PollControl(taken)
    \/ \E ready \in SUBSET held : \E before \in SUBSET ready : PayloadSegments(ready, before)
    \/ Reconcile
    \/ \E t \in TraceIds : FinalizeStep(t)
    \/ \E purged \in SUBSET stored : CycleEnds(purged)

Machine ==
    \/ \E p, q \in Processes : Fork(p, q)
    \/ \E p \in Processes : Exit(p) \/ Transfer(p)
    \/ \E task \in Tasks : TaskDone(task)
    \/ \E t \in TraceIds : Settle(t)

Control ==
    \/ \E root \in Processes, members \in SUBSET Processes, outcome \in Outcomes,
          degraded \in BOOLEAN : Attach(root, members, outcome, degraded)
    \/ \E t \in TraceIds : RemoveRoot(t)

Failure ==
    \/ \E released \in SUBSET completions : PostTraceDrainFails(released)
    \/ CycleFails

Next == Cycle \/ Machine \/ Control \/ Failure

Spec == Init /\ [][Next]_vars

\* The loop keeps running, plugin workers finish, deadlines pass and, again
\* and again, a cycle finds the scopes of ending traces empty, a poll finds
\* every buffered event, and everything held is released.  Each of these can
\* happen in every cycle.
FullDrain == ResourceDrain({t \in scoped : traces[t].life \in Terminal \cup {"Draining"}}, {})
FullPoll == PollBatch(DOMAIN ring) \/ PollControl(DOMAIN ring)
FullRelease == \E before \in SUBSET held : PayloadSegments(held, before)
Fairness ==
    /\ []<><<FullDrain>>_vars
    /\ []<><<FullPoll>>_vars
    /\ []<><<FullRelease>>_vars
    /\ \A t \in TraceIds : WF_vars(Settle(t))
    /\ \A task \in Tasks : WF_vars(TaskDone(task))

FairSpec == Spec /\ Fairness

----------------------------------------------------------------------------

\* Every variable keeps its type; no trace is bound, queued or barred before
\* its id is reserved.
TypeOK ==
    /\ nextTraceId \in 1 .. MaxTraces + 1
    /\ traces \in [TraceIds -> Entries]
    /\ proc \in [Processes -> {"unborn", "alive", "dead"}]
    /\ kernel \in [Processes -> 0 .. nextTraceId - 1]
    /\ ring \in Seq(Records)
    /\ newLoss \in BOOLEAN /\ lost \in 0 .. MaxLost /\ sent \in 0 .. MaxData
    /\ bindings \cup held \subseteq (1 .. nextTraceId - 1) \X Processes
    /\ UNION {stored, caps, pending, settled, finalized, todo, scoped, barriers, barrier}
           \subseteq 1 .. nextTraceId - 1
    /\ ended \in 0 .. PerCycle
    /\ UNION {admitted, running, executing, completions} \subseteq Tasks
    /\ Cardinality(running) <= MaxInFlight
    /\ phase \in {"idle", "resources", "poll", "payload", "reconcile", "finalize"}
    /\ faults \in 0 .. MaxFaults

\* A trace is forgotten only when no member needs observation any more or its
\* managed scope was finalized, and when every plugin has analysed it.
ForgottenSettled ==
    [][\A t \in TraceIds :
         Present(t) /\ traces'[t].life = "Absent"
            => /\ HasCapturableMembers(traces[t]) => t \in barriers
               /\ {t} \X Plugins \subseteq admitted \ (running \cup executing)
               /\ t \notin scoped]_vars

\* While a post-trace task is on its way, at a worker or answered but not yet
\* drained, its trace stays terminal in the registry, behind its barrier
\* (shutdown.rs:435-438: host calls cannot race with the cleanup).
TasksKeepTrace ==
    \A task \in running \cup executing \cup completions :
        /\ traces[task[1]].life \in Terminal
        /\ task[1] \in pending \cap barrier

\* No plugin gets the same trace twice, also when its completion was drained
\* while other tasks of the trace were still waiting for capacity.
AnalysedOnce ==
    [][\A task \in executing' \ executing :
         task \notin admitted /\ task[1] \notin finalized]_vars

\* Retention purges a trace from the store only after it was finalized, and
\* never under a running post-trace task, whatever was forgotten meanwhile.
RetentionSpares ==
    [][\A t \in stored \ stored' :
         /\ ~Present(t) /\ t \in finalized
         /\ t \notin pending \cup barrier \cup Leased]_vars

\* A loss of kernel events is charged to every trace that is still running
\* before the events of the same poll can end it (live.rs:287).
LossCharged ==
    [][newLoss /\ ~newLoss'
         => \A t \in TraceIds :
              traces[t].life \notin Terminal \cup {"Absent"} => traces'[t].degraded]_vars

\* A trace that drains or has ended, and whose processes are all gone, is
\* forgotten, even if their exit events were lost.
EndedTraceForgotten ==
    \A t \in TraceIds :
        (/\ traces[t].life \in Terminal \cup {"Draining"}
         /\ \A p \in Processes : proc[p] = "dead") ~> ~Present(t)
=============================================================================
