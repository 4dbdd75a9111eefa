--------------------------- MODULE TraceRegistry ---------------------------
(***************************************************************************)
(* TraceRuntime, the registry of active traces                             *)
(* (crates/core/trace_runtime/src/registry.rs), under every sequence of    *)
(* calls its callers in the daemon can make.  The registry is owned by one *)
(* thread; each call is one step.                                          *)
(***************************************************************************)
EXTENDS Integers, TraceModel

CONSTANT MaxTraces   \* bound on the trace ids a behaviour reserves

ASSUME MaxTracesPositive == MaxTraces \in Nat \ {0}
ASSUME SomeProcess == Processes # {}

TraceIds == 1 .. MaxTraces

VARIABLES
    nextTraceId,   \* TraceRuntime::next_trace_id
    traces         \* TraceRuntime::traces

vars == <<nextTraceId, traces>>

AbsentEntry(root) ==
    [life |-> "Absent", degraded |-> FALSE, root |-> root,
     members |-> [p \in Processes |-> NoMembership]]

Present(t) == traces[t].life # "Absent"

Init ==
    /\ nextTraceId = 1
    /\ \E root \in Processes : traces = [t \in TraceIds |-> AbsentEntry(root)]

Put(t, e) == traces' = [traces EXCEPT ![t] = e]

\* reserve_trace_id and create_starting_trace, which the callers run back to
\* back; creating fails when no random identity can be generated.
TrackAdd(root, created) ==
    /\ nextTraceId <= MaxTraces
    /\ nextTraceId' = nextTraceId + 1
    /\ IF created THEN Put(nextTraceId, StartingEntry(root)) ELSE UNCHANGED traces

\* An operation whose result replaces the entry whether or not it succeeds.
Apply(t, result) ==
    /\ Present(t)
    /\ Put(t, result.entry)
    /\ UNCHANGED nextTraceId

\* activate_trace; finalize_trace calls it once, on the trace it has just
\* created.
ActivateTrace(t) == traces[t].life = "Starting" /\ Apply(t, Activate(traces[t]))

\* insert_membership from a process-tree snapshot or from a payload segment
\* of a process that is not yet a member.
InsertMember(t, p) ==
    /\ ~IsMember(traces[t], p)
    /\ Apply(t, Ok(InsertMembership(traces[t], p)))

\* inherit_process and insert_observed_child.  A process is forked by another
\* one; the root of a trace is never the child of its own descendants.
Inherit(t, parent, child) ==
    /\ child \notin {parent, traces[t].root}
    /\ Apply(t, InheritProcess(traces[t], parent, child))

ObserveChild(t, parent, child) ==
    /\ child \notin {parent, traces[t].root}
    /\ Apply(t, InsertObservedChild(traces[t], parent, child))

RemoveRoot(t) == Apply(t, TrackRemoveRoot(traces[t]))

ProcessExited(t, p) == Apply(t, MarkProcessExited(traces[t], p))

MarkDegraded(t) == Apply(t, Ok(Degrade(traces[t])))

Fail(t) == Apply(t, FailTrace(traces[t]))

Complete(t) == Apply(t, CompleteAfterResourceBarrier(traces[t]))

\* forget_trace; its callers forget terminal traces only.
ForgetTrace(t) ==
    /\ traces[t].life \in Terminal
    /\ Put(t, AbsentEntry(traces[t].root))
    /\ UNCHANGED nextTraceId

Next ==
    \/ \E root \in Processes, created \in BOOLEAN : TrackAdd(root, created)
    \/ \E t \in TraceIds :
          \/ ActivateTrace(t) \/ RemoveRoot(t) \/ MarkDegraded(t)
          \/ Fail(t) \/ Complete(t) \/ ForgetTrace(t)
          \/ \E p \in Processes : InsertMember(t, p) \/ ProcessExited(t, p)
          \/ \E p, q \in Processes : Inherit(t, p, q) \/ ObserveChild(t, p, q)

Spec == Init /\ [][Next]_vars

----------------------------------------------------------------------------

\* Every entry of the registry has the shape of TraceEntry.
TypeOK ==
    /\ nextTraceId \in 1 .. MaxTraces + 1
    /\ traces \in [TraceIds -> Entries]

\* A trace that drains, or that completed or exited, has a root that is no
\* longer captured, whatever forks and exits were reported in between: the
\* root is removed or gone before anything else may end the trace.
EndedRootClosed ==
    \A t \in TraceIds :
        traces[t].life \in {"Draining", "Completed", "Exited"}
            => /\ IsMember(traces[t], traces[t].root)
               /\ ~Open(traces[t].members[traces[t].root])

\* A live entry always knows its root, so RootMembershipMissing never occurs
\* (registry.rs:237, registry.rs:379).
RootIsMember ==
    \A t \in TraceIds : Present(t) => IsMember(traces[t], traces[t].root)

\* A trace in Exited has a root whose exit was reported: an operator's
\* removal of the root alone ends in Completed.
ExitedMeansRootExited ==
    \A t \in TraceIds :
        traces[t].life = "Exited"
            => traces[t].members[traces[t].root].state = "Exited"

\* A trace only becomes Completed or Exited when none of its processes still
\* needs observation, or it is marked degraded (registry.rs:284-286).
EndsCleanOrDegraded ==
    [][\A t \in TraceIds :
         (/\ traces'[t].life \in {"Completed", "Exited"}
          /\ traces[t].life \notin {"Completed", "Exited"})
            => ~HasCapturableMembers(traces'[t]) \/ traces'[t].degraded]_vars

\* A terminal state is final: no later event, removal, failure or barrier
\* moves a trace out of it, until the trace is forgotten.
TerminalIsFinal ==
    [][\A t \in TraceIds :
         traces[t].life \in Terminal
            => traces'[t].life \in {traces[t].life, "Absent"}]_vars

\* A trace id that was reserved and is gone, or whose creation failed, never
\* comes back.
IdsNotReused ==
    [][\A t \in TraceIds :
         t < nextTraceId /\ ~Present(t) => traces'[t].life = "Absent"]_vars
=============================================================================
