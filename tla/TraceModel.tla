----------------------------- MODULE TraceModel -----------------------------
(***************************************************************************)
(* The entries of the active-trace registry and the operations on one      *)
(* entry (crates/core/trace_runtime/src: registry.rs, state_machine.rs,    *)
(* membership.rs; crates/core/model/src/process.rs).                       *)
(*                                                                         *)
(* An operation that can fail returns [entry, ok]: the code mutates the    *)
(* entry in place, so a failed operation may still have changed it.  Time  *)
(* stamps, names, tags and profiles are left out.  IdentityStale is left   *)
(* out too: no caller of mark_identity_stale exists.                       *)
(***************************************************************************)

CONSTANT Processes   \* the process identities

\* TraceLifecycleState; "Absent" stands for an id that is not in the map.
Terminal == {"Completed", "Exited", "Failed"}
LifecycleStates == {"Absent", "Starting", "Active", "Draining"} \cup Terminal

\* MembershipState; "None" stands for a process that is not in the index.
MembershipStates == {"None", "Starting", "Active", "Exited"}
Memberships == [state : MembershipStates, capture : BOOLEAN, propagate : BOOLEAN]
Entries == [life : LifecycleStates, degraded : BOOLEAN, root : Processes,
            members : [Processes -> Memberships]]

NoMembership == [state |-> "None", capture |-> FALSE, propagate |-> FALSE]
\* ProcessMembership::root, inherited and observed agree on these fields.
NewMembership == [state |-> "Starting", capture |-> TRUE, propagate |-> TRUE]

IsMember(e, p) == e.members[p].state # "None"
\* A membership that still needs observation.
Open(m) == m.capture /\ m.state \in {"Starting", "Active"}
CanInherit(m) == Open(m) /\ m.propagate
HasCapturableMembers(e) == \E p \in Processes : Open(e.members[p])

SetMember(e, p, m) ==
    [e EXCEPT !.members = [q \in Processes |-> IF q = p THEN m ELSE e.members[q]]]

\* require_transition.
Allowed ==
    {<<"Starting", "Active">>, <<"Starting", "Failed">>,
     <<"Active", "Draining">>, <<"Active", "Completed">>,
     <<"Active", "Exited">>, <<"Active", "Failed">>,
     <<"Draining", "Completed">>, <<"Draining", "Exited">>,
     <<"Draining", "Failed">>}

Ok(e) == [entry |-> e, ok |-> TRUE]
Err(e) == [entry |-> e, ok |-> FALSE]

\* start_trace, begin_draining, complete_trace, exit_trace, fail_trace.
Move(e, to) ==
    IF <<e.life, to>> \in Allowed THEN Ok([e EXCEPT !.life = to]) ELSE Err(e)

\* create_starting_trace.
StartingEntry(root) ==
    [life |-> "Starting", degraded |-> FALSE, root |-> root,
     members |-> [p \in Processes |-> IF p = root THEN NewMembership
                                                  ELSE NoMembership]]

\* activate_trace: activate_all, then start_trace.
Activate(e) ==
    Move([e EXCEPT !.members =
            [p \in Processes |-> IF IsMember(e, p)
                                   THEN [e.members[p] EXCEPT !.state = "Active"]
                                   ELSE e.members[p]]],
         "Active")

\* insert_membership: BTreeMap::insert replaces what was there.
InsertMembership(e, p) == SetMember(e, p, NewMembership)

\* inherit_process.
InheritProcess(e, parent, child) ==
    IF IsMember(e, parent) /\ CanInherit(e.members[parent])
      THEN Ok(InsertMembership(e, child))
      ELSE Err(e)

\* insert_observed_child: the parent need not propagate any more.
InsertObservedChild(e, parent, child) ==
    IF IsMember(e, parent) THEN Ok(InsertMembership(e, child)) ELSE Err(e)

\* Mutant: the trace ends as soon as its root is gone.
ReconcileRootOnly(e) ==
    IF \/ e.life \in Terminal
       \/ e.members[e.root].capture /\ e.members[e.root].state # "Exited"
      THEN Ok(e)
    ELSE IF e.members[e.root].state = "Exited"
      THEN Move(e, "Exited")
      ELSE Move(e, "Completed")

\* reconcile_lifecycle.
ReconcileLifecycle(e) ==
    IF \/ e.life \in Terminal
       \/ e.members[e.root].capture /\ e.members[e.root].state # "Exited"
      THEN Ok(e)
    ELSE IF HasCapturableMembers(e)
      THEN IF e.life = "Active" THEN Move(e, "Draining") ELSE Ok(e)
    ELSE IF e.members[e.root].state = "Exited"
      THEN Move(e, "Exited")
      ELSE Move(e, "Completed")

\* track_remove_root.
TrackRemoveRoot(e) ==
    ReconcileLifecycle(SetMember(e, e.root,
        [e.members[e.root] EXCEPT !.capture = FALSE, !.propagate = FALSE]))

\* mark_process_exited.
MarkProcessExited(e, p) ==
    IF IsMember(e, p)
      THEN ReconcileLifecycle(SetMember(e, p,
               [e.members[p] EXCEPT !.state = "Exited"]))
      ELSE Err(e)

\* mark_degraded.
Degrade(e) == [e EXCEPT !.degraded = TRUE]

\* fail_trace.
FailTrace(e) == Move(e, "Failed")

\* Mutant: a trace that is still active is completed too.
CompleteActive(e) ==
    LET marked == IF HasCapturableMembers(e) THEN Degrade(e) ELSE e IN
    IF e.life \in {"Active", "Draining"} THEN Move(marked, "Completed")
    ELSE IF e.life \in Terminal THEN Ok(marked)
    ELSE Err(marked)

\* complete_after_resource_barrier.
CompleteAfterResourceBarrier(e) ==
    LET marked == IF HasCapturableMembers(e) THEN Degrade(e) ELSE e IN
    IF e.life = "Draining" THEN Move(marked, "Completed")
    ELSE IF e.life \in Terminal THEN Ok(marked)
    ELSE Err(marked)
=============================================================================
