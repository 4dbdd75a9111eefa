---------------------------- MODULE ManagedScopes ----------------------------
(***************************************************************************)
(* The managed cgroup v2 scopes of launched traces, across daemon crashes  *)
(* and host reboots (crates/core/resource_profiling/src/collection/        *)
(* workload/cgroup/v2: managed/managed_scope_manager.rs, managed/          *)
(* scope_recovery.rs, runtime/lifecycle.rs; crates/apps/daemon/src/        *)
(* services: attach.rs, resource_profiling/workload_event_sink.rs,         *)
(* resource_profiling/managed_scope_storage.rs; crates/core/linux_cgroup). *)
(*                                                                         *)
(* Three stores have to agree: the control database (traces, scopeRec),    *)
(* the cgroup file system (fs) and the daemon's memory (life .. task).     *)
(* The daemon serves one request or drain at a time, so its handlers do    *)
(* not interleave with each other; they are split where a crash between    *)
(* two writes, or a process leaving a cgroup, can be told apart.           *)
(*                                                                         *)
(* A directory is named by its trace id and a random nonce: here a number  *)
(* that is never reused.  Counters, samples, diagnostics and the health of *)
(* a trace are left out, time is one bit per running finalization (its     *)
(* timeout has passed or not), and the managed hierarchy is available at   *)
(* every start.                                                            *)
(***************************************************************************)
EXTENDS Integers, Functions

CONSTANTS MaxTrace,    \* bound: trace ids handed out
          MaxDir,      \* bound: directories created
          MaxCrashes,  \* bound: crashes and reboots
          MaxFaults    \* bound: failed file system and database calls

ASSUME BoundsAssumption == {MaxTrace, MaxDir, MaxCrashes, MaxFaults} \subseteq Nat

VARIABLES traces,          \* database: lifecycle state of each trace row
          scopeRec,        \* database: the resource scope row of each trace
          fs,              \* existing directory |-> the processes in it
          nonce,           \* the next directory number
          up,              \* "down", "recovering" or "up"
          life,            \* lifecycle state of each trace in TraceRuntime
          nextTrace,       \* next_trace_id
          scopes,          \* trace |-> directory
          pendingAdm,      \* pending_admissions: trace |-> directory
          pendingCleanup,  \* directories
          recovered,       \* recovered_processes: traces
          started,         \* finalization_started_at
          leaked,          \* directories whose discard failed (history)
          task,            \* the handler being executed
          crashes, faults

storage == <<traces, scopeRec>>
memory == <<life, nextTrace, scopes, pendingAdm, pendingCleanup, recovered,
            started, leaked>>
vars == <<storage, fs, nonce, up, memory, task, crashes, faults>>

Traces == 1..MaxTrace
Dirs == 1..MaxDir
Terminal == {"Completed", "Exited", "Failed"}
LifeStates == {"Absent", "Starting", "Active", "Draining"} \cup Terminal

\* ResourceScopeLifecycleState::is_live.
Live == {"active", "waiting"}
NoScope == [state |-> "none", dir |-> 0]
Idle == [kind |-> "idle"]
\* BTreeMap::remove.
Without(f, S) == Restrict(f, DOMAIN f \ S)
With(f, x, y) == [z \in DOMAIN f \cup {x} |-> IF z = x THEN y ELSE f[z]]
NoFun == [x \in {} |-> x]

IsEmpty(d) == d \notin DOMAIN fs \/ fs[d] = {}
Populated(t) == ~IsEmpty(scopes[t])
RootGone(t) == t \in DOMAIN scopes /\ scopes[t] \in DOMAIN fs
                 => "root" \notin fs[scopes[t]]

Init ==
    /\ traces = [t \in Traces |-> "Absent"]
    /\ scopeRec = [t \in Traces |-> NoScope]
    /\ fs = NoFun
    /\ nonce = 1
    /\ up = "up"
    /\ life = [t \in Traces |-> "Absent"]
    /\ nextTrace = 1
    /\ scopes = NoFun /\ pendingAdm = NoFun
    /\ pendingCleanup = {} /\ recovered = {} /\ leaked = {}
    /\ started = [t \in Traces |-> "no"]
    /\ task = Idle
    /\ crashes = 0 /\ faults = 0

Serving == up = "up" /\ task = Idle
Fault == faults < MaxFaults /\ faults' = faults + 1

-----------------------------------------------------------------------------
(* The launched processes.  They are in their cgroup before they run, and  *)
(* their children inherit the membership.                                  *)

Fork(d) ==
    /\ d \in DOMAIN fs
    /\ fs[d] = {"root"}
    /\ fs' = [fs EXCEPT ![d] = {"root", "child"}]
    /\ UNCHANGED <<storage, nonce, up, memory, task, crashes, faults>>

Exit(d) ==
    /\ d \in DOMAIN fs
    /\ \E p \in fs[d] : fs' = [fs EXCEPT ![d] = @ \ {p}]
    /\ UNCHANGED <<storage, nonce, up, memory, task, crashes, faults>>

-----------------------------------------------------------------------------
(* attach_with_collector for a stopped launch.                             *)

BeginAttach ==
    /\ Serving
    /\ nextTrace <= MaxTrace /\ nonce <= MaxDir
    /\ task' = [kind |-> "create", trace |-> nextTrace]
    /\ life' = [life EXCEPT ![nextTrace] = "Starting"]
    /\ nextTrace' = nextTrace + 1
    /\ UNCHANGED <<storage, fs, nonce, up, scopes, pendingAdm, pendingCleanup,
                   recovered, started, leaked, crashes, faults>>

\* fail_trace: only the registry hears of it.
FailAttach(t) == task' = Idle /\ life' = [life EXCEPT ![t] = "Failed"]

\* create_trace_scope.
CreateScope ==
    /\ task.kind = "create"
    /\ fs' = With(fs, nonce, {})
    /\ nonce' = nonce + 1
    /\ task' = [kind |-> "move", trace |-> task.trace, dir |-> nonce]
    /\ UNCHANGED <<storage, up, memory, crashes, faults>>

\* create_trace_scope or enable_trace_controllers fails.  The directory is
\* discarded, and nobody looks at whether that worked.  Then Auto mode goes
\* on without a scope, Cgroup mode fails the attach (pre_move_failure).
AdmissionFails ==
    /\ task.kind \in {"create", "move"}
    /\ Fault
    /\ \/ task.kind = "create" /\ UNCHANGED <<fs, leaked>>
       \/ task.kind = "move" /\ fs' = Without(fs, {task.dir}) /\ UNCHANGED leaked
       \/ task.kind = "move" /\ leaked' = leaked \cup {task.dir} /\ UNCHANGED fs
    /\ \/ FailAttach(task.trace)
       \/ /\ task' = [kind |-> "persist", trace |-> task.trace, dir |-> 0]
          /\ UNCHANGED life
    /\ UNCHANGED <<storage, nonce, up, nextTrace, scopes, pendingAdm,
                   pendingCleanup, recovered, started, crashes>>

\* move_pid and verify_pid_membership: from here on an error fails the
\* attach, and the directory waits in pending_admissions to become empty.
MovePid ==
    /\ task.kind = "move"
    /\ pendingAdm' = With(pendingAdm, task.trace, task.dir)
    /\ \/ /\ fs' = [fs EXCEPT ![task.dir] = {"root"}]
          /\ task' = [task EXCEPT !.kind = "persist"]
          /\ UNCHANGED <<life, faults>>
       \/ /\ Fault
          /\ \/ UNCHANGED fs
             \/ fs' = [fs EXCEPT ![task.dir] = {"root"}]
          /\ FailAttach(task.trace)
    /\ UNCHANGED <<storage, nonce, up, nextTrace, scopes, pendingCleanup,
                   recovered, started, leaked, crashes>>

\* The collector binding and finalize_trace: the trace is activated, then
\* its row is written.
PersistTrace ==
    /\ task.kind = "persist"
    /\ \/ /\ life' = [life EXCEPT ![task.trace] = "Active"]
          /\ traces' = [traces EXCEPT ![task.trace] = "Active"]
          /\ task' = IF task.dir = 0 THEN Idle
                                     ELSE [task EXCEPT !.kind = "register"]
          /\ UNCHANGED faults
       \/ Fault /\ FailAttach(task.trace) /\ UNCHANGED traces
    /\ UNCHANGED <<scopeRec, fs, nonce, up, nextTrace, scopes, pendingAdm,
                   pendingCleanup, recovered, started, leaked, crashes>>

\* persist_and_activate_resource_scope: create_resource_scope, then
\* activate_scope.  A failure fails the trace and tries to save that.
RegisterScope ==
    /\ task.kind = "register"
    /\ \/ /\ scopeRec' = [scopeRec EXCEPT ![task.trace] =
                            [state |-> "active", dir |-> task.dir]]
          /\ pendingAdm' = Without(pendingAdm, {task.trace})
          /\ recovered' = recovered \ {task.trace}
          /\ scopes' = With(scopes, task.trace, task.dir)
          /\ task' = Idle
          /\ UNCHANGED <<traces, life, faults>>
       \/ /\ Fault
          /\ FailAttach(task.trace)
          /\ \/ traces' = [traces EXCEPT ![task.trace] = "Failed"]
             \/ UNCHANGED traces
          /\ UNCHANGED <<scopeRec, scopes, pendingAdm, recovered>>
    /\ UNCHANGED <<fs, nonce, up, nextTrace, pendingCleanup, started, leaked, crashes>>

-----------------------------------------------------------------------------
(* What the rest of the daemon does to a trace.                            *)

\* Exits are observed or the root is removed from tracking: reconcile_lifecycle
\* moves the trace and persist_trace_state writes its row.  An exit or a fork
\* may have been missed, so the cgroup need not agree with the memberships.
TraceEnds(t) ==
    /\ Serving
    /\ life[t] \in {"Active", "Draining"}
    /\ \E s \in {"Draining", "Completed", "Exited"} \ {life[t]} :
         /\ s = "Exited" => RootGone(t)
         /\ life' = [life EXCEPT ![t] = s]
         /\ \/ traces' = [traces EXCEPT ![t] = s] /\ UNCHANGED faults
            \/ Fault /\ UNCHANGED traces
    /\ UNCHANGED <<scopeRec, fs, nonce, up, nextTrace, scopes, pendingAdm,
                   pendingCleanup, recovered, started, leaked, task, crashes>>

\* finalize_terminal_traces behind resource_barrier_ready.
ForgetTrace(t) ==
    /\ Serving
    /\ life[t] \in Terminal
    /\ t \notin DOMAIN scopes
    /\ life' = [life EXCEPT ![t] = "Absent"]
    /\ UNCHANGED <<storage, fs, nonce, up, nextTrace, scopes, pendingAdm,
                   pendingCleanup, recovered, started, leaked, task, crashes, faults>>

-----------------------------------------------------------------------------
(* drain_resource_metrics_impl: cleanup_abandoned_admissions, then         *)
(* poll_finalizations, then the persistence of what the poll found.        *)

\* Mutant: only traces of this run are looked at.
OwnCandidates == {t \in DOMAIN scopes : life[t] \in {"Draining"} \cup Terminal}

\* The traces poll_finalizations looks at: the registry's draining and
\* terminal ones, and the recovered ones whose workload is over.
Candidates ==
    {t \in DOMAIN scopes :
        \/ life[t] \in {"Draining"} \cup Terminal
        \/ t \in recovered /\ (started[t] # "no" \/ ~Populated(t) \/ RootGone(t))}

\* Mutant: the timeout settles a scope whatever is still in it.
DraftsIgnoringMembers(t) ==
    IF started[t] = "due" \/ ~Populated(t) THEN {"final"} ELSE {"none"}

\* What the poll may decide about a candidate: nothing yet, an exact final
\* sample, or a partial one at the timeout.  A failing read delays an empty
\* scope until the timeout.
Drafts(t) ==
    IF Populated(t) THEN IF started[t] = "due" THEN {"timeout"} ELSE {"none"}
    ELSE {"final", IF started[t] = "due" THEN "timeout" ELSE "none"}

\* Mutant: only the admissions are looked after.
RipeAdmissions == {d \in Range(pendingAdm) : IsEmpty(d)}

\* Mutant: every empty directory below the root is taken for abandoned.
RipeScopes == {d \in DOMAIN fs : IsEmpty(d)}

\* Directories that wait to be removed and are empty by now.
Ripe == {d \in Range(pendingAdm) \cup pendingCleanup : IsEmpty(d)}

\* A removal that fails is tried again by the next cycle.
CleanupAbandoned(kept) ==
    /\ fs' = Without(fs, Ripe \ kept)
    /\ pendingAdm' = Without(pendingAdm,
           {t \in DOMAIN pendingAdm : pendingAdm[t] \in Ripe \ kept})
    /\ pendingCleanup' = pendingCleanup \ (Ripe \ kept)

PollFinalizations(draft) ==
    /\ \A t \in Candidates : draft[t] \in Drafts(t)
    /\ started' = [t \in Traces |-> IF t \in Candidates /\ started[t] = "no"
                                      THEN "counting" ELSE started[t]]
    /\ task' = IF Candidates = {} THEN Idle ELSE
           [kind |-> "waiting", left |-> Candidates,
            ready |-> {[trace |-> t, timedOut |-> draft[t] = "timeout",
                        recovered |-> life[t] \notin {"Draining"} \cup Terminal]
                         : t \in {u \in Candidates : draft[u] # "none"}}]

DrainCycle ==
    /\ Serving
    /\ \E kept \in SUBSET Ripe, draft \in [Candidates -> {"none", "final", "timeout"}] :
         /\ CleanupAbandoned(kept)
         /\ PollFinalizations(draft)
         /\ IF kept # {} \/ \E t \in Candidates : ~Populated(t) /\ draft[t] # "final"
              THEN Fault ELSE UNCHANGED faults
    /\ UNCHANGED <<storage, nonce, up, life, nextTrace, scopes, recovered, leaked, crashes>>

\* The wall clock.
TimeoutElapses(t) ==
    /\ started[t] = "counting"
    /\ started' = [started EXCEPT ![t] = "due"]
    /\ UNCHANGED <<storage, fs, nonce, up, life, nextTrace, scopes, pendingAdm,
                   pendingCleanup, recovered, leaked, task, crashes, faults>>

\* The loop over the drafts; one that fails is polled again next time.
Serve(drafts) ==
    \/ drafts = {} /\ task' = Idle
    \/ \E f \in drafts : task' = [kind |-> "scope", now |-> f, ready |-> drafts \ {f}]
NextDraft == Serve(task.ready)

\* persist_resource_waiting, for each candidate; a failure is only logged.
PersistWaiting ==
    /\ task.kind = "waiting"
    /\ \E failed \in SUBSET {t \in task.left : scopeRec[t].state = "active"} :
         /\ IF failed = {} THEN UNCHANGED faults ELSE Fault
         /\ scopeRec' = [t \in Traces |->
                IF t \in task.left \ failed /\ scopeRec[t].state = "active"
                  THEN [scopeRec[t] EXCEPT !.state = "waiting"] ELSE scopeRec[t]]
    /\ Serve(task.ready)
    /\ UNCHANGED <<traces, fs, nonce, up, memory, crashes>>

\* Mutant: the new verdict overwrites the one already in the row.
PersistFinalStateAgain ==
    /\ task.kind = "scope"
    /\ LET t == task.now.trace IN
       \/ /\ scopeRec' = [scopeRec EXCEPT ![t].state =
                            IF task.now.timedOut THEN "orphaned" ELSE "finalized"]
          /\ task' = [task EXCEPT !.kind = "trace"]
          /\ UNCHANGED faults
       \/ Fault /\ NextDraft /\ UNCHANGED scopeRec
    /\ UNCHANGED <<traces, fs, nonce, up, memory, crashes>>

\* persist_resource_final_state: a final state that is already in the row
\* stands, and decides what the rest of the finalization believes.
PersistFinalState ==
    /\ task.kind = "scope"
    /\ LET t == task.now.trace
           state == IF scopeRec[t].state \notin Live THEN scopeRec[t].state
                    ELSE IF task.now.timedOut THEN "orphaned" ELSE "finalized"
       IN  \/ /\ scopeRec' = [scopeRec EXCEPT ![t].state = state]
              /\ task' = [task EXCEPT !.kind = "trace",
                                      !.now.timedOut = state = "orphaned"]
              /\ UNCHANGED faults
           \/ Fault /\ NextDraft /\ UNCHANGED scopeRec
    /\ UNCHANGED <<traces, fs, nonce, up, memory, crashes>>

\* complete_recovered_resource_trace, or complete_after_resource_barrier and
\* persist_trace_state.
CompleteTrace ==
    /\ task.kind = "trace"
    /\ LET t == task.now.trace
           state == IF life[t] = "Draining" \/ task.now.recovered
                      THEN "Completed" ELSE life[t]
       IN  /\ life' = IF task.now.recovered THEN life ELSE [life EXCEPT ![t] = state]
           /\ \/ /\ traces' = [traces EXCEPT ![t] = state]
                 /\ task' = [task EXCEPT !.kind = "finish"]
                 /\ UNCHANGED faults
              \/ Fault /\ NextDraft /\ UNCHANGED traces
    /\ UNCHANGED <<scopeRec, fs, nonce, up, nextTrace, scopes, pendingAdm,
                   pendingCleanup, recovered, started, leaked, crashes>>

\* finish_finalization: an orphaned scope, or one whose removal fails, stays
\* in pending_cleanup.
FinishFinalization ==
    /\ task.kind = "finish"
    /\ LET t == task.now.trace
           d == scopes[t]
       IN  /\ started' = [started EXCEPT ![t] = "no"]
           /\ recovered' = recovered \ {t}
           /\ scopes' = Without(scopes, {t})
           /\ \/ /\ ~task.now.timedOut
                 /\ IsEmpty(d)
                 /\ fs' = Without(fs, {d})
                 /\ UNCHANGED <<pendingCleanup, faults>>
              \/ /\ IF task.now.timedOut THEN UNCHANGED faults ELSE Fault
                 /\ pendingCleanup' = pendingCleanup \cup {d}
                 /\ UNCHANGED fs
    /\ NextDraft
    /\ UNCHANGED <<storage, nonce, up, life, nextTrace, pendingAdm, leaked, crashes>>

-----------------------------------------------------------------------------
(* Crashes and recovery.                                                   *)

\* The daemon dies; when the host goes down the cgroups go with it.
Crash ==
    /\ up # "down"
    /\ crashes < MaxCrashes
    /\ crashes' = crashes + 1
    /\ up' = "down"
    /\ task' = Idle
    /\ life' = [t \in Traces |-> "Absent"]
    /\ nextTrace' = 1
    /\ scopes' = NoFun /\ pendingAdm' = NoFun
    /\ pendingCleanup' = {} /\ recovered' = {} /\ leaked' = {}
    /\ started' = [t \in Traces |-> "no"]
    /\ fs' \in {fs, NoFun}
    /\ UNCHANGED <<storage, nonce, faults>>

\* The traces complete_persisted_finalization_barriers still has to write.
Unsettled == {t \in Traces : /\ scopeRec[t].state \in {"finalized", "orphaned"}
                             /\ traces[t] \notin Terminal}

\* Mutant: recovery trusts the rows as it finds them.
StartWithoutBarriers ==
    /\ up = "down"
    /\ up' = "recovering"
    /\ task' = Idle
    /\ UNCHANGED <<storage, fs, nonce, memory, crashes, faults>>

\* prepare_recovery: list_resource_scopes.
StartDaemon ==
    /\ up = "down"
    /\ up' = "recovering"
    /\ task' = [kind |-> "barriers", left |-> Unsettled]
    /\ UNCHANGED <<storage, fs, nonce, memory, crashes, faults>>

\* complete_persisted_finalization_barriers; an error ends the start.
CompleteBarrier ==
    /\ task.kind = "barriers"
    /\ \/ task.left = {} /\ task' = Idle /\ UNCHANGED <<traces, up, faults>>
       \/ \E t \in task.left :
            /\ traces' = [traces EXCEPT ![t] = "Completed"]
            /\ task' = [task EXCEPT !.left = @ \ {t}]
            /\ UNCHANGED <<up, faults>>
       \/ /\ Fault
          /\ task.left # {}
          /\ up' = "down" /\ task' = Idle
          /\ UNCHANGED traces
    /\ UNCHANGED <<scopeRec, fs, nonce, memory, crashes>>

Registered(d) == \E t \in Traces : scopeRec[t].dir = d /\ scopeRec[t].state \in Live
\* Live rows whose directory is gone.
Lost == {t \in Traces : scopeRec[t].state \in Live /\ scopeRec[t].dir \notin DOMAIN fs}
\* Directories no live row names: unregistered or of a settled scope.
Stray == {d \in DOMAIN fs : ~Registered(d)}
StrayEmpty == {d \in Stray : IsEmpty(d)}

\* finalize_lost_scope, one transaction per scope.
FinalizeLost(S) ==
    /\ scopeRec' = [t \in Traces |-> IF t \in S
                      THEN [scopeRec[t] EXCEPT !.state = "orphaned"] ELSE scopeRec[t]]
    /\ traces' = [t \in Traces |-> IF t \in S /\ traces[t] \notin Terminal
                      THEN "Completed" ELSE traces[t]]

\* initialize_required: reconcile, remove the empty strays, settle the lost
\* scopes, keep the populated strays for later.  The trace id seed is one
\* past the highest row.
Reconcile ==
    /\ up = "recovering"
    /\ task = Idle
    /\ up' = "up"
    /\ scopes' = [t \in {u \in Traces : scopeRec[u].state \in Live} \ Lost
                    |-> scopeRec[t].dir]
    /\ recovered' = DOMAIN scopes'
    /\ \E due \in SUBSET {t \in DOMAIN scopes' : scopeRec[t].state = "waiting"} :
         started' = [t \in Traces |->
             IF t \in due THEN "due"
             ELSE IF t \in DOMAIN scopes' /\ scopeRec[t].state = "waiting"
               THEN "counting" ELSE "no"]
    /\ \E kept \in SUBSET StrayEmpty :
         /\ IF kept = {} THEN UNCHANGED faults ELSE Fault
         /\ fs' = Without(fs, StrayEmpty \ kept)
         /\ pendingCleanup' = (Stray \ StrayEmpty) \cup kept
    /\ FinalizeLost(Lost)
    /\ LET rows == {t \in Traces : traces[t] # "Absent"}
       IN  /\ nextTrace' \in {1} \cup {t + 1 : t \in rows}
           /\ \A t \in rows : t < nextTrace'
    /\ UNCHANGED <<nonce, life, pendingAdm, leaked, task, crashes>>

\* The start is given up half way: an error, with part of the work done.
ReconcileFails ==
    /\ up = "recovering"
    /\ task = Idle
    /\ Fault
    /\ up' = "down"
    /\ \E removed \in SUBSET StrayEmpty : fs' = Without(fs, removed)
    /\ \E S \in SUBSET Lost : FinalizeLost(S)
    /\ UNCHANGED <<nonce, memory, task, crashes>>

-----------------------------------------------------------------------------
Attach == \/ BeginAttach \/ CreateScope \/ AdmissionFails
          \/ MovePid \/ PersistTrace \/ RegisterScope

Drain == \/ DrainCycle \/ PersistWaiting \/ PersistFinalState
         \/ CompleteTrace \/ FinishFinalization

Start == StartDaemon \/ CompleteBarrier \/ Reconcile \/ ReconcileFails

Next ==
    \/ Attach \/ Drain \/ Start \/ Crash
    \/ \E d \in Dirs : Fork(d) \/ Exit(d)
    \/ \E t \in Traces : TraceEnds(t) \/ ForgetTrace(t) \/ TimeoutElapses(t)

\* The daemon finishes what it serves, drains once per cycle, is started
\* again after a crash, hears of an exited root, and time passes.  Nothing
\* makes a workload exit.
Fairness ==
    /\ WF_vars(Attach)
    /\ WF_vars(Drain)
    /\ WF_vars(Start)
    /\ \A t \in Traces :
         /\ WF_vars(TimeoutElapses(t))
         /\ WF_vars(t \in DOMAIN scopes /\ RootGone(t) /\ TraceEnds(t))

Spec == Init /\ [][Next]_vars /\ Fairness

-----------------------------------------------------------------------------
(* Properties.                                                             *)

\* Every variable has its type.
TypeOK ==
    /\ traces \in [Traces -> LifeStates]
    /\ scopeRec \in [Traces -> [state : {"none", "finalized", "orphaned"} \cup Live,
                                dir : Dirs \cup {0}]]
    /\ DOMAIN fs \subseteq Dirs
    /\ \A d \in DOMAIN fs : fs[d] \subseteq {"root", "child"}
    /\ nonce \in 1..(MaxDir + 1)
    /\ up \in {"down", "recovering", "up"}
    /\ life \in [Traces -> LifeStates]
    /\ nextTrace \in 1..(MaxTrace + 1)
    /\ DOMAIN scopes \subseteq Traces /\ Range(scopes) \subseteq Dirs
    /\ DOMAIN pendingAdm \subseteq Traces /\ Range(pendingAdm) \subseteq Dirs
    /\ pendingCleanup \cup leaked \subseteq Dirs
    /\ recovered \subseteq Traces
    /\ started \in [Traces -> {"no", "counting", "due"}]
    /\ crashes \in 0..MaxCrashes /\ faults \in 0..MaxFaults

\* Once the daemon has dropped a trace's scope from memory (which opens the
\* barrier of resource_barrier_ready), the scope row is final and the trace
\* row terminal; after a restart this holds of every row that was not taken
\* over.  A crash at any point of a finalization must be made good.
BarrierMeansSettled ==
    up = "up" => \A t \in Traces \ DOMAIN scopes :
        scopeRec[t] # NoScope => /\ scopeRec[t].state \notin Live
                                 /\ traces[t] \in Terminal

\* A scope recorded as finalized, and not as orphaned, was exact: nothing
\* runs in it, whatever crashes and retries led there.
FinalizedIsEmpty ==
    \A t \in Traces : scopeRec[t].state = "finalized" => IsEmpty(scopeRec[t].dir)

\* "Control completion is persisted before removing the empty scope": while
\* the host stays up, a registered directory disappears only with its row
\* final and its trace terminal.
CompletedBeforeRemoval ==
    [][fs' # NoFun \/ up' = "up" =>
         \A d \in DOMAIN fs \ DOMAIN fs', t \in Traces :
           scopeRec[t].dir = d => /\ scopeRec[t].state \notin Live
                                  /\ traces[t] \in Terminal]_vars

\* The verdict on a scope is given once, and an ended trace does not come
\* back: no retry, crash or recovery changes a final scope row or makes a
\* terminal trace row non-terminal.
VerdictIsFinal ==
    [][\A t \in Traces :
         /\ scopeRec[t].state \in {"finalized", "orphaned"} => scopeRec'[t] = scopeRec[t]
         /\ traces[t] \in Terminal => traces'[t] \in Terminal]_vars

\* A directory that is empty for good is removed in the end, through every
\* crash, restart and failed removal.
DirectoriesReclaimed ==
    \A d \in Dirs : <>[](IsEmpty(d) /\ d \notin leaked) => <>[](d \notin DOMAIN fs)

\* A registered scope whose root is gone does not stay live for ever, even
\* when a descendant never exits: the timeout settles it.
ScopesSettle ==
    \A t \in Traces :
      ~<>[](/\ scopeRec[t].state \in Live
            /\ scopeRec[t].dir \in DOMAIN fs => "root" \notin fs[scopeRec[t].dir])

=============================================================================
