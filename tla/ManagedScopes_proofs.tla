------------------------ MODULE ManagedScopes_proofs ------------------------
(***************************************************************************)
(* What the database says about managed scopes, for any number of traces,  *)
(* directories, crashes and faults: the inductive invariant, which says    *)
(* what the database, the memory of the daemon and the handler in          *)
(* execution say about each other, its steps, the order in which           *)
(* directories are removed, and the theorems.                              *)
(***************************************************************************)
EXTENDS ManagedScopes, TLAPS

States == {"none", "finalized", "orphaned"} \cup Live
Rows == [state : States, dir : Nat]
DraftSet == [trace : Traces, timedOut : BOOLEAN, recovered : BOOLEAN]
Tasks ==
    {Idle}
    \cup [kind : {"create"}, trace : Traces]
    \cup [kind : {"move", "persist", "register"}, trace : Traces, dir : Nat]
    \cup [kind : {"waiting"}, left : SUBSET Traces, ready : SUBSET DraftSet]
    \cup [kind : {"scope", "trace", "finish"}, now : DraftSet, ready : SUBSET DraftSet]
    \cup [kind : {"barriers"}, left : SUBSET Traces]

\* The types of what the theorems are about.
Types ==
    /\ traces \in [Traces -> LifeStates]
    /\ scopeRec \in [Traces -> Rows]
    /\ life \in [Traces -> LifeStates]
    /\ nonce \in Nat \ {0}
    /\ nextTrace \in Nat \ {0}
    /\ up \in {"down", "recovering", "up"}
    /\ DOMAIN scopes \subseteq Traces
    /\ recovered \subseteq DOMAIN scopes
    /\ task \in Tasks

\* A scope row is written behind its trace's row and names an old directory.
RowsAgree ==
    \A t \in Traces :
        /\ scopeRec[t].state = "none" => scopeRec[t] = NoScope
        /\ scopeRec[t] # NoScope => traces[t] # "Absent"
        /\ scopeRec[t].dir < nonce

\* What the daemon has in memory follows the rows: the trace of a running
\* daemon is not over in the database, its scopes are registered, a recovered
\* trace is not in the registry, and the next id is above every row.
MemoryAgrees ==
    \A t \in Traces :
        /\ life[t] \in {"Active", "Draining"} => traces[t] \notin Terminal
        /\ life[t] \in {"Active", "Draining"} /\ t \notin DOMAIN scopes
             => scopeRec[t] = NoScope
        /\ t \in DOMAIN scopes
             => scopeRec[t] # NoScope /\ scopes[t] = scopeRec[t].dir
        /\ t \in recovered => life[t] = "Absent"
        /\ up = "up" => t < nextTrace \/ (traces[t] = "Absent" /\ life[t] = "Absent")
        /\ up # "up" => life[t] = "Absent" /\ t \notin DOMAIN scopes

\* A draft is of a scope that is still held; an exact one is of an empty scope.
DraftOK(f) ==
    /\ f.trace \in DOMAIN scopes
    /\ ~f.timedOut => IsEmpty(scopes[f.trace])
    /\ f.recovered => life[f.trace] = "Absent"
    /\ ~f.recovered => life[f.trace] \in {"Draining"} \cup Terminal

DraftsOK(D) ==
    /\ \A f \in D : DraftOK(f)
    /\ \A f, g \in D : f.trace = g.trace => f = g

\* What an attach in progress has written so far.
AttachAgrees ==
    task.kind \in {"create", "move", "persist", "register"} =>
        /\ up = "up"
        /\ task.trace < nextTrace
        /\ scopeRec[task.trace] = NoScope
        /\ (traces[task.trace] = "Absent") <=> (task.kind # "register")
        /\ task.kind # "create" => task.dir < nonce
        /\ task.kind = "move" => \A t \in Traces : scopeRec[t].dir # task.dir

\* How far a drain in progress has got with the scope it works on.
DrainAgrees ==
    /\ task.kind = "waiting" =>
         up = "up" /\ task.left \subseteq DOMAIN scopes /\ DraftsOK(task.ready)
    /\ task.kind \in {"scope", "trace", "finish"} =>
         /\ up = "up"
         /\ DraftsOK(task.ready) /\ DraftOK(task.now)
         /\ \A f \in task.ready : f.trace # task.now.trace
    /\ task.kind \in {"trace", "finish"} =>
         scopeRec[task.now.trace].state \notin Live
    /\ task.kind = "finish" =>
         /\ traces[task.now.trace] \in Terminal
         /\ life[task.now.trace] \notin {"Active", "Draining"}

\* A start leaves no finished scope with an unfinished trace behind.
StartAgrees ==
    /\ task.kind = "barriers" => up = "recovering" /\ Unsettled \subseteq task.left
    /\ task.kind = "idle" /\ up = "recovering" => Unsettled = {}

IInv ==
    /\ Types /\ RowsAgree /\ MemoryAgrees
    /\ AttachAgrees /\ DrainAgrees /\ StartAgrees
    /\ BarrierMeansSettled /\ FinalizedIsEmpty

-----------------------------------------------------------------------------
\* No step puts a process into a cgroup that nothing can enter any more.
EmptyStays == \A d \in Nat : IsEmpty(d) => IsEmpty(d)'

\* With adds one key, Without removes keys.
LEMMA WithFacts ==
    ASSUME NEW f, NEW x, NEW y
    PROVE  /\ DOMAIN With(f, x, y) = DOMAIN f \cup {x}
           /\ With(f, x, y)[x] = y
           /\ \A z \in DOMAIN f : z # x => With(f, x, y)[z] = f[z]
  BY Zenon DEF With

\* Without removes the given keys and changes nothing else.
LEMMA WithoutFacts ==
    ASSUME NEW f, NEW S
    PROVE  /\ DOMAIN Without(f, S) = DOMAIN f \ S
           /\ \A z \in DOMAIN f \ S : Without(f, S)[z] = f[z]
  BY Zenon DEF Without, Restrict

\* Removing directories empties none that was not empty.
LEMMA RemovalKeepsEmpty ==
    \A S : fs' = Without(fs, S) => EmptyStays
  BY Zenon DEF EmptyStays, IsEmpty, Without, Restrict

\* A step that leaves the cgroups alone keeps the empty ones empty.
LEMMA SameKeepsEmpty ==
    ASSUME UNCHANGED fs
    PROVE  EmptyStays
  BY Zenon DEF EmptyStays, IsEmpty

\* What the drafts say does not depend on anything but scopes, life and the
\* emptiness of the cgroups.
LEMMA DraftsStay ==
    ASSUME NEW D \in SUBSET DraftSet, DraftsOK(D), EmptyStays,
           \A t \in DOMAIN scopes : scopes[t] \in Nat,
           \A f \in D : /\ f.trace \in DOMAIN scopes'
                        /\ scopes'[f.trace] = scopes[f.trace]
                        /\ life'[f.trace] = life[f.trace]
    PROVE  DraftsOK(D)'
  BY Zenon DEF DraftsOK, DraftOK, EmptyStays, DraftSet

\* The daemon starts on an empty database with nothing in memory.
LEMMA InitIInv == Init => IInv
  <1> SUFFICES ASSUME Init PROVE IInv
    OBVIOUS
  <1>1. Types
    BY BoundsAssumption DEF Init, Types, NoFun, Rows, States, NoScope, Tasks,
       LifeStates, Live
  <1>2. task.kind = "idle" /\ \A t \in Traces : scopeRec[t] = NoScope
    BY Zenon DEF Init, Idle
  <1>3. RowsAgree
    BY <1>2 DEF Init, RowsAgree, NoScope
  <1>4. MemoryAgrees
    BY Zenon, <1>2 DEF Init, MemoryAgrees, NoFun
  <1>5. AttachAgrees /\ DrainAgrees /\ StartAgrees
    BY Zenon, <1>2 DEF Init, AttachAgrees, DrainAgrees, StartAgrees
  <1>6. BarrierMeansSettled /\ FinalizedIsEmpty
    BY <1>2 DEF BarrierMeansSettled, FinalizedIsEmpty, NoScope
  <1> QED BY Zenon, <1>1, <1>3, <1>4, <1>5, <1>6 DEF IInv

\* Steps of the workload and the clock.
LEMMA OutsidePreserves ==
    ASSUME IInv, EmptyStays,
           UNCHANGED <<traces, scopeRec, nonce, up, life, nextTrace, scopes,
                       recovered, task>>
    PROVE  IInv'
  <1>1. Types' /\ RowsAgree' /\ MemoryAgrees' /\ AttachAgrees' /\ StartAgrees'
        /\ BarrierMeansSettled'
    BY Zenon DEF IInv, Types, RowsAgree, MemoryAgrees, AttachAgrees, StartAgrees,
           BarrierMeansSettled, Unsettled
  <1>2. FinalizedIsEmpty'
    BY Zenon DEF IInv, FinalizedIsEmpty, EmptyStays, Types, Rows
  <1>3. \A t \in DOMAIN scopes : scopes[t] \in Nat
    BY Zenon DEF IInv, MemoryAgrees, Types, Rows
  <1>4. \A D : DraftsOK(D) /\ D \subseteq DraftSet => DraftsOK(D)'
    BY Zenon, <1>3 DEF DraftsOK, DraftOK, EmptyStays, DraftSet
  <1>5. \A f : DraftOK(f) /\ f \in DraftSet => DraftOK(f)'
    BY Zenon, <1>3 DEF DraftOK, EmptyStays, DraftSet
  <1>6. DrainAgrees'
    BY <1>4, <1>5 DEF IInv, DrainAgrees, Types, Tasks, Idle
  <1> QED BY Zenon, <1>1, <1>2, <1>6 DEF IInv

-----------------------------------------------------------------------------
(* The attach.                                                             *)

\* While no drain and no start is under way, nothing is to be shown of them.
LEMMA QuietTask ==
    (up' = "up" /\ task'.kind \in {"idle", "create", "move", "persist", "register"})
        => DrainAgrees' /\ StartAgrees'
  BY Zenon DEF DrainAgrees, StartAgrees

\* Rows that no step touches stay exact.
LEMMA ExactStays ==
    IInv /\ EmptyStays /\ UNCHANGED scopeRec => FinalizedIsEmpty'
  BY Zenon DEF IInv, FinalizedIsEmpty, EmptyStays, Types, Rows

\* The reserved id is above every row, so nothing is known of its trace.
LEMMA BeginAttachPreserves == IInv /\ BeginAttach => IInv'
  <1> SUFFICES ASSUME IInv, BeginAttach PROVE IInv'
    OBVIOUS
  <1>1. /\ nextTrace \in Traces /\ nextTrace' = nextTrace + 1 /\ up = "up"
        /\ task' = [kind |-> "create", trace |-> nextTrace]
        /\ life' = [life EXCEPT ![nextTrace] = "Starting"]
        /\ UNCHANGED <<traces, scopeRec, fs, nonce, up, scopes, recovered>>
    BY BoundsAssumption DEF BeginAttach, IInv, Types, Serving, storage, Traces
  <1>2. Types'
    BY <1>1 DEF IInv, Types, Tasks, LifeStates
  <1>3. traces[nextTrace] = "Absent" /\ scopeRec[nextTrace] = NoScope
        /\ nextTrace \notin DOMAIN scopes
    BY <1>1 DEF IInv, MemoryAgrees, RowsAgree, Traces
  <1>4. RowsAgree' /\ BarrierMeansSettled'
    BY Zenon, <1>1 DEF IInv, RowsAgree, BarrierMeansSettled
  <1>5. MemoryAgrees'
    BY <1>1, <1>3 DEF IInv, Types, MemoryAgrees, Traces
  <1>6. AttachAgrees'
    BY <1>1, <1>3 DEF AttachAgrees, Traces
  <1> QED
    BY Zenon, <1>1, <1>2, <1>4, <1>5, <1>6, QuietTask, ExactStays, SameKeepsEmpty DEF IInv

\* The rows are not touched before PersistTrace.
LEMMA AdmissionPreserves ==
    ASSUME IInv, EmptyStays, task.kind \in {"create", "move", "persist", "register"},
           UNCHANGED <<traces, scopeRec, up, nextTrace, scopes, recovered>>,
           nonce' \in Nat, nonce <= nonce',
           \/ life' = life
           \/ life' = [life EXCEPT ![task.trace] = "Failed"],
           \/ task' = Idle
           \/ /\ task.kind # "register"
              /\ \E k \in {"move", "persist"}, d \in Nat :
                   /\ task' = [kind |-> k, trace |-> task.trace, dir |-> d]
                   /\ d < nonce'
                   /\ k = "move" => \A t \in Traces : scopeRec[t].dir # d
    PROVE  IInv'
  <1>1. /\ task.trace \in Traces /\ task.trace < nextTrace
        /\ up = "up" /\ scopeRec[task.trace] = NoScope
    BY DEF IInv, Types, Tasks, Idle, AttachAgrees
  <1>2. Types'
    BY <1>1 DEF IInv, Types, Tasks, LifeStates, Terminal
  <1>3. RowsAgree' /\ BarrierMeansSettled'
    BY DEF IInv, RowsAgree, BarrierMeansSettled, Types, Rows
  <1>4. task.trace \notin recovered
    BY Zenon, <1>1 DEF IInv, Types, MemoryAgrees
  <1>5. MemoryAgrees'
    BY Zenon, <1>1, <1>4 DEF IInv, Types, MemoryAgrees, Terminal
  <1>6. AttachAgrees'
    BY <1>1 DEF IInv, AttachAgrees, Idle
  <1>7. task'.kind \in {"idle", "move", "persist"}
    BY DEF Idle
  <1> QED
    BY Zenon, <1>1, <1>2, <1>3, <1>5, <1>6, <1>7, QuietTask, ExactStays DEF IInv

\* A new directory is empty and named by no row.
LEMMA CreateScopePreserves == IInv /\ CreateScope => IInv'
  <1> SUFFICES ASSUME IInv, CreateScope PROVE IInv'
    OBVIOUS
  <1>1. EmptyStays
    BY Zenon DEF CreateScope, EmptyStays, IsEmpty, With
  <1>2. \A t \in Traces : scopeRec[t].dir # nonce
    BY DEF IInv, RowsAgree, Types, Rows
  <1> QED
    BY <1>1, <1>2, AdmissionPreserves DEF CreateScope, storage, memory, IInv, Types

\* A failed admission removes at most the directory it made.
LEMMA AdmissionFailsPreserves == IInv /\ AdmissionFails => IInv'
  <1> SUFFICES ASSUME IInv, AdmissionFails PROVE IInv'
    OBVIOUS
  <1>1. EmptyStays
    BY Zenon, RemovalKeepsEmpty, SameKeepsEmpty DEF AdmissionFails
  <1>2. nonce \in Nat \ {0}
    BY Zenon DEF IInv, Types
  <1>3. /\ UNCHANGED <<traces, scopeRec, up, nextTrace, scopes, recovered, nonce>>
        /\ task.kind \in {"create", "move"}
    BY Zenon DEF AdmissionFails, storage
  <1>4. \/ task' = Idle /\ life' = [life EXCEPT ![task.trace] = "Failed"]
        \/ task' = [kind |-> "persist", trace |-> task.trace, dir |-> 0] /\ life' = life
    BY Zenon DEF AdmissionFails, FailAttach
  <1> QED
    BY <1>1, <1>2, <1>3, <1>4, AdmissionPreserves

\* The directory the root is moved into is in no row yet.
LEMMA MovePidPreserves == IInv /\ MovePid => IInv'
  <1> SUFFICES ASSUME IInv, MovePid PROVE IInv'
    OBVIOUS
  <1>1. /\ task \in [kind : {"move"}, trace : Traces, dir : Nat]
        /\ up = "up" /\ task.trace < nextTrace /\ task.dir < nonce
        /\ scopeRec[task.trace] = NoScope /\ traces[task.trace] = "Absent"
        /\ \A t \in Traces : scopeRec[t].dir # task.dir
    BY DEF MovePid, IInv, Types, Tasks, Idle, AttachAgrees
  <1>2. /\ UNCHANGED <<traces, scopeRec, nonce, up, nextTrace, scopes, recovered>>
        /\ \/ UNCHANGED life
           \/ life' = [life EXCEPT ![task.trace] = "Failed"]
        /\ \/ task' = Idle
           \/ task' = [task EXCEPT !.kind = "persist"]
        /\ \/ UNCHANGED fs
           \/ fs' = [fs EXCEPT ![task.dir] = {"root"}]
    BY Zenon DEF MovePid, FailAttach, storage
  <1>3. Types'
    BY Zenon, <1>1, <1>2 DEF IInv, Types, Tasks, LifeStates, Terminal
  <1>4. RowsAgree' /\ BarrierMeansSettled'
    BY Zenon, <1>2 DEF IInv, RowsAgree, BarrierMeansSettled
  <1>5. FinalizedIsEmpty'
    BY Zenon, <1>1, <1>2 DEF IInv, FinalizedIsEmpty, IsEmpty
  <1>6. task.trace \notin recovered
    BY Zenon, <1>1 DEF IInv, Types, MemoryAgrees
  <1>7. MemoryAgrees'
    BY <1>1, <1>2, <1>6 DEF IInv, Types, MemoryAgrees, Terminal
  <1>8. task'.kind \in {"idle", "persist"}
    BY <1>1, <1>2 DEF Idle
  <1>9. AttachAgrees'
    BY <1>1, <1>2, <1>8 DEF AttachAgrees, Idle
  <1> QED
    BY Zenon, <1>1, <1>2, <1>3, <1>4, <1>5, <1>7, <1>8, <1>9, QuietTask DEF IInv

\* The trace row is written while its scope row is still missing.
LEMMA PersistTracePreserves == IInv /\ PersistTrace => IInv'
  <1> SUFFICES ASSUME IInv, PersistTrace PROVE IInv'
    OBVIOUS
  <1>1. /\ task \in [kind : {"persist"}, trace : Traces, dir : Nat]
        /\ up = "up" /\ task.trace < nextTrace /\ task.dir < nonce
        /\ scopeRec[task.trace] = NoScope /\ traces[task.trace] = "Absent"
    BY DEF PersistTrace, IInv, Types, Tasks, Idle, AttachAgrees
  <1>2. UNCHANGED <<scopeRec, fs, nonce, up, nextTrace, scopes, recovered>>
    BY Zenon DEF PersistTrace
  <1>3. CASE UNCHANGED traces /\ FailAttach(task.trace)
    BY <1>1, <1>2, <1>3, AdmissionPreserves, SameKeepsEmpty
    DEF FailAttach, IInv, Types
  <1>4. CASE /\ life' = [life EXCEPT ![task.trace] = "Active"]
             /\ traces' = [traces EXCEPT ![task.trace] = "Active"]
             /\ \/ task' = Idle
                \/ task' = [task EXCEPT !.kind = "register"]
    <2>1. Types'
      BY Zenon, <1>1, <1>2, <1>4 DEF IInv, Types, Tasks, LifeStates
    <2>2. RowsAgree' /\ BarrierMeansSettled'
      BY Zenon, <1>1, <1>2, <1>4 DEF IInv, RowsAgree, BarrierMeansSettled, Types
    <2>3. task.trace \notin recovered
      BY Zenon, <1>1 DEF IInv, Types, MemoryAgrees
    <2>4. MemoryAgrees'
      BY Zenon, <1>1, <1>2, <1>4, <2>3 DEF IInv, Types, MemoryAgrees, Terminal
    <2>5. task'.kind \in {"idle", "register"}
      BY <1>1, <1>4 DEF Idle
    <2>6. AttachAgrees'
      BY <1>1, <1>2, <1>4, <2>5 DEF AttachAgrees, Idle, IInv, Types
    <2> QED
      BY Zenon, <1>1, <1>2, <2>1, <2>2, <2>4, <2>5, <2>6, QuietTask, ExactStays,
         SameKeepsEmpty DEF IInv
  <1> QED BY Zenon, <1>3, <1>4 DEF PersistTrace

\* The scope row and the scope in memory appear together; a failure leaves
\* neither.
LEMMA RegisterScopePreserves == IInv /\ RegisterScope => IInv'
  <1> SUFFICES ASSUME IInv, RegisterScope PROVE IInv'
    OBVIOUS
  <1> DEFINE t == task.trace
  <1>1. /\ task \in [kind : {"register"}, trace : Traces, dir : Nat]
        /\ up = "up" /\ t < nextTrace /\ task.dir < nonce
        /\ scopeRec[t] = NoScope /\ traces[t] # "Absent"
    BY DEF RegisterScope, IInv, Types, Tasks, Idle, AttachAgrees
  <1>2. UNCHANGED <<fs, nonce, up, nextTrace>> /\ task' = Idle
    BY Zenon DEF RegisterScope, FailAttach
  <1>3. t \notin recovered
    BY Zenon, <1>1 DEF IInv, Types, MemoryAgrees
  <1>4. AttachAgrees' /\ DrainAgrees' /\ StartAgrees'
    BY Zenon, <1>1, <1>2, QuietTask DEF AttachAgrees, Idle
  <1>5. CASE /\ scopeRec' = [scopeRec EXCEPT ![t] = [state |-> "active", dir |-> task.dir]]
             /\ recovered' = recovered \ {t}
             /\ scopes' = With(scopes, t, task.dir)
             /\ UNCHANGED <<traces, life>>
    <2>1. /\ DOMAIN scopes' = DOMAIN scopes \cup {t}
          /\ scopes'[t] = task.dir
          /\ \A u \in DOMAIN scopes : u # t => scopes'[u] = scopes[u]
      BY Zenon, <1>5 DEF With
    <2>2. Types'
      BY Zenon, <1>1, <1>2, <1>5, <2>1 DEF IInv, Types, Tasks, Rows, States, Live
    <2>3. RowsAgree' /\ BarrierMeansSettled'
      BY Zenon, <1>1, <1>2, <1>5, <2>1 DEF IInv, RowsAgree, BarrierMeansSettled, Types, Rows
    <2>4. MemoryAgrees'
      BY Zenon, <1>1, <1>2, <1>3, <1>5, <2>1 DEF IInv, Types, MemoryAgrees, NoScope, Rows
    <2>5. FinalizedIsEmpty'
      BY Zenon, <1>1, <1>2, <1>5 DEF IInv, FinalizedIsEmpty, IsEmpty, Types, Rows
    <2> QED BY Zenon, <1>4, <2>2, <2>3, <2>4, <2>5 DEF IInv
  <1>6. CASE /\ UNCHANGED <<scopeRec, scopes, recovered>>
             /\ life' = [life EXCEPT ![t] = "Failed"]
             /\ \/ UNCHANGED traces
                \/ traces' = [traces EXCEPT ![t] = "Failed"]
    <2>1. Types'
      BY Zenon, <1>1, <1>2, <1>6 DEF IInv, Types, Tasks, LifeStates, Terminal
    <2>2. RowsAgree' /\ BarrierMeansSettled'
      BY Zenon, <1>1, <1>2, <1>6 DEF IInv, RowsAgree, BarrierMeansSettled, Types
    <2>3. MemoryAgrees'
      BY Zenon, <1>1, <1>2, <1>3, <1>6 DEF IInv, Types, MemoryAgrees, Terminal
    <2> QED BY Zenon, <1>2, <1>4, <1>6, <2>1, <2>2, <2>3, ExactStays, SameKeepsEmpty DEF IInv
  <1> QED BY Zenon, <1>5, <1>6 DEF RegisterScope, FailAttach

-----------------------------------------------------------------------------
(* The life of a trace.                                                    *)

\* A trace that ends keeps its scope in memory, so the barrier stays shut.
LEMMA TraceEndsPreserves == ASSUME NEW t \in Traces, IInv, TraceEnds(t) PROVE IInv'
  <1>1. task = Idle /\ up = "up" /\ life[t] \in {"Active", "Draining"}
    BY Zenon DEF TraceEnds, Serving
  <1>2. PICK s \in {"Draining", "Completed", "Exited"} :
          /\ life' = [life EXCEPT ![t] = s]
          /\ traces' = [traces EXCEPT ![t] = s] \/ UNCHANGED traces
    BY Zenon DEF TraceEnds
  <1>3. UNCHANGED <<scopeRec, fs, nonce, up, nextTrace, scopes, recovered, task>>
    BY Zenon DEF TraceEnds
  <1>4. Types'
    BY Zenon, <1>2, <1>3 DEF IInv, Types, LifeStates, Terminal
  <1>5. t \notin recovered /\ traces[t] \notin Terminal
        /\ (t \notin DOMAIN scopes => scopeRec[t] = NoScope)
    BY Zenon, <1>1 DEF IInv, MemoryAgrees
  <1>6. RowsAgree' /\ BarrierMeansSettled'
    BY Zenon, <1>1, <1>2, <1>3, <1>5 DEF IInv, RowsAgree, BarrierMeansSettled, Types
  <1>7. t < nextTrace
    BY Zenon, <1>1 DEF IInv, MemoryAgrees
  <1>8. MemoryAgrees'
    BY Zenon, <1>1, <1>2, <1>3, <1>5, <1>7 DEF IInv, Types, MemoryAgrees, Terminal
  <1>9. task'.kind = "idle" /\ AttachAgrees'
    BY Zenon, <1>1, <1>3 DEF Idle, AttachAgrees
  <1> QED
    BY Zenon, <1>1, <1>3, <1>4, <1>6, <1>8, <1>9, QuietTask, ExactStays, SameKeepsEmpty DEF IInv

\* Forgetting a trace touches the registry only.
LEMMA ForgetTracePreserves == ASSUME NEW t \in Traces, IInv, ForgetTrace(t) PROVE IInv'
  <1>1. task = Idle /\ up = "up" /\ life' = [life EXCEPT ![t] = "Absent"]
        /\ UNCHANGED <<traces, scopeRec, fs, nonce, up, nextTrace, scopes, recovered, task>>
    BY Zenon DEF ForgetTrace, Serving, storage
  <1>2. Types'
    BY Zenon, <1>1 DEF IInv, Types, LifeStates
  <1>3. RowsAgree' /\ BarrierMeansSettled'
    BY Zenon, <1>1 DEF IInv, RowsAgree, BarrierMeansSettled
  <1>4. MemoryAgrees'
    BY Zenon, <1>1 DEF IInv, Types, MemoryAgrees
  <1>5. task'.kind = "idle" /\ AttachAgrees'
    BY Zenon, <1>1 DEF Idle, AttachAgrees
  <1> QED
    BY Zenon, <1>1, <1>2, <1>3, <1>4, <1>5, QuietTask, ExactStays, SameKeepsEmpty DEF IInv

-----------------------------------------------------------------------------
(* Crash and start.                                                        *)

\* A crash empties the memory and keeps the rows.
LEMMA CrashPreserves == IInv /\ Crash => IInv'
  <1> SUFFICES ASSUME IInv, Crash PROVE IInv'
    OBVIOUS
  <1>1. /\ up' = "down" /\ task' = Idle /\ nextTrace' = 1
        /\ life' = [t \in Traces |-> "Absent"]
        /\ DOMAIN scopes' = {} /\ recovered' = {}
        /\ UNCHANGED <<traces, scopeRec, nonce>>
    BY Zenon DEF Crash, NoFun, storage
  <1>2. EmptyStays
    BY Zenon DEF Crash, NoFun, EmptyStays, IsEmpty
  <1>3. Types'
    BY <1>1 DEF IInv, Types, Tasks, LifeStates
  <1>4. RowsAgree' /\ MemoryAgrees' /\ BarrierMeansSettled'
    BY Zenon, <1>1 DEF IInv, RowsAgree, MemoryAgrees, BarrierMeansSettled
  <1>5. AttachAgrees' /\ DrainAgrees' /\ StartAgrees'
    BY Zenon, <1>1 DEF AttachAgrees, DrainAgrees, StartAgrees, Idle
  <1> QED BY Zenon, <1>1, <1>2, <1>3, <1>4, <1>5, ExactStays DEF IInv

\* The start notes every trace whose finalization was cut short.
LEMMA StartDaemonPreserves == IInv /\ StartDaemon => IInv'
  <1> SUFFICES ASSUME IInv, StartDaemon PROVE IInv'
    OBVIOUS
  <1>1. /\ up = "down" /\ up' = "recovering"
        /\ task' = [kind |-> "barriers", left |-> Unsettled]
        /\ UNCHANGED <<traces, scopeRec, fs, nonce, life, nextTrace, scopes, recovered>>
    BY Zenon DEF StartDaemon, storage, memory
  <1>2. Types'
    BY Zenon, <1>1 DEF IInv, Types, Tasks, Unsettled
  <1>3. RowsAgree' /\ MemoryAgrees' /\ BarrierMeansSettled'
    BY Zenon, <1>1 DEF IInv, RowsAgree, MemoryAgrees, BarrierMeansSettled
  <1>4. AttachAgrees' /\ DrainAgrees' /\ StartAgrees'
    BY Zenon, <1>1 DEF AttachAgrees, DrainAgrees, StartAgrees, Unsettled
  <1> QED BY Zenon, <1>1, <1>2, <1>3, <1>4, ExactStays, SameKeepsEmpty DEF IInv

\* Each write takes one trace off that list.
LEMMA CompleteBarrierPreserves == IInv /\ CompleteBarrier => IInv'
  <1> SUFFICES ASSUME IInv, CompleteBarrier PROVE IInv'
    OBVIOUS
  <1>1. /\ task \in [kind : {"barriers"}, left : SUBSET Traces]
        /\ up = "recovering" /\ Unsettled \subseteq task.left
        /\ UNCHANGED <<scopeRec, fs, nonce, life, nextTrace, scopes, recovered>>
    BY DEF CompleteBarrier, IInv, Types, Tasks, Idle, StartAgrees, memory
  <1>2. up' \in {"recovering", "down"}
    BY Zenon, <1>1 DEF CompleteBarrier
  <1>3. PICK S \in SUBSET task.left :
          /\ traces' = [t \in Traces |-> IF t \in S THEN "Completed" ELSE traces[t]]
          /\ \/ task' = Idle /\ (up' = "down" \/ Unsettled = {}) /\ S = {}
             \/ task' = [task EXCEPT !.left = @ \ S] /\ UNCHANGED up
    <2>1. CASE task.left = {} /\ task' = Idle /\ UNCHANGED <<traces, up>>
      <3> WITNESS {} \in SUBSET task.left
      <3> QED BY Zenon, <1>1, <2>1 DEF IInv, Types
    <2>2. CASE \E t \in task.left : /\ traces' = [traces EXCEPT ![t] = "Completed"]
                                    /\ task' = [task EXCEPT !.left = @ \ {t}]
                                    /\ UNCHANGED up
      <3> PICK t \in task.left : /\ traces' = [traces EXCEPT ![t] = "Completed"]
                                 /\ task' = [task EXCEPT !.left = @ \ {t}]
                                 /\ UNCHANGED up
        BY Zenon, <2>2
      <3> WITNESS {t} \in SUBSET task.left
      <3> QED BY Zenon, <1>1 DEF IInv, Types
    <2>3. CASE up' = "down" /\ task' = Idle /\ UNCHANGED traces
      <3> WITNESS {} \in SUBSET task.left
      <3> QED BY Zenon, <1>1, <2>3 DEF IInv, Types
    <2> QED BY Zenon, <2>1, <2>2, <2>3 DEF CompleteBarrier
  <1>4. Types'
    BY <1>1, <1>2, <1>3 DEF IInv, Types, Tasks, LifeStates, Terminal
  <1>5. RowsAgree' /\ BarrierMeansSettled'
    BY Zenon, <1>1, <1>2, <1>3 DEF IInv, RowsAgree, BarrierMeansSettled
  <1>6. MemoryAgrees'
    BY Zenon, <1>1, <1>2, <1>3 DEF IInv, MemoryAgrees
  <1>7. Unsettled' \subseteq Unsettled \ S
    BY Zenon, <1>1, <1>3 DEF Unsettled, Terminal
  <1>8. task'.kind \in {"idle", "barriers"} /\ StartAgrees'
    BY <1>1, <1>2, <1>3, <1>7 DEF StartAgrees, Idle
  <1>9. AttachAgrees' /\ DrainAgrees'
    BY Zenon, <1>8 DEF AttachAgrees, DrainAgrees
  <1> QED BY Zenon, <1>1, <1>4, <1>5, <1>6, <1>8, <1>9, ExactStays, SameKeepsEmpty DEF IInv

\* finalize_lost_scope touches live rows only.
LEMMA LostFacts ==
    ASSUME IInv, NEW S \in SUBSET Lost, FinalizeLost(S)
    PROVE  /\ traces' \in [Traces -> LifeStates] /\ scopeRec' \in [Traces -> Rows]
           /\ \A t \in Traces :
                /\ scopeRec'[t].dir = scopeRec[t].dir
                /\ (traces'[t] = "Absent") <=> (traces[t] = "Absent")
                /\ traces[t] \in Terminal => traces'[t] \in Terminal
                /\ t \in S => /\ scopeRec[t].state \in Live
                              /\ scopeRec'[t].state = "orphaned"
                              /\ traces'[t] \in Terminal
                /\ t \notin S => scopeRec'[t] = scopeRec[t] /\ traces'[t] = traces[t]
           /\ RowsAgree /\ nonce' = nonce => RowsAgree'
  <1>1. S \subseteq Traces /\ \A t \in S : scopeRec[t].state \in Live
    BY Zenon DEF Lost
  <1>2. \A t \in S : traces[t] # "Absent"
    BY <1>1 DEF IInv, RowsAgree, NoScope, Live
  <1>3. scopeRec' \in [Traces -> Rows]
    BY Zenon DEF FinalizeLost, IInv, Types, Rows, States
  <1>4. traces' \in [Traces -> LifeStates]
    BY Zenon DEF FinalizeLost, IInv, Types, LifeStates, Terminal
  <1>5. \A t \in Traces :
          /\ scopeRec'[t].dir = scopeRec[t].dir
          /\ (traces'[t] = "Absent") <=> (traces[t] = "Absent")
          /\ traces[t] \in Terminal => traces'[t] \in Terminal
          /\ t \in S => /\ scopeRec'[t].state = "orphaned"
                        /\ traces'[t] \in Terminal
          /\ t \notin S => scopeRec'[t] = scopeRec[t] /\ traces'[t] = traces[t]
    BY Zenon, <1>1, <1>2 DEF FinalizeLost, IInv, Types, Rows, Terminal
  <1>6. RowsAgree /\ nonce' = nonce => RowsAgree'
    BY Zenon, <1>2, <1>5 DEF RowsAgree
  <1> QED BY Zenon, <1>1, <1>3, <1>4, <1>5, <1>6

\* With no unsettled row left, every row that is not taken over is settled.
LEMMA ReconcilePreserves == IInv /\ Reconcile => IInv'
  <1> SUFFICES ASSUME IInv, Reconcile PROVE IInv'
    OBVIOUS
  <1>1. /\ up = "recovering" /\ up' = "up" /\ task = Idle /\ task' = Idle
        /\ DOMAIN scopes' = {u \in Traces : scopeRec[u].state \in Live} \ Lost
        /\ \A t \in DOMAIN scopes' : scopes'[t] = scopeRec[t].dir
        /\ recovered' = DOMAIN scopes'
        /\ FinalizeLost(Lost)
        /\ UNCHANGED <<nonce, life>>
    BY Zenon DEF Reconcile
  <1>2. EmptyStays
    BY Zenon, RemovalKeepsEmpty DEF Reconcile
  <1>3. /\ nextTrace' \in Nat \ {0}
        /\ \A t \in Traces : traces[t] # "Absent" => t < nextTrace'
    BY DEF Reconcile, Traces
  <1> PICK S \in SUBSET Lost : S = Lost
    OBVIOUS
  <1>4. FinalizeLost(S)
    BY Zenon, <1>1
  <1>13. \A t \in Traces :
           /\ (traces'[t] = "Absent") <=> (traces[t] = "Absent")
           /\ t \in Lost => scopeRec'[t].state = "orphaned" /\ traces'[t] \in Terminal
           /\ t \notin Lost => scopeRec'[t] = scopeRec[t] /\ traces'[t] = traces[t]
    BY <1>1, LostFacts
  <1>14. \A t \in Traces : life[t] = "Absent"
    BY Zenon, <1>1 DEF IInv, MemoryAgrees
  <1>5. Types'
    BY Zenon, <1>1, <1>3, <1>4, LostFacts DEF IInv, Types
  <1>6. RowsAgree'
    BY Zenon, <1>1, <1>4, LostFacts DEF IInv
  <1>7. Unsettled = {}
    BY Zenon, <1>1 DEF IInv, StartAgrees, Idle
  <1>8. \A t \in Traces : scopeRec[t].state \notin Live /\ scopeRec[t] # NoScope
                            => traces[t] \in Terminal
    BY Zenon, <1>7 DEF Unsettled, IInv, Types, Rows, States, RowsAgree
  <1>9. BarrierMeansSettled'
    BY Zenon, <1>1, <1>8, <1>13 DEF BarrierMeansSettled, Live
  <1>10. MemoryAgrees'
    BY <1>1, <1>3, <1>13, <1>14 DEF MemoryAgrees, NoScope, Live
  <1>11. FinalizedIsEmpty'
    BY Zenon, <1>2, <1>4, LostFacts DEF IInv, FinalizedIsEmpty, EmptyStays, Types, Rows
  <1>12. AttachAgrees' /\ DrainAgrees' /\ StartAgrees'
    BY Zenon, <1>1, QuietTask DEF AttachAgrees, Idle
  <1> QED BY Zenon, <1>5, <1>6, <1>9, <1>10, <1>11, <1>12 DEF IInv

\* A start that is given up half way has settled some lost scopes.
LEMMA ReconcileFailsPreserves == IInv /\ ReconcileFails => IInv'
  <1> SUFFICES ASSUME IInv, ReconcileFails PROVE IInv'
    OBVIOUS
  <1>1. /\ up = "recovering" /\ up' = "down" /\ task = Idle /\ task' = Idle
        /\ UNCHANGED <<nonce, life, nextTrace, scopes, recovered>>
    BY Zenon DEF ReconcileFails, memory
  <1>2. EmptyStays
    BY Zenon, RemovalKeepsEmpty DEF ReconcileFails
  <1>3. PICK S \in SUBSET Lost : FinalizeLost(S)
    BY Zenon DEF ReconcileFails
  <1>4. Types' /\ RowsAgree'
    BY Zenon, <1>1, <1>3, LostFacts DEF IInv, Types
  <1>5. BarrierMeansSettled' /\ MemoryAgrees'
    BY Zenon, <1>1 DEF IInv, BarrierMeansSettled, MemoryAgrees
  <1>6. FinalizedIsEmpty'
    BY Zenon, <1>2, <1>3, LostFacts DEF IInv, FinalizedIsEmpty, EmptyStays, Types, Rows
  <1>7. AttachAgrees' /\ DrainAgrees' /\ StartAgrees'
    BY Zenon, <1>1 DEF AttachAgrees, DrainAgrees, StartAgrees, Idle
  <1> QED BY Zenon, <1>4, <1>5, <1>6, <1>7 DEF IInv

-----------------------------------------------------------------------------
\* Processes fork and exit inside populated cgroups only.
LEMMA WorkloadPreserves ==
    ASSUME IInv, NEW d \in Dirs, Fork(d) \/ Exit(d)
    PROVE  IInv'
  <1>1. EmptyStays
    BY Zenon DEF Fork, Exit, EmptyStays, IsEmpty
  <1> QED BY Zenon, <1>1, OutsidePreserves DEF Fork, Exit, storage, memory


-----------------------------------------------------------------------------
(* The drain.                                                              *)

\* Turning to the next draft is sound when all that are left are.
LEMMA ServeAgrees ==
    ASSUME NEW D \in SUBSET DraftSet, DraftsOK(D)', up' = "up", Serve(D)
    PROVE  task' \in Tasks /\ AttachAgrees' /\ DrainAgrees' /\ StartAgrees'
  <1>1. CASE task' = Idle
    BY Zenon, <1>1 DEF Tasks, AttachAgrees, DrainAgrees, StartAgrees, Idle
  <1>2. CASE \E f \in D : task' = [kind |-> "scope", now |-> f, ready |-> D \ {f}]
    <2> PICK f \in D : task' = [kind |-> "scope", now |-> f, ready |-> D \ {f}]
      BY Zenon, <1>2
    <2>1. task' \in Tasks
      BY Zenon DEF Tasks
    <2>2. /\ task'.kind = "scope" /\ task'.now = f /\ task'.ready = D \ {f}
          /\ \A g \in D \ {f} : g.trace # f.trace
      BY Zenon DEF DraftsOK
    <2>3. AttachAgrees' /\ StartAgrees'
      BY Zenon, <2>2 DEF AttachAgrees, StartAgrees
    <2>4. DraftsOK(D \ {f})' /\ DraftOK(f)'
      BY Zenon DEF DraftsOK
    <2>5. DraftsOK(task.ready)' /\ DraftOK(task.now)'
      BY Zenon, <2>2, <2>4 DEF DraftsOK, DraftOK
    <2> QED BY Zenon, <2>1, <2>2, <2>3, <2>5 DEF DrainAgrees
  <1> QED BY Zenon, <1>1, <1>2 DEF Serve

\* A scope in memory is the one its row names.
LEMMA ScopesAreNat ==
    IInv => \A t \in DOMAIN scopes : /\ scopes[t] \in Nat
                                     /\ t \in Traces
                                     /\ scopes[t] = scopeRec[t].dir
  BY Zenon DEF IInv, Types, MemoryAgrees, Rows

\* A draft that is not a timeout is of an empty scope, and empty it stays.
LEMMA DrainCyclePreserves == IInv /\ DrainCycle => IInv'
  <1> SUFFICES ASSUME IInv, DrainCycle PROVE IInv'
    OBVIOUS
  <1>1. /\ up = "up"
        /\ UNCHANGED <<traces, scopeRec, nonce, up, life, nextTrace, scopes, recovered>>
    BY Zenon DEF DrainCycle, Serving, storage
  <1>2. PICK kept, draft :
          CleanupAbandoned(kept) /\ PollFinalizations(draft)
    BY Zenon DEF DrainCycle
  <1>3. EmptyStays
    BY Zenon, <1>2, RemovalKeepsEmpty DEF CleanupAbandoned
  <1>4. RowsAgree' /\ MemoryAgrees' /\ BarrierMeansSettled'
    BY Zenon, <1>1 DEF IInv, RowsAgree, MemoryAgrees, BarrierMeansSettled
  <1>5. PICK D : D = {[trace |-> t, timedOut |-> draft[t] = "timeout",
                        recovered |-> life[t] \notin {"Draining"} \cup Terminal]
                         : t \in {u \in Candidates : draft[u] # "none"}}
    BY Zenon
  <1>6. Candidates \subseteq DOMAIN scopes
    BY Zenon DEF Candidates
  <1>7. D \in SUBSET DraftSet
    <2> SUFFICES ASSUME NEW t \in Candidates
                 PROVE  [trace |-> t, timedOut |-> draft[t] = "timeout",
                         recovered |-> life[t] \notin {"Draining"} \cup Terminal]
                          \in DraftSet
      BY Zenon, <1>5
    <2>1. t \in Traces
      BY Zenon, <1>6, ScopesAreNat
    <2>2. /\ (draft[t] = "timeout") \in BOOLEAN
          /\ (life[t] \notin {"Draining"} \cup Terminal) \in BOOLEAN
      BY Zenon
    <2> QED BY Zenon, <2>1, <2>2 DEF DraftSet
  <1>8. DraftsOK(D)'
    <2>1. \A f \in D : DraftOK(f)'
      <3> SUFFICES ASSUME NEW f \in D PROVE DraftOK(f)'
        OBVIOUS
      <3>1. PICK t \in Candidates :
              /\ draft[t] # "none"
              /\ f = [trace |-> t, timedOut |-> draft[t] = "timeout",
                      recovered |-> life[t] \notin {"Draining"} \cup Terminal]
        BY Zenon, <1>5
      <3>2. ~(draft[t] = "timeout") => IsEmpty(scopes[t])
        BY Zenon, <1>2, <3>1 DEF PollFinalizations, Drafts, Populated
      <3>3. life[t] \notin {"Draining"} \cup Terminal => life[t] = "Absent"
        BY Zenon, <1>6 DEF Candidates, IInv, MemoryAgrees, Types
      <3> QED
        BY Zenon, <1>1, <1>3, <1>6, <3>1, <3>2, <3>3, ScopesAreNat DEF DraftOK, EmptyStays
    <2>2. \A f, g \in D : f.trace = g.trace => f = g
      BY <1>5
    <2> QED BY Zenon, <2>1, <2>2 DEF DraftsOK
  <1>9. task' \in Tasks /\ AttachAgrees' /\ DrainAgrees' /\ StartAgrees'
    <2>1. CASE task' = Idle
      BY Zenon, <1>1, <2>1, QuietTask DEF Tasks, AttachAgrees, Idle
    <2>2. CASE task' = [kind |-> "waiting", left |-> Candidates, ready |-> D]
      <3>1. task' \in Tasks
        BY Zenon, <1>6, <1>7, <2>2, ScopesAreNat DEF Tasks
      <3>2. task'.kind = "waiting" /\ task'.left \subseteq DOMAIN scopes'
            /\ task'.ready = D
        BY Zenon, <1>1, <1>6, <2>2
      <3>3. DraftsOK(task.ready)'
        BY Zenon, <1>8, <3>2 DEF DraftsOK, DraftOK
      <3> QED
        BY Zenon, <1>1, <3>1, <3>2, <3>3 DEF AttachAgrees, DrainAgrees, StartAgrees
    <2> QED BY Zenon, <1>2, <1>5, <2>1, <2>2 DEF PollFinalizations
  <1>10. Types'
    BY Zenon, <1>1, <1>9 DEF IInv, Types
  <1> QED
    BY Zenon, <1>1, <1>3, <1>4, <1>9, <1>10, ExactStays DEF IInv

\* Marking rows as waiting touches scopes that are held in memory only.
LEMMA PersistWaitingPreserves == IInv /\ PersistWaiting => IInv'
  <1> SUFFICES ASSUME IInv, PersistWaiting PROVE IInv'
    OBVIOUS
  <1>1. /\ task \in [kind : {"waiting"}, left : SUBSET Traces, ready : SUBSET DraftSet]
        /\ up = "up" /\ task.left \subseteq DOMAIN scopes /\ DraftsOK(task.ready)
    BY DEF PersistWaiting, IInv, Types, Tasks, Idle, DrainAgrees
  <1>2. UNCHANGED <<traces, fs, nonce, up, life, nextTrace, scopes, recovered>>
    BY Zenon DEF PersistWaiting, memory
  <1>3. /\ scopeRec' \in [Traces -> Rows]
        /\ \A t \in Traces :
             \/ scopeRec'[t] = scopeRec[t]
             \/ /\ t \in DOMAIN scopes
                /\ scopeRec[t].state = "active" /\ scopeRec'[t].state = "waiting"
                /\ scopeRec'[t].dir = scopeRec[t].dir
    BY <1>1 DEF PersistWaiting, IInv, Types, Rows, States, Live
  <1>4. RowsAgree' /\ BarrierMeansSettled'
    BY <1>2, <1>3 DEF IInv, RowsAgree, BarrierMeansSettled, NoScope
  <1>5. MemoryAgrees'
    BY <1>2, <1>3 DEF IInv, MemoryAgrees, NoScope
  <1>6. FinalizedIsEmpty'
    BY Zenon, <1>2, <1>3 DEF IInv, FinalizedIsEmpty, IsEmpty
  <1> PICK D \in SUBSET DraftSet : D = task.ready
    BY Zenon, <1>1
  <1>7. DraftsOK(D)'
    BY Zenon, <1>1, <1>2, DraftsStay, SameKeepsEmpty, ScopesAreNat DEF DraftsOK, DraftOK
  <1>8. Serve(D)
    BY Zenon DEF PersistWaiting
  <1>9. task' \in Tasks /\ AttachAgrees' /\ DrainAgrees' /\ StartAgrees'
    BY Zenon, <1>1, <1>2, <1>7, <1>8, ServeAgrees
  <1>10. Types'
    BY Zenon, <1>2, <1>3, <1>9 DEF IInv, Types
  <1> QED
    BY Zenon, <1>4, <1>5, <1>6, <1>9, <1>10 DEF IInv

\* What is known of the scope a finalization works on.
LEMMA WorkingOn ==
    ASSUME IInv, task.kind \in {"scope", "trace", "finish"}
    PROVE  /\ up = "up"
           /\ task.now \in DraftSet /\ task.ready \in SUBSET DraftSet
           /\ task \in [kind : {"scope", "trace", "finish"}, now : DraftSet,
                        ready : SUBSET DraftSet]
           /\ DraftOK(task.now) /\ DraftsOK(task.ready)
           /\ task.now.trace \in DOMAIN scopes /\ task.now.trace \in Traces
           /\ \A f \in task.ready : f.trace # task.now.trace
           /\ scopeRec[task.now.trace].state # "none"
           /\ scopes[task.now.trace] = scopeRec[task.now.trace].dir
           /\ task.now.trace < nextTrace
  <1>1. task.now \in DraftSet /\ task.ready \in SUBSET DraftSet
        /\ task \in [kind : {"scope", "trace", "finish"}, now : DraftSet,
                     ready : SUBSET DraftSet]
    BY DEF IInv, Types, Tasks, Idle
  <1>2. /\ up = "up" /\ DraftOK(task.now) /\ DraftsOK(task.ready)
        /\ \A f \in task.ready : f.trace # task.now.trace
    BY Zenon DEF IInv, DrainAgrees
  <1>3. task.now.trace \in DOMAIN scopes /\ task.now.trace \in Traces
    BY Zenon, <1>1, <1>2 DEF DraftOK, DraftSet
  <1>4. /\ scopeRec[task.now.trace] # NoScope
        /\ scopes[task.now.trace] = scopeRec[task.now.trace].dir
    BY Zenon, <1>3 DEF IInv, MemoryAgrees
  <1>5. /\ scopeRec[task.now.trace].state # "none"
        /\ traces[task.now.trace] # "Absent"
    BY Zenon, <1>3, <1>4 DEF IInv, RowsAgree
  <1> QED BY Zenon, <1>1, <1>2, <1>3, <1>4, <1>5 DEF IInv, MemoryAgrees

\* Giving up on the draft at hand: only the registry may have moved.
LEMMA GiveUp ==
    ASSUME IInv, task.kind \in {"scope", "trace", "finish"}, NextDraft, UNCHANGED fs,
           UNCHANGED <<up, scopes>>,
           \A u \in Traces : u # task.now.trace => life'[u] = life[u]
    PROVE  task' \in Tasks /\ AttachAgrees' /\ DrainAgrees' /\ StartAgrees'
  <1> PICK D \in SUBSET DraftSet : D = task.ready
    BY Zenon, WorkingOn
  <1>2. DraftsOK(D) /\ \A f \in D : f.trace # task.now.trace /\ f.trace \in DOMAIN scopes
    BY Zenon, WorkingOn DEF DraftsOK, DraftOK
  <1>1. DraftsOK(D)'
    BY Zenon, <1>2, DraftsStay, SameKeepsEmpty, ScopesAreNat
  <1> QED BY Zenon, <1>1, WorkingOn, ServeAgrees DEF NextDraft

\* A verdict that is already in the row corrects the draft, so the draft is
\* exact exactly when the row says finalized.
LEMMA PersistFinalStatePreserves == IInv /\ PersistFinalState => IInv'
  <1> SUFFICES ASSUME IInv, PersistFinalState PROVE IInv'
    OBVIOUS
  <1> DEFINE t == task.now.trace
             state == IF scopeRec[t].state \notin Live THEN scopeRec[t].state
                      ELSE IF task.now.timedOut THEN "orphaned" ELSE "finalized"
  <1>1. /\ task.kind = "scope"
        /\ UNCHANGED <<traces, fs, nonce, up, life, nextTrace, scopes, recovered>>
    BY Zenon DEF PersistFinalState, memory
  <1>0. /\ RowsAgree /\ MemoryAgrees /\ BarrierMeansSettled
        /\ scopeRec \in [Traces -> Rows]
        /\ t \in Traces /\ t \in DOMAIN scopes /\ scopeRec[t].state # "none"
    BY Zenon, <1>1, WorkingOn DEF IInv, Types
  <1>2. CASE NextDraft /\ UNCHANGED scopeRec
    <2>1. task' \in Tasks /\ AttachAgrees' /\ DrainAgrees' /\ StartAgrees'
      BY Zenon, <1>1, <1>2, GiveUp
    <2>2. Types' /\ RowsAgree' /\ MemoryAgrees' /\ BarrierMeansSettled'
      BY Zenon, <1>1, <1>2, <2>1 DEF IInv, Types, RowsAgree, MemoryAgrees, BarrierMeansSettled
    <2> QED BY Zenon, <1>1, <1>2, <2>1, <2>2, ExactStays, SameKeepsEmpty DEF IInv
  <1>3. CASE /\ scopeRec' = [scopeRec EXCEPT ![t].state = state]
             /\ task' = [task EXCEPT !.kind = "trace", !.now.timedOut = state = "orphaned"]
    <2>1. state \in {"finalized", "orphaned"}
      BY Zenon, <1>0 DEF Rows, States
    <2>2. /\ scopeRec' \in [Traces -> Rows]
          /\ scopeRec'[t].state = state /\ scopeRec'[t].dir = scopeRec[t].dir
          /\ \A u \in Traces : u # t => scopeRec'[u] = scopeRec[u]
      BY Zenon, <1>0, <1>3, <2>1 DEF Rows, States
    <2> HIDE DEF t, state
    <2>3. RowsAgree' /\ BarrierMeansSettled'
      BY <1>0, <1>1, <2>1, <2>2 DEF RowsAgree, BarrierMeansSettled, NoScope
    <2>4. MemoryAgrees'
      BY <1>0, <1>1, <2>1, <2>2 DEF MemoryAgrees, NoScope
    <2>5. state = "finalized" => IsEmpty(scopeRec[t].dir)
      BY Zenon, <1>1, WorkingOn DEF IInv, FinalizedIsEmpty, DraftOK, t, state
    <2>6. FinalizedIsEmpty'
      BY Zenon, <1>1, <2>2, <2>5 DEF IInv, FinalizedIsEmpty, IsEmpty
    <2>7. (state = "orphaned") \in BOOLEAN
      BY Zenon
    <2>8. /\ task' \in [kind : {"trace"}, now : DraftSet, ready : SUBSET DraftSet]
          /\ task'.now.trace = t /\ task'.now.recovered = task.now.recovered
          /\ task'.now.timedOut = (state = "orphaned")
          /\ task'.ready = task.ready
      BY Zenon, <1>1, <1>3, <2>7, WorkingOn DEF DraftSet, t
    <2>9. DraftOK(task.now)'
      BY Zenon, <1>1, <2>1, <2>5, <2>8, WorkingOn DEF DraftOK, IsEmpty, t
    <2>10. DraftsOK(task.ready)' /\ \A f \in task'.ready : f.trace # task'.now.trace
      BY Zenon, <1>1, <2>8, WorkingOn DEF DraftsOK, DraftOK, IsEmpty, t
    <2>11. AttachAgrees' /\ DrainAgrees' /\ StartAgrees'
      BY Zenon, <1>1, <2>1, <2>2, <2>8, <2>9, <2>10, WorkingOn
      DEF AttachAgrees, DrainAgrees, StartAgrees, Live
    <2>12. Types'
      BY Zenon, <1>1, <2>2, <2>8 DEF IInv, Types, Tasks
    <2> QED BY Zenon, <2>3, <2>4, <2>6, <2>11, <2>12 DEF IInv
  <1> QED BY Zenon, <1>2, <1>3 DEF PersistFinalState

\* The trace row becomes terminal before the scope leaves memory.
LEMMA CompleteTracePreserves == IInv /\ CompleteTrace => IInv'
  <1> SUFFICES ASSUME IInv, CompleteTrace PROVE IInv'
    OBVIOUS
  <1> DEFINE t == task.now.trace
             state == IF life[t] = "Draining" \/ task.now.recovered
                        THEN "Completed" ELSE life[t]
  <1>1. /\ task.kind = "trace"
        /\ life' = IF task.now.recovered THEN life ELSE [life EXCEPT ![t] = state]
        /\ UNCHANGED <<scopeRec, fs, nonce, up, nextTrace, scopes, recovered>>
    BY Zenon DEF CompleteTrace
  <1>0. /\ RowsAgree /\ MemoryAgrees /\ BarrierMeansSettled
        /\ traces \in [Traces -> LifeStates] /\ life \in [Traces -> LifeStates]
        /\ t \in Traces /\ t \in DOMAIN scopes /\ t < nextTrace
        /\ task.now \in DraftSet /\ DraftOK(task.now)
    BY Zenon, <1>1, WorkingOn DEF IInv, Types
  <1>2. state \in Terminal
    BY Zenon, <1>0 DEF DraftOK, Terminal, DraftSet
  <1>3. /\ life' \in [Traces -> LifeStates]
        /\ \A u \in Traces : u # t => life'[u] = life[u]
        /\ task.now.recovered => life'[t] = "Absent"
        /\ ~task.now.recovered => life'[t] \in Terminal /\ t \notin recovered
    BY Zenon, <1>0, <1>1, <1>2 DEF LifeStates, DraftOK, MemoryAgrees, Terminal
  <1>4. CASE NextDraft /\ UNCHANGED traces
    <2>1. task' \in Tasks /\ AttachAgrees' /\ DrainAgrees' /\ StartAgrees'
      BY Zenon, <1>1, <1>3, <1>4, GiveUp
    <2>2. Types' /\ RowsAgree' /\ BarrierMeansSettled'
      BY Zenon, <1>1, <1>3, <1>4, <2>1 DEF IInv, Types, RowsAgree, BarrierMeansSettled
    <2>3. MemoryAgrees'
      BY Zenon, <1>0, <1>1, <1>3, <1>4 DEF MemoryAgrees, Terminal
    <2> QED BY Zenon, <1>1, <2>1, <2>2, <2>3, ExactStays, SameKeepsEmpty DEF IInv
  <1>5. CASE /\ traces' = [traces EXCEPT ![t] = state]
             /\ task' = [task EXCEPT !.kind = "finish"]
    <2>1. /\ traces' \in [Traces -> LifeStates] /\ traces'[t] \in Terminal
          /\ \A u \in Traces : u # t => traces'[u] = traces[u]
      BY Zenon, <1>0, <1>2, <1>5 DEF LifeStates, Terminal
    <2> HIDE DEF t, state
    <2>2. RowsAgree' /\ BarrierMeansSettled'
      BY Zenon, <1>0, <1>1, <2>1 DEF RowsAgree, BarrierMeansSettled, Terminal
    <2>3. MemoryAgrees'
      BY <1>0, <1>1, <1>3, <2>1 DEF MemoryAgrees, Terminal
    <2>4. /\ task' \in [kind : {"finish"}, now : DraftSet, ready : SUBSET DraftSet]
          /\ task'.now = task.now /\ task'.ready = task.ready
      BY Zenon, <1>1, <1>5, WorkingOn
    <2>5. DraftOK(task.now)'
      BY Zenon, <1>1, <1>3, <2>4, WorkingOn DEF DraftOK, IsEmpty, t
    <2>6. DraftsOK(task.ready)' /\ \A f \in task'.ready : f.trace # task'.now.trace
      <3>1. DraftsOK(task.ready) /\ \A f \in task.ready : f \in DraftSet /\ f.trace # t
        BY Zenon, <1>1, WorkingOn DEF t
      <3> QED BY <1>1, <1>3, <2>4, <3>1 DEF DraftsOK, DraftOK, IsEmpty, DraftSet, t
    <2>7. scopeRec[t].state \notin Live
      BY Zenon, <1>1 DEF IInv, DrainAgrees, t
    <2>8. AttachAgrees' /\ DrainAgrees' /\ StartAgrees'
      BY Zenon, <1>1, <1>3, <2>1, <2>4, <2>5, <2>6, <2>7, WorkingOn
      DEF AttachAgrees, DrainAgrees, StartAgrees, Terminal, t
    <2>9. Types'
      BY Zenon, <1>1, <1>3, <2>1, <2>4 DEF IInv, Types, Tasks
    <2> QED BY Zenon, <1>1, <2>2, <2>3, <2>8, <2>9, ExactStays, SameKeepsEmpty DEF IInv
  <1> QED BY Zenon, <1>4, <1>5 DEF CompleteTrace

\* The scope that leaves memory is settled; the drafts left are of others.
LEMMA FinishFinalizationPreserves == IInv /\ FinishFinalization => IInv'
  <1> SUFFICES ASSUME IInv, FinishFinalization PROVE IInv'
    OBVIOUS
  <1> DEFINE t == task.now.trace
  <1>1. /\ task.kind = "finish"
        /\ recovered' = recovered \ {t}
        /\ scopes' = Without(scopes, {t})
        /\ NextDraft
        /\ UNCHANGED <<traces, scopeRec, nonce, up, life, nextTrace>>
    BY Zenon DEF FinishFinalization, storage
  <1>2. EmptyStays
    BY Zenon, RemovalKeepsEmpty, SameKeepsEmpty DEF FinishFinalization
  <1>3. /\ DOMAIN scopes' = DOMAIN scopes \ {t}
        /\ \A u \in DOMAIN scopes' : scopes'[u] = scopes[u]
    BY Zenon, <1>1 DEF Without, Restrict
  <1>4. /\ scopeRec[t].state \notin Live
        /\ traces[t] \in Terminal
        /\ life[t] \notin {"Active", "Draining"}
    BY Zenon, <1>1 DEF IInv, DrainAgrees
  <1>5. RowsAgree' /\ BarrierMeansSettled'
    BY Zenon, <1>1, <1>3, <1>4 DEF IInv, RowsAgree, BarrierMeansSettled
  <1>6. MemoryAgrees'
    BY Zenon, <1>1, <1>3, <1>4 DEF IInv, MemoryAgrees
  <1> PICK D \in SUBSET DraftSet : D = task.ready
    BY Zenon, <1>1, WorkingOn
  <1>7. \A f \in D : f.trace \in DOMAIN scopes'
    BY Zenon, <1>1, <1>3, WorkingOn DEF DraftsOK, DraftOK
  <1>8. DraftsOK(D)'
    BY Zenon, <1>1, <1>2, <1>3, <1>7, WorkingOn, DraftsStay, ScopesAreNat
  <1>9. task' \in Tasks /\ AttachAgrees' /\ DrainAgrees' /\ StartAgrees'
    BY Zenon, <1>1, <1>8, WorkingOn, ServeAgrees DEF NextDraft
  <1>10. Types'
    BY Zenon, <1>1, <1>3, <1>9 DEF IInv, Types
  <1> QED BY Zenon, <1>1, <1>2, <1>5, <1>6, <1>9, <1>10, ExactStays DEF IInv

-----------------------------------------------------------------------------
(* What the steps do to the directories and to what waits to be removed.   *)

\* The admissions f name directories below n that are in neither R nor C, each
\* once.
Apart(f, R, C, n) ==
    \A t \in DOMAIN f :
        /\ f[t] \in Nat /\ f[t] < n
        /\ f[t] \notin R /\ f[t] \notin C
        /\ \A u \in DOMAIN f : f[u] = f[t] => u = t

\* A new directory is added to the admissions.
LEMMA ApartWith ==
    ASSUME NEW f, NEW R, NEW C, NEW n, NEW x, NEW d \in Nat, Apart(f, R, C, n),
           d < n, d \notin R, d \notin C, \A t \in DOMAIN f : f[t] # d
    PROVE  Apart(With(f, x, d), R, C, n)
  BY Zenon DEF Apart, With

\* Admissions are taken away, and rows and waiting directories that are none
\* of the others are added.
LEMMA ApartLess ==
    ASSUME NEW f, NEW g, NEW R, NEW S, NEW C, NEW D, NEW n \in Nat, NEW m \in Nat,
           Apart(f, R, C, n), n <= m,
           DOMAIN g \subseteq DOMAIN f,
           \A t \in DOMAIN g : /\ g[t] = f[t]
                               /\ f[t] \in R \/ f[t] \notin S
                               /\ f[t] \in C \/ f[t] \notin D
    PROVE  Apart(g, S, D, m)
  BY DEF Apart

\* An attach in progress knows its trace and its directory.
LEMMA AttachTask ==
    ASSUME IInv, task.kind \in {"move", "persist", "register"}
    PROVE  /\ task.trace \in Traces
           /\ task \in [kind : {"move", "persist", "register"}, trace : Traces, dir : Nat]
  BY DEF IInv, Types, Tasks, Idle

\* Moving the process goes on to the rows, or ends the attach.
LEMMA MoveTask ==
    ASSUME IInv, MovePid
    PROVE  /\ task'.kind \in {"persist", "idle"}
           /\ task'.kind = "persist" => task'.trace = task.trace /\ task'.dir = task.dir
  <1>1. task \in [kind : {"move", "persist", "register"}, trace : Traces, dir : Nat]
    BY Zenon, AttachTask DEF MovePid
  <1> QED BY <1>1 DEF MovePid, FailAttach, Idle

\* The drain only takes from what waits (cleanup_abandoned_admissions).
LEMMA DrainTakes ==
    ASSUME DrainCycle
    PROVE  /\ DOMAIN fs' \subseteq DOMAIN fs
           /\ DOMAIN pendingAdm' \subseteq DOMAIN pendingAdm
           /\ \A t \in DOMAIN pendingAdm' : pendingAdm'[t] = pendingAdm[t]
           /\ pendingCleanup' \subseteq pendingCleanup
           /\ DOMAIN fs \ DOMAIN fs' \subseteq Ripe
           /\ UNCHANGED <<traces, scopeRec, nonce>> /\ up' = "up"
           /\ task'.kind \in {"idle", "waiting"}
  <1>1. /\ UNCHANGED <<traces, scopeRec, nonce>> /\ up' = "up"
        /\ task'.kind \in {"idle", "waiting"}
    BY DEF DrainCycle, PollFinalizations, storage, Idle, Serving
  <1> QED BY Zenon, <1>1 DEF DrainCycle, CleanupAbandoned, Without, Restrict

\* A finalization removes its directory or lets it wait (finish_finalization).
LEMMA FinishTakes ==
    ASSUME FinishFinalization
    PROVE  /\ DOMAIN fs' \subseteq DOMAIN fs
           /\ pendingCleanup' \subseteq pendingCleanup \cup {scopes[task.now.trace]}
           /\ DOMAIN fs \ DOMAIN fs' \subseteq {scopes[task.now.trace]}
           /\ task.kind = "finish" /\ task'.kind \in {"idle", "scope"}
           /\ UNCHANGED <<traces, scopeRec, nonce, pendingAdm, up>>
  <1>1. /\ task.kind = "finish" /\ task'.kind \in {"idle", "scope"}
        /\ UNCHANGED <<traces, scopeRec, nonce, pendingAdm, up>>
    BY DEF FinishFinalization, NextDraft, Serve, Idle, storage
  <1> QED BY Zenon, <1>1 DEF FinishFinalization, Without, Restrict

\* A start removes strays and lets others wait (initialize_required).
LEMMA ReconcileTakes ==
    ASSUME Reconcile \/ ReconcileFails
    PROVE  /\ DOMAIN fs' \subseteq DOMAIN fs
           /\ DOMAIN fs \ DOMAIN fs' \subseteq Stray
           /\ Reconcile => pendingCleanup' \subseteq Stray
           /\ up = "recovering" /\ task = Idle
  BY Zenon DEF Reconcile, ReconcileFails, Without, Restrict, StrayEmpty

\* The verdict changes nothing but the state in the row.
LEMMA VerdictWrites ==
    ASSUME PersistFinalState
    PROVE  \E s : \/ scopeRec' = scopeRec
                 \/ scopeRec' = [scopeRec EXCEPT ![task.now.trace].state = s]
  BY Zenon DEF PersistFinalState

\* A step after which every row names the directory it named before.
RowNames ==
    \A t \in Traces : /\ scopeRec'[t].dir = scopeRec[t].dir
                      /\ scopeRec[t] = NoScope => scopeRec'[t] = NoScope

\* finalize_lost_scope writes states only.
LEMMA LostNames ==
    ASSUME IInv, NEW S \in SUBSET Lost, FinalizeLost(S)
    PROVE  RowNames
  <1>1. \A t \in Traces :
          /\ scopeRec'[t].dir = scopeRec[t].dir
          /\ t \in S => scopeRec[t].state \in Live
          /\ t \notin S => scopeRec'[t] = scopeRec[t]
    BY Zenon, LostFacts
  <1> QED BY <1>1 DEF RowNames, Live, NoScope

Others ==
    \/ BeginAttach \/ AdmissionFails \/ PersistTrace
    \/ PersistWaiting \/ PersistFinalState \/ CompleteTrace
    \/ StartDaemon \/ CompleteBarrier \/ ReconcileFails
    \/ \E d \in Dirs : Fork(d) \/ Exit(d)
    \/ \E t \in Traces : TraceEnds(t) \/ ForgetTrace(t) \/ TimeoutElapses(t)
    \/ UNCHANGED vars

\* The other steps let no directory wait, and start no daemon.
LEMMA OthersTake ==
    ASSUME IInv, Others
    PROVE  /\ UNCHANGED <<nonce, pendingAdm, pendingCleanup>>
           /\ DOMAIN fs' \subseteq DOMAIN fs
           /\ up' = "up" \/ up # "up"
  BY Zenon DEF Others, IInv, StartAgrees, BeginAttach, AdmissionFails, PersistTrace,
         PersistWaiting, PersistFinalState, CompleteTrace, StartDaemon,
         CompleteBarrier, ReconcileFails, Fork, Exit, TraceEnds, ForgetTrace,
         TimeoutElapses, vars, memory, Without, Restrict

-----------------------------------------------------------------------------
\* Every step keeps the inductive invariant.
LEMMA NextPreserves == IInv /\ [Next]_vars => IInv'
  <1> SUFFICES ASSUME IInv, [Next]_vars PROVE IInv'
    OBVIOUS
  <1>1. CASE Attach
    BY Zenon, <1>1, BeginAttachPreserves, CreateScopePreserves, AdmissionFailsPreserves,
       MovePidPreserves, PersistTracePreserves, RegisterScopePreserves DEF Attach
  <1>2. CASE Drain
    BY Zenon, <1>2, DrainCyclePreserves, PersistWaitingPreserves, PersistFinalStatePreserves,
       CompleteTracePreserves, FinishFinalizationPreserves DEF Drain
  <1>3. CASE Start \/ Crash
    BY Zenon, <1>3, StartDaemonPreserves, CompleteBarrierPreserves, ReconcilePreserves,
       ReconcileFailsPreserves, CrashPreserves DEF Start
  <1>4. CASE \E d \in Dirs : Fork(d) \/ Exit(d)
    BY Zenon, <1>4, WorkloadPreserves
  <1>5. ASSUME NEW t \in Traces, TraceEnds(t) PROVE IInv'
    BY Zenon, <1>5, TraceEndsPreserves
  <1>6. ASSUME NEW t \in Traces, ForgetTrace(t) PROVE IInv'
    BY Zenon, <1>6, ForgetTracePreserves
  <1>7. ASSUME NEW t \in Traces, TimeoutElapses(t) PROVE IInv'
    BY Zenon, <1>7, OutsidePreserves, SameKeepsEmpty DEF TimeoutElapses, storage
  <1>8. CASE UNCHANGED vars
    BY Zenon, <1>8, OutsidePreserves, SameKeepsEmpty DEF vars, storage, memory
  <1> QED BY Zenon, <1>1, <1>2, <1>3, <1>4, <1>5, <1>6, <1>7, <1>8 DEF Next

\* The inductive invariant holds throughout.
LEMMA Inductive == Spec => []IInv
  BY InitIInv, NextPreserves, PTL DEF Spec

\* The scope a running daemon no longer holds is settled in the database,
\* whatever crashes and failed writes came before (lifecycle.rs
\* finish_finalization, managed_scope_storage.rs prepare_recovery).
THEOREM BarrierSettles == Spec => []BarrierMeansSettled
  <1>1. IInv => BarrierMeansSettled
    BY Zenon DEF IInv
  <1> QED BY <1>1, Inductive, PTL

\* A scope recorded as finalized has nothing running in it
\* (workload_event_sink.rs persist_resource_final_state).
THEOREM FinalizedExact == Spec => []FinalizedIsEmpty
  <1>1. IInv => FinalizedIsEmpty
    BY Zenon DEF IInv
  <1> QED BY <1>1, Inductive, PTL

\* The rows a step leaves alone.
LEMMA VerdictStep ==
    ASSUME IInv, [Next]_vars, NEW t \in Traces
    PROVE  /\ scopeRec[t].state \in {"finalized", "orphaned"} => scopeRec'[t] = scopeRec[t]
           /\ traces[t] \in Terminal => traces'[t] \in Terminal
  <1> DEFINE Goal == /\ scopeRec[t].state \in {"finalized", "orphaned"}
                          => scopeRec'[t] = scopeRec[t]
                     /\ traces[t] \in Terminal => traces'[t] \in Terminal
  <1>1. CASE UNCHANGED <<traces, scopeRec>>
    BY Zenon, <1>1
  <1>2. CASE PersistTrace
    BY Zenon, <1>2 DEF PersistTrace, IInv, AttachAgrees, Terminal, Types
  <1>3. CASE RegisterScope
    <2>1. scopeRec[task.trace] = NoScope /\ traces \in [Traces -> LifeStates]
      BY Zenon, <1>3 DEF RegisterScope, IInv, AttachAgrees, Types
    <2>2. /\ scopeRec' = scopeRec \/ t = task.trace \/ scopeRec'[t] = scopeRec[t]
          /\ \/ traces' = traces
             \/ traces' = [traces EXCEPT ![task.trace] = "Failed"]
      BY Zenon, <1>3, <2>1 DEF RegisterScope, IInv, Types
    <2> QED BY <2>1, <2>2 DEF NoScope, Terminal
  <1>4. ASSUME NEW u \in Traces, TraceEnds(u) PROVE Goal
    BY Zenon, <1>4 DEF TraceEnds, IInv, MemoryAgrees, Types
  <1>5. CASE PersistWaiting
    BY Zenon, <1>5 DEF PersistWaiting
  <1>6. CASE PersistFinalState
    BY <1>6 DEF PersistFinalState, IInv, Types, Rows, Live
  <1>7. CASE CompleteTrace
    BY Zenon, <1>7, WorkingOn DEF CompleteTrace, IInv, Types, Terminal, DraftOK
  <1>8. CASE CompleteBarrier
    BY Zenon, <1>8 DEF CompleteBarrier, IInv, Types, Terminal
  <1>9. CASE Reconcile \/ ReconcileFails
    <2> PICK S \in SUBSET Lost : FinalizeLost(S)
      BY Zenon, <1>9 DEF Reconcile, ReconcileFails
    <2> QED BY Zenon, LostFacts DEF Live
  <1> HIDE DEF Goal
  <1>10. CASE Attach
    BY Zenon, <1>1, <1>2, <1>3, <1>10
    DEF Attach, BeginAttach, CreateScope, AdmissionFails, MovePid, storage, Goal
  <1>11. CASE Drain
    BY Zenon, <1>1, <1>5, <1>6, <1>7, <1>11
    DEF Drain, DrainCycle, FinishFinalization, storage, Goal
  <1>12. CASE Start \/ Crash
    BY Zenon, <1>1, <1>8, <1>9, <1>12 DEF Start, StartDaemon, Crash, storage, Goal
  <1>13. CASE \E d \in Dirs : Fork(d) \/ Exit(d)
    BY Zenon, <1>1, <1>13 DEF Fork, Exit, storage, Goal
  <1>14. ASSUME NEW u \in Traces, ForgetTrace(u) \/ TimeoutElapses(u) PROVE Goal
    BY Zenon, <1>1, <1>14 DEF ForgetTrace, TimeoutElapses, storage, Goal
  <1>15. CASE UNCHANGED vars
    BY Zenon, <1>1, <1>15 DEF vars, storage, Goal
  <1>16. CASE \E u \in Traces : TraceEnds(u) \/ ForgetTrace(u) \/ TimeoutElapses(u)
    BY Zenon, <1>4, <1>14, <1>16 DEF Goal
  <1>17. Next \/ UNCHANGED vars
    OBVIOUS
  <1> QED BY Zenon, <1>10, <1>11, <1>12, <1>13, <1>15, <1>16, <1>17 DEF Next

\* No retry, crash or recovery changes a final scope row or revives an ended
\* trace row (workload_event_sink.rs persist_resource_final_state,
\* managed_scope_storage.rs finalize_lost_scope).
THEOREM VerdictFinal == Spec => VerdictIsFinal
  <1>1. IInv /\ [Next]_vars =>
          [\A t \in Traces :
             /\ scopeRec[t].state \in {"finalized", "orphaned"} => scopeRec'[t] = scopeRec[t]
             /\ traces[t] \in Terminal => traces'[t] \in Terminal]_vars
    BY Zenon, VerdictStep
  <1> QED BY <1>1, Inductive, PTL DEF Spec, VerdictIsFinal

-----------------------------------------------------------------------------
(* The order of the removal: which directories can still be removed, and   *)
(* what their rows say by then.                                            *)

\* The directories in the rows.
Named == {scopeRec[t].dir : t \in Traces}

\* Every row that names d is final, with its trace over.
Done(d) ==
    \A t \in Traces : scopeRec[t].dir = d =>
        scopeRec[t].state \notin Live /\ traces[t] \in Terminal

\* No two rows name one directory.
RowDirs ==
    \A t \in Traces : scopeRec[t] # NoScope =>
        /\ scopeRec[t].dir # 0
        /\ \A u \in Traces : scopeRec[u].dir = scopeRec[t].dir => u = t

\* What waits to be removed was not registered, or is settled.
PendingDirs ==
    /\ Apart(pendingAdm, Named, pendingCleanup, nonce)
    /\ \A d \in pendingCleanup : d \in Nat \ {0} /\ d < nonce /\ Done(d)

\* Until its scope is registered, the directory of an attach in progress is
\* new or waits among the admissions.
AttachDirs ==
    /\ task.kind = "move" =>
         /\ task.dir \in Nat \ {0} /\ task.dir \notin pendingCleanup
         /\ \A t \in DOMAIN pendingAdm : pendingAdm[t] # task.dir
    /\ task.kind \in {"persist", "register"} /\ task.dir # 0 =>
         task.trace \in DOMAIN pendingAdm /\ pendingAdm[task.trace] = task.dir
    /\ task.kind = "register" => task.dir # 0

DirsInv ==
    /\ \A d \in DOMAIN fs : d \in Nat \ {0} /\ d < nonce
    /\ RowDirs /\ PendingDirs /\ AttachDirs
    /\ up # "up" => DOMAIN pendingAdm = {}

\* Nothing exists at the first start.
LEMMA InitDirs == Init => DirsInv
  BY DEF Init, DirsInv, RowDirs, PendingDirs, AttachDirs, Apart, NoFun, NoScope, Idle

\* Final rows stay final, so what they say of a directory stays true.
LEMMA RowsKeep ==
    ASSUME IInv, [Next]_vars, RowNames
    PROVE  /\ Named' = Named
           /\ \A d : d # 0 /\ Done(d) => Done(d)'
           /\ RowDirs => RowDirs'
  <1>1. Named' = Named
    BY Zenon DEF Named, RowNames
  <1>2. ASSUME NEW t \in Traces, scopeRec[t].dir # 0, scopeRec[t].state \notin Live
        PROVE  scopeRec[t].state \in {"finalized", "orphaned"}
    BY <1>2 DEF IInv, Types, Rows, States, RowsAgree, NoScope
  <1>3. \A t \in Traces :
          /\ scopeRec[t].dir # 0 /\ scopeRec[t].state \notin Live
               => scopeRec'[t] = scopeRec[t]
          /\ traces[t] \in Terminal => traces'[t] \in Terminal
    BY Zenon, <1>2, VerdictStep
  <1>4. \A d : d # 0 /\ Done(d) => Done(d)'
    BY Zenon, <1>3 DEF Done, RowNames
  <1>5. RowDirs => RowDirs'
    BY Zenon DEF RowDirs, RowNames
  <1> QED BY Zenon, <1>1, <1>4, <1>5

\* A step that names no directory anew.
LEMMA DirsStay ==
    ASSUME IInv, DirsInv, [Next]_vars, RowNames,
           DOMAIN fs' \subseteq DOMAIN fs,
           UNCHANGED <<nonce, pendingAdm, pendingCleanup>>,
           up' = "up" \/ up # "up",
           AttachDirs'
    PROVE  DirsInv'
  <1>1. Named' = Named /\ \A d : d # 0 /\ Done(d) => Done(d)'
    BY Zenon, RowsKeep
  <1>2. PendingDirs'
    BY Zenon, <1>1 DEF DirsInv, PendingDirs
  <1> QED BY Zenon, <1>2, RowsKeep DEF DirsInv

\* Without a change of the rows nothing changes in what they say.
LEMMA SameRows ==
    ASSUME UNCHANGED <<traces, scopeRec>>
    PROVE  /\ Named' = Named
           /\ \A d : Done(d)' = Done(d)
           /\ RowDirs => RowDirs'
  BY Zenon DEF Named, Done, RowDirs

\* create_trace_scope: a new directory is in nobody's hands.
LEMMA CreateDirs == IInv /\ DirsInv /\ CreateScope => DirsInv'
  <1> SUFFICES ASSUME IInv, DirsInv, CreateScope PROVE DirsInv'
    OBVIOUS
  <1>1. /\ DOMAIN fs' = DOMAIN fs \cup {nonce} /\ nonce' = nonce + 1
        /\ task'.kind = "move" /\ task'.dir = nonce
        /\ UNCHANGED <<traces, scopeRec, pendingAdm, pendingCleanup>>
    BY Zenon DEF CreateScope, With, storage, memory
  <1>2. nonce \in Nat \ {0} /\ up' = "up"
    BY Zenon DEF IInv, Types, CreateScope, AttachAgrees
  <1>3. RowDirs /\ PendingDirs
    BY Zenon DEF DirsInv
  <1>4. PendingDirs'
    <2>1. Apart(pendingAdm', Named', pendingCleanup', nonce')
      BY <1>1, <1>2, <1>3, SameRows, ApartLess DEF PendingDirs
    <2> QED BY <1>1, <1>2, <1>3, <2>1, SameRows DEF PendingDirs
  <1>5. AttachDirs'
    <2>1. Apart(pendingAdm, Named, pendingCleanup, nonce) /\ nonce \notin pendingCleanup
      BY <1>2, <1>3 DEF PendingDirs
    <2>2. \A t \in DOMAIN pendingAdm : pendingAdm[t] # nonce
      BY <1>2, <2>1 DEF Apart
    <2> QED BY Zenon, <1>1, <1>2, <2>1, <2>2 DEF AttachDirs
  <1> QED BY <1>1, <1>2, <1>3, <1>4, <1>5, SameRows DEF DirsInv

\* move_pid: the directory goes to the admissions.
LEMMA MoveDirs == IInv /\ DirsInv /\ MovePid => DirsInv'
  <1> SUFFICES ASSUME IInv, DirsInv, MovePid PROVE DirsInv'
    OBVIOUS
  <1>1. /\ task.kind = "move" /\ DOMAIN fs' = DOMAIN fs
        /\ pendingAdm' = With(pendingAdm, task.trace, task.dir)
        /\ UNCHANGED <<traces, scopeRec, nonce, pendingCleanup>> /\ up' = "up"
    BY Zenon DEF MovePid, storage, IInv, AttachAgrees
  <1>2. /\ task.dir \in Nat \ {0} /\ task.dir < nonce /\ task.dir \notin Named
        /\ task.dir \notin pendingCleanup
        /\ \A t \in DOMAIN pendingAdm : pendingAdm[t] # task.dir
    BY Zenon, <1>1 DEF IInv, AttachAgrees, DirsInv, AttachDirs, Named
  <1>3. RowDirs /\ PendingDirs
    BY Zenon DEF DirsInv
  <1>4. task.trace \in DOMAIN pendingAdm' /\ pendingAdm'[task.trace] = task.dir
    BY Zenon, <1>1 DEF With
  <1>5. PendingDirs'
    <2>1. Apart(pendingAdm', Named, pendingCleanup, nonce)
      BY Zenon, <1>1, <1>2, <1>3, ApartWith DEF PendingDirs
    <2> QED BY Zenon, <1>1, <1>3, <2>1, SameRows DEF PendingDirs
  <1>6. /\ task'.kind \in {"persist", "idle"}
        /\ task'.kind = "persist" => task'.trace = task.trace /\ task'.dir = task.dir
    BY Zenon, MoveTask
  <1>7. AttachDirs'
    BY Zenon, <1>4, <1>6 DEF AttachDirs
  <1> QED BY Zenon, <1>1, <1>3, <1>5, <1>7, SameRows DEF DirsInv

\* activate_scope: the directory leaves the admissions for its row.
LEMMA RegisterDirs == IInv /\ DirsInv /\ RegisterScope => DirsInv'
  <1> SUFFICES ASSUME IInv, DirsInv, RegisterScope PROVE DirsInv'
    OBVIOUS
  <1>1. /\ task.kind = "register" /\ task' = Idle /\ up' = "up"
        /\ UNCHANGED <<fs, nonce, pendingCleanup>>
    BY Zenon DEF RegisterScope, FailAttach, IInv, AttachAgrees
  <1>2. AttachDirs'
    BY Zenon, <1>1 DEF AttachDirs, Idle
  <1>3. CASE UNCHANGED <<scopeRec, pendingAdm>>
    <2>1. RowNames
      BY Zenon, <1>3 DEF RowNames
    <2>2. [Next]_vars
      BY Zenon DEF Next, Attach
    <2> QED BY Zenon, <1>1, <1>2, <1>3, <2>1, <2>2, DirsStay
  <1>4. CASE /\ scopeRec' = [scopeRec EXCEPT ![task.trace] =
                               [state |-> "active", dir |-> task.dir]]
             /\ pendingAdm' = Without(pendingAdm, {task.trace})
             /\ UNCHANGED traces
    <2> PICK t, d : t = task.trace /\ d = task.dir
      OBVIOUS
    <2>1. /\ d # 0 /\ t \in DOMAIN pendingAdm /\ pendingAdm[t] = d
          /\ t \in Traces /\ scopeRec[t] = NoScope
      BY Zenon, <1>1, AttachTask DEF DirsInv, AttachDirs, IInv, AttachAgrees
    <2>2. RowDirs /\ PendingDirs /\ nonce \in Nat
      BY Zenon DEF DirsInv, IInv, Types
    <2>3. /\ d \notin Named /\ d \notin pendingCleanup
          /\ \A u \in DOMAIN pendingAdm : pendingAdm[u] = d => u = t
      BY Zenon, <2>1, <2>2 DEF PendingDirs, Apart
    <2>4. /\ scopeRec'[t].dir = d
          /\ \A u \in Traces : u # t => scopeRec'[u] = scopeRec[u]
      BY Zenon, <1>4, <2>1 DEF IInv, Types
    <2>5. RowDirs'
      BY <2>1, <2>2, <2>3, <2>4 DEF RowDirs, Named
    <2>6. Named' \subseteq Named \cup {d}
      BY Zenon, <2>4 DEF Named
    <2>7. \A e : e # d /\ Done(e) => Done(e)'
      BY Zenon, <1>4, <2>4 DEF Done
    <2>8. /\ DOMAIN pendingAdm' = DOMAIN pendingAdm \ {t}
          /\ \A u \in DOMAIN pendingAdm' : pendingAdm'[u] = pendingAdm[u]
      BY Zenon, <1>4 DEF Without, Restrict
    <2>9. Apart(pendingAdm', Named', pendingCleanup, nonce)
      <3>1. \A u \in DOMAIN pendingAdm' :
              /\ pendingAdm'[u] = pendingAdm[u]
              /\ pendingAdm[u] \in Named \/ pendingAdm[u] \notin Named'
        BY Zenon, <2>3, <2>6, <2>8
      <3>2. Apart(pendingAdm, Named, pendingCleanup, nonce)
        BY Zenon, <2>2 DEF PendingDirs
      <3> QED BY <2>2, <2>8, <3>1, <3>2, ApartLess
    <2>10. PendingDirs'
      BY Zenon, <1>1, <2>2, <2>3, <2>7, <2>9 DEF PendingDirs
    <2> QED BY Zenon, <1>1, <1>2, <2>5, <2>10 DEF DirsInv
  <1> QED BY Zenon, <1>3, <1>4 DEF RegisterScope

\* The drain removes from what waits.
LEMMA DrainDirs == IInv /\ DirsInv /\ DrainCycle => DirsInv'
  <1> SUFFICES ASSUME IInv, DirsInv, DrainCycle PROVE DirsInv'
    OBVIOUS
  <1>1. /\ UNCHANGED <<traces, scopeRec, nonce>> /\ task'.kind \in {"idle", "waiting"}
        /\ up' = "up"
    BY Zenon, DrainTakes
  <1>2. /\ DOMAIN fs' \subseteq DOMAIN fs
        /\ DOMAIN pendingAdm' \subseteq DOMAIN pendingAdm
        /\ \A t \in DOMAIN pendingAdm' : pendingAdm'[t] = pendingAdm[t]
        /\ pendingCleanup' \subseteq pendingCleanup
    BY Zenon, DrainTakes
  <1>3. RowDirs /\ PendingDirs /\ nonce \in Nat
    BY Zenon DEF DirsInv, IInv, Types
  <1>4. PendingDirs'
    <2>1. Apart(pendingAdm', Named, pendingCleanup', nonce)
      BY <1>2, <1>3, ApartLess DEF PendingDirs
    <2> QED BY Zenon, <1>1, <1>2, <1>3, <2>1, SameRows DEF PendingDirs
  <1>5. AttachDirs'
    BY Zenon, <1>1 DEF AttachDirs
  <1> QED BY Zenon, <1>1, <1>2, <1>3, <1>4, <1>5, SameRows DEF DirsInv

\* The directory of the scope that is finished is settled.
LEMMA FinishedDone ==
    ASSUME IInv, DirsInv, task.kind = "finish"
    PROVE  /\ task.now.trace \in Traces
           /\ scopes[task.now.trace] = scopeRec[task.now.trace].dir
           /\ scopes[task.now.trace] \in Nat \ {0}
           /\ scopes[task.now.trace] < nonce
           /\ Done(scopes[task.now.trace])
  <1> PICK t : t = task.now.trace
    OBVIOUS
  <1>1. /\ t \in Traces /\ scopes[t] = scopeRec[t].dir /\ scopeRec[t].state # "none"
    BY Zenon, WorkingOn
  <1>2. scopeRec[t].state \notin Live /\ traces[t] \in Terminal
    BY Zenon DEF IInv, DrainAgrees
  <1>3. scopeRec[t].dir \in Nat /\ scopeRec[t].dir < nonce
    BY Zenon, <1>1 DEF IInv, Types, Rows, RowsAgree
  <1>4. /\ scopeRec[t].dir # 0
        /\ \A u \in Traces : scopeRec[u].dir = scopeRec[t].dir => u = t
    <2>1. RowDirs /\ scopeRec[t] # NoScope
      BY <1>1 DEF DirsInv, NoScope
    <2> QED BY Zenon, <1>1, <2>1 DEF RowDirs
  <1>5. Done(scopeRec[t].dir)
    BY Zenon, <1>2, <1>4 DEF Done
  <1> QED BY Zenon, <1>1, <1>3, <1>4, <1>5

\* finish_finalization: what is left to be removed later is settled.
LEMMA FinishDirs == IInv /\ DirsInv /\ FinishFinalization => DirsInv'
  <1> SUFFICES ASSUME IInv, DirsInv, FinishFinalization PROVE DirsInv'
    OBVIOUS
  <1> PICK d : d = scopes[task.now.trace]
    OBVIOUS
  <1>1. /\ task.kind = "finish" /\ task'.kind \in {"idle", "scope"}
        /\ UNCHANGED <<traces, scopeRec, nonce, pendingAdm, up>>
    BY Zenon, FinishTakes
  <1>2. /\ DOMAIN fs' \subseteq DOMAIN fs
        /\ pendingCleanup' \subseteq pendingCleanup \cup {d}
    BY Zenon, FinishTakes
  <1>3. d \in Nat \ {0} /\ d < nonce /\ Done(d) /\ d \in Named
    BY Zenon, <1>1, FinishedDone DEF Named
  <1>4. RowDirs /\ PendingDirs /\ nonce \in Nat
    BY Zenon DEF DirsInv, IInv, Types
  <1>5. PendingDirs'
    <2>1. Apart(pendingAdm, Named, pendingCleanup, nonce)
      BY Zenon, <1>4 DEF PendingDirs
    <2>2. \A t \in DOMAIN pendingAdm :
            pendingAdm[t] \in pendingCleanup \/ pendingAdm[t] \notin pendingCleanup'
      BY Zenon, <1>2, <1>3, <2>1 DEF Apart
    <2>3. Apart(pendingAdm, Named, pendingCleanup', nonce)
      BY <1>4, <2>1, <2>2, ApartLess
    <2> QED BY Zenon, <1>1, <1>2, <1>3, <1>4, <2>3, SameRows DEF PendingDirs
  <1>6. AttachDirs'
    BY Zenon, <1>1 DEF AttachDirs
  <1> QED BY Zenon, <1>1, <1>2, <1>4, <1>5, <1>6, SameRows DEF DirsInv

\* What no live row names is settled when the start gets to the directories:
\* complete_persisted_finalization_barriers ran before.
LEMMA StrayDone ==
    ASSUME IInv, DirsInv, up = "recovering", task = Idle, NEW d \in Stray
    PROVE  d \in Nat \ {0} /\ d < nonce /\ Done(d)
  <1>1. d \in Nat \ {0} /\ d < nonce /\ ~Registered(d)
    BY Zenon DEF Stray, DirsInv
  <1>2. Unsettled = {}
    BY Zenon DEF IInv, StartAgrees, Idle
  <1> SUFFICES ASSUME NEW t \in Traces, scopeRec[t].dir = d
               PROVE  scopeRec[t].state \notin Live /\ traces[t] \in Terminal
    BY Zenon, <1>1 DEF Done
  <1>3. scopeRec[t].state \notin Live
    BY Zenon, <1>1 DEF Registered
  <1>4. scopeRec[t].state \in {"finalized", "orphaned"}
    BY <1>1, <1>3 DEF IInv, Types, Rows, States, RowsAgree, NoScope
  <1> QED BY Zenon, <1>2, <1>3, <1>4 DEF Unsettled

\* initialize_required: what the start keeps for later is settled.
LEMMA ReconcileDirs == IInv /\ DirsInv /\ Reconcile => DirsInv'
  <1> SUFFICES ASSUME IInv, DirsInv, Reconcile PROVE DirsInv'
    OBVIOUS
  <1>1. /\ up = "recovering" /\ up' = "up" /\ task = Idle /\ task' = Idle
        /\ FinalizeLost(Lost) /\ UNCHANGED <<nonce, pendingAdm>>
    BY Zenon DEF Reconcile
  <1>2. DOMAIN fs' \subseteq DOMAIN fs /\ pendingCleanup' \subseteq Stray
    BY Zenon, ReconcileTakes
  <1>3. RowNames
    BY Zenon, <1>1, LostNames
  <1>4. [Next]_vars
    BY Zenon DEF Next, Start
  <1>5. \A d \in pendingCleanup' : d \in Nat \ {0} /\ d < nonce /\ Done(d) /\ Done(d)'
    BY Zenon, <1>1, <1>2, <1>3, <1>4, StrayDone, RowsKeep
  <1>6. DOMAIN pendingAdm = {}
    BY Zenon, <1>1 DEF DirsInv
  <1>7. PendingDirs'
    BY Zenon, <1>1, <1>5, <1>6 DEF PendingDirs, Apart
  <1>8. AttachDirs'
    BY Zenon, <1>1 DEF AttachDirs, Idle
  <1> QED BY Zenon, <1>1, <1>2, <1>3, <1>4, <1>7, <1>8, RowsKeep DEF DirsInv

\* A crash leaves only the rows and the cgroups.
LEMMA CrashDirs == IInv /\ DirsInv /\ Crash => DirsInv'
  <1> SUFFICES ASSUME IInv, DirsInv, Crash PROVE DirsInv'
    OBVIOUS
  <1>1. /\ task' = Idle /\ DOMAIN pendingAdm' = {} /\ pendingCleanup' = {}
        /\ DOMAIN fs' \subseteq DOMAIN fs /\ UNCHANGED <<scopeRec, nonce>>
    BY Zenon DEF Crash, NoFun, storage
  <1> QED BY Zenon, <1>1 DEF DirsInv, RowDirs, PendingDirs, Apart, AttachDirs, Idle

\* The other steps name no directory anew.
LEMMA OtherDirs ==
    ASSUME IInv, DirsInv, [Next]_vars, Others
    PROVE  DirsInv'
  <1>1. /\ UNCHANGED <<nonce, pendingAdm, pendingCleanup>> /\ DOMAIN fs' \subseteq DOMAIN fs
        /\ up' = "up" \/ up # "up"
    BY Zenon, OthersTake
  <1>2. RowNames
    <2>1. CASE UNCHANGED scopeRec
      BY Zenon, <2>1 DEF RowNames
    <2>2. CASE PersistWaiting
      BY <2>2 DEF PersistWaiting, RowNames, IInv, Types, Rows, NoScope
    <2>3. CASE PersistFinalState
      <3>1. /\ scopeRec[task.now.trace].state # "none" /\ task.now.trace \in Traces
        BY Zenon, <2>3, WorkingOn DEF PersistFinalState
      <3>2. PICK s : \/ scopeRec' = scopeRec
                     \/ scopeRec' = [scopeRec EXCEPT ![task.now.trace].state = s]
        BY Zenon, <2>3, VerdictWrites
      <3>3. scopeRec \in [Traces -> Rows]
        BY Zenon DEF IInv, Types
      <3> QED BY <3>1, <3>2, <3>3 DEF RowNames, Rows, NoScope
    <2>4. CASE ReconcileFails
      <3> PICK S \in SUBSET Lost : FinalizeLost(S)
        BY Zenon, <2>4 DEF ReconcileFails
      <3> QED BY Zenon, LostNames
    <2> QED
      BY Zenon, <2>1, <2>2, <2>3, <2>4
      DEF Others, BeginAttach, AdmissionFails, PersistTrace, CompleteTrace, StartDaemon,
          CompleteBarrier, Fork, Exit, TraceEnds, ForgetTrace, TimeoutElapses,
          vars, storage
  <1>3. \/ UNCHANGED task
        \/ task'.kind \notin {"move", "persist", "register"}
        \/ task'.kind = "persist" /\ task'.dir = 0
        \/ task.kind = "persist" /\ task.dir # 0 /\ task' = [task EXCEPT !.kind = "register"]
    <2>1. CASE AdmissionFails
      BY <2>1 DEF AdmissionFails, FailAttach, Idle
    <2>2. CASE PersistTrace
      BY <2>2 DEF PersistTrace, FailAttach, Idle
    <2>3. CASE PersistWaiting \/ PersistFinalState \/ CompleteTrace
      <3>1. CASE NextDraft
        BY <3>1 DEF NextDraft, Serve, Idle
      <3>2. task.kind \in {"scope", "trace", "finish"} =>
              task \in [kind : {"scope", "trace", "finish"}, now : DraftSet,
                        ready : SUBSET DraftSet]
        BY Zenon, WorkingOn
      <3> QED
        BY Zenon, <2>3, <3>1, <3>2 DEF PersistWaiting, PersistFinalState, CompleteTrace, NextDraft
    <2>4. CASE StartDaemon \/ CompleteBarrier
      BY <2>4 DEF StartDaemon, CompleteBarrier, Idle, IInv, Types, Tasks
    <2> QED
      BY <2>1, <2>2, <2>3, <2>4
      DEF Others, BeginAttach, ReconcileFails, Fork, Exit, TraceEnds, ForgetTrace,
          TimeoutElapses, vars
  <1>4. AttachDirs'
    <2>1. CASE UNCHANGED task
      BY Zenon, <1>1, <2>1 DEF DirsInv, AttachDirs
    <2>2. CASE task.kind = "persist" /\ task.dir # 0 /\ task' = [task EXCEPT !.kind = "register"]
      <3>1. task'.kind = "register" /\ task'.trace = task.trace /\ task'.dir = task.dir
        BY Zenon, <2>2, AttachTask
      <3> QED BY Zenon, <1>1, <2>2, <3>1 DEF DirsInv, AttachDirs
    <2> QED BY Zenon, <1>3, <2>1, <2>2 DEF AttachDirs
  <1> QED BY Zenon, <1>1, <1>2, <1>4, DirsStay

\* No directory is handed out twice, and what waits to be removed is settled.
LEMMA DirsHold == Spec => []DirsInv
  <1>1. IInv /\ DirsInv /\ [Next]_vars => DirsInv'
    BY Zenon, CreateDirs, MoveDirs, RegisterDirs, DrainDirs, FinishDirs, ReconcileDirs,
       CrashDirs, OtherDirs DEF Next, Attach, Drain, Start, Others
  <1> QED BY <1>1, InitDirs, Inductive, PTL DEF Spec

\* The directories that disappear in a step are settled.
LEMMA RemovalStep ==
    ASSUME IInv, DirsInv, [Next]_vars, fs' # NoFun \/ up' = "up",
           NEW d \in DOMAIN fs \ DOMAIN fs'
    PROVE  Done(d)
  <1>1. CASE AdmissionFails
    BY Zenon, <1>1 DEF AdmissionFails, Without, Restrict, IInv, AttachAgrees, Done
  <1>2. CASE DrainCycle
    <2>1. d \in Ripe
      BY Zenon, <1>2, DrainTakes
    <2>2. d \in pendingCleanup \/ \E t \in DOMAIN pendingAdm : pendingAdm[t] = d
      BY Zenon, <2>1 DEF Ripe, Range
    <2>3. PendingDirs
      BY Zenon DEF DirsInv
    <2>4. d \notin Named => Done(d)
      BY Zenon DEF Named, Done
    <2>5. Done(d) \/ d \notin Named
      BY Zenon, <2>2, <2>3 DEF PendingDirs, Apart
    <2> QED BY Zenon, <2>4, <2>5
  <1>3. CASE FinishFinalization
    BY Zenon, <1>3, FinishedDone, FinishTakes DEF FinishFinalization
  <1>4. CASE Reconcile \/ ReconcileFails
    <2>1. d \in Stray /\ up = "recovering" /\ task = Idle
      BY Zenon, <1>4, ReconcileTakes
    <2> QED BY Zenon, <2>1, StrayDone
  <1>5. CASE Crash
    BY Zenon, <1>5 DEF Crash
  <1>6. CASE CreateScope \/ MovePid
    BY Zenon, <1>6 DEF CreateScope, MovePid, With
  <1>7. CASE \E e \in Dirs : Fork(e) \/ Exit(e)
    BY Zenon, <1>7 DEF Fork, Exit
  <1>8. CASE UNCHANGED fs
    BY Zenon, <1>8
  <1>9. CASE Attach
    BY Zenon, <1>1, <1>6, <1>8, <1>9 DEF Attach, BeginAttach, PersistTrace, RegisterScope
  <1>10. CASE Drain
    BY Zenon, <1>2, <1>3, <1>8, <1>10 DEF Drain, PersistWaiting, PersistFinalState, CompleteTrace
  <1>11. CASE Start
    BY Zenon, <1>4, <1>8, <1>11 DEF Start, StartDaemon, CompleteBarrier
  <1>12. CASE UNCHANGED vars \/ \E t \in Traces : TraceEnds(t) \/ ForgetTrace(t) \/ TimeoutElapses(t)
    BY Zenon, <1>8, <1>12 DEF TraceEnds, ForgetTrace, TimeoutElapses, vars
  <1> QED BY Zenon, <1>5, <1>7, <1>9, <1>10, <1>11, <1>12 DEF Next

\* While the host stays up, a directory is removed only after its scope row is
\* final and its trace row terminal: by an admission that failed, by the drain,
\* by a finalization or by a start (cleanup_abandoned_admissions,
\* finish_finalization, initialize_required).
THEOREM CompletedFirst == Spec => CompletedBeforeRemoval
  <1>1. IInv /\ DirsInv /\ [Next]_vars =>
          [fs' # NoFun \/ up' = "up" =>
             \A d \in DOMAIN fs \ DOMAIN fs', t \in Traces :
               scopeRec[t].dir = d => /\ scopeRec[t].state \notin Live
                                      /\ traces[t] \in Terminal]_vars
    BY Zenon, RemovalStep DEF Done
  <1> QED BY <1>1, Inductive, DirsHold, PTL DEF Spec, CompletedBeforeRemoval

=============================================================================
