--------------------------- MODULE PayloadReorder ---------------------------
(***************************************************************************)
(* PayloadSegmentReorderer (crates/apps/daemon/src/services/payload/       *)
(* reorder.rs) between the per-CPU buffers it is fed from and the drain    *)
(* cycle that drives it.                                                   *)
(*                                                                         *)
(* One socket lane (ReorderStreamKey) of one process and trace: lanes      *)
(* share no state.  Time is counted in ticks and kept as ages, so          *)
(* behaviours are unbounded; an age is capped where the code no longer     *)
(* tells values apart.                                                     *)
(*                                                                         *)
(* Assumed: the threads of the process take turns on the lane.  Captures   *)
(* that overlap could share a sequence, which next_socket_payload_sequence *)
(* does not increment atomically.                                          *)
(***************************************************************************)
EXTENDS Integers, Sequences, FiniteSets, FiniteSetsExt

CONSTANTS
    Cpus,       \* each has its own event buffer
    Window,     \* REORDER_WINDOW
    Jitter,     \* bound: ticks from the capture of a chunk to its admission
    Retention,  \* STREAM_RETENTION
    Settle,     \* terminal_settle_delay
    MaxSeq,     \* bound: chunks of the lane
    None        \* the lane has no entry in the reorderer

Directions == {"inbound", "outbound"}

ASSUME CpusValid ==
    /\ IsFiniteSet(Cpus) /\ Cpus # {}
    /\ {"idle", "running"} \cap Cpus = {}
ASSUME NoEntry ==
    None \notin [last : Nat, pending : SUBSET [seq : Nat, age : Nat], idle : Nat]

ASSUME TimingValid ==
    /\ {Window, Jitter, Retention, Settle, MaxSeq} \subseteq Nat
    /\ Jitter < Window /\ Window < Retention /\ Window <= Settle

VARIABLES
    direction, \* of the lane
    op,        \* the socket operation under way: idle, running, or on a CPU
    opAge,     \* ticks since it began
    nextSeq,   \* payload_socket_stream_sequences
    closed,    \* the socket is closed
    exited,    \* its process has ended
    sinceExit, \* ticks since then
    buffer,    \* what each CPU has captured and nobody has polled
    bound,     \* the process is in EbpfCollector::bindings
    stream,    \* ReorderStreamState
    emitted,   \* history: the chunks handed on, with discontinuity_before
    renewed,   \* history: the lane lost its entry before
    registered, finalized \* the trace, in TraceRuntime and in the finalized set

kernel == <<direction, op, opAge, nextSeq, closed, exited>>
lane == <<bound, stream, emitted, renewed>>
trace == <<registered, finalized>>
vars == <<kernel, sinceExit, buffer, lane, trace>>

Capped(n, limit) == IF n < limit THEN n ELSE limit
\* Records of a released socket and of an exit; chunks have sequences from 1.
CloseRecord == 0
ExitRecord == -1

Init ==
    /\ direction \in Directions
    /\ op = "idle" /\ opAge = 0
    /\ nextSeq = 1
    /\ closed = FALSE /\ exited = FALSE
    /\ sinceExit = 0
    /\ buffer = [c \in Cpus |-> <<>>]
    /\ bound = TRUE
    /\ stream = None
    /\ emitted = <<>>
    /\ renewed = FALSE
    /\ registered = TRUE /\ finalized = FALSE

----------------------------------------------------------------------------
\* The kernel side.

\* A fresh record.
Record(seq, age) == [seq |-> seq, wait |-> 0, age |-> age]
\* A record that is delivered or lost.
Sent(seq, delivered) == IF seq \in delivered THEN <<Record(seq, 0)>> ELSE <<>>
Submit(c, records) == buffer' = [buffer EXCEPT ![c] = @ \o records]

\* store_socket_payload_op: the start is the stamp of an outbound chunk.
BeginOp ==
    /\ ~closed /\ op = "idle" /\ nextSeq <= MaxSeq
    /\ op' = "running" /\ opAge' = 0
    /\ UNCHANGED <<direction, nextSeq, closed, exited, sinceExit, buffer, lane, trace>>

\* emit_socket_payload_direct_chunk at the end of the operation: the sequence
\* is reserved even if the record is not delivered.
Capture(c, delivered) ==
    /\ op \in {"running", c} /\ nextSeq <= MaxSeq
    /\ op' = c
    /\ nextSeq' = nextSeq + 1
    /\ buffer' = IF delivered
                   THEN [buffer EXCEPT ![c] = Append(@,
                           Record(nextSeq, IF direction = "outbound" THEN opAge ELSE 0))]
                   ELSE buffer
    /\ UNCHANGED <<direction, opAge, closed, exited, sinceExit, lane, trace>>

\* The operation has emitted its chunks on the CPU it returned on.
EndOp ==
    /\ op \in Cpus
    /\ op' = "idle" /\ opAge' = 0
    /\ UNCHANGED <<direction, nextSeq, closed, exited, sinceExit, buffer, lane, trace>>

\* fd_release: the process closes the socket, which nobody uses any more.
Close(c, delivered) ==
    /\ ~closed /\ op = "idle"
    /\ closed' = TRUE
    /\ Submit(c, Sent(CloseRecord, delivered))
    /\ UNCHANGED <<direction, op, opAge, nextSeq, exited, sinceExit, lane, trace>>

\* handle_sched_process_exit: an open socket is released first; an
\* operation under way emits nothing.
Exit(c, delivered) ==
    /\ ~exited /\ op \in {"idle", "running"}
    /\ op' = "idle" /\ opAge' = 0
    /\ closed' = TRUE /\ exited' = TRUE
    /\ Submit(c, (IF closed THEN <<>> ELSE Sent(CloseRecord, delivered))
                    \o Sent(ExitRecord, delivered))
    /\ UNCHANGED <<direction, nextSeq, sinceExit, lane, trace>>

\* A tick; no record waits longer than Jitter, and an operation that returns
\* emits all its chunks at once.
Tick ==
    /\ op \in {"idle", "running"}
    /\ \A c \in Cpus : \A i \in DOMAIN buffer[c] : buffer[c][i].wait < Jitter
    /\ opAge' = IF op = "running" THEN Capped(opAge + 1, Window) ELSE 0
    /\ buffer' = [c \in Cpus |-> [i \in DOMAIN buffer[c] |->
                    [buffer[c][i] EXCEPT !.wait = @ + 1, !.age = Capped(@ + 1, Window)]]]
    /\ stream' = IF stream = None THEN None
                 ELSE [stream EXCEPT
                         !.idle = Capped(@ + 1, Retention),
                         !.pending = {[s EXCEPT !.age = Capped(@ + 1, Window)] : s \in @}]
    /\ sinceExit' = IF exited THEN Capped(sinceExit + 1, Settle) ELSE 0
    /\ UNCHANGED <<direction, op, nextSeq, closed, exited, bound, emitted, renewed, trace>>

----------------------------------------------------------------------------
\* The reorderer.

NewStream == [last |-> 0, pending |-> {}, idle |-> 0]
FirstSequence == 1
Continuous(last, seq) ==
    IF last = 0 THEN seq = FirstSequence ELSE seq \in {last, last + 1}

\* drain_ready visits the pending chunks by ascending sequence.  A chunk behind
\* the last one handed on is late and dropped; the others are compared with
\* what is handed on before them.
InTime(state) == {s \in state.pending : s.seq >= state.last}
Before(state, chunk) ==
    Max({state.last} \cup {s.seq : s \in {r \in InTime(state) : r.seq < chunk.seq}})
AfterGap(state, chunk) == ~Continuous(Before(state, chunk), chunk.seq)

\* Mutant: a gap is never waited for.
WaitsNever(state, chunk) == FALSE

\* An earlier sequence may still be in flight.
Waits(state, chunk) == AfterGap(state, chunk) /\ chunk.age < Window

\* Mutant: a chunk that follows a gap is handed on like any other.
AdmittedUnmarked(state, chunk) == [seq |-> chunk.seq, gap |-> FALSE]

\* AdmittedPayloadSegment.
Admitted(state, chunk) == [seq |-> chunk.seq, gap |-> AfterGap(state, chunk)]

\* drain_ready: everything up to the first chunk that waits.
Ready(state) ==
    {s \in InTime(state) : \A r \in InTime(state) : r.seq <= s.seq => ~Waits(state, r)}
\* The order of the map that holds them: by sequence.
Ascending(chunks) ==
    [i \in 1 .. Cardinality(chunks) |->
        CHOOSE a \in chunks : Cardinality({b \in chunks : b.seq <= a.seq}) = i]
DrainReady(state) == Ascending({Admitted(state, s) : s \in Ready(state)})
Drained(state) ==
    IF Ready(state) = {} THEN [state EXCEPT !.pending = InTime(state)]
    ELSE [last |-> Max({s.seq : s \in Ready(state)}),
          pending |-> InTime(state) \ Ready(state),
          idle |-> 0]

\* The entry of the lane once the polled chunks are inserted.
Inserted(chunks) ==
    LET state == IF stream = None THEN NewStream ELSE stream
    IN IF chunks = {} THEN state
       ELSE [state EXCEPT !.idle = 0, !.pending = @ \cup chunks]

\* Mutant: an idle entry is kept.
RetainedAlways(state) == state

\* admit, its end: an entry that holds nothing and is idle for long is dropped.
Retained(state) ==
    IF state.pending = {} /\ state.idle >= Retention THEN None ELSE state

\* The prefix of each buffer that one poll returns.
Polled(taken) == UNION {Range(SubSeq(buffer[c], 1, taken[c])) : c \in Cpus}
Chunks(records) == {[seq |-> r.seq, age |-> r.age] : r \in {x \in records : x.seq > 0}}
Has(records, seq) == \E r \in records : r.seq = seq
Held == IF stream = None THEN {} ELSE {s.seq : s \in stream.pending}

\* Mutant: a trace is finalized without the settle delay.
SettledAtOnce == exited

\* progress_terminal_finalizations: the settle delay has elapsed.
Settled == exited /\ sinceExit >= Settle

\* progress_terminal_finalizations: a finalized trace leaves the registry at
\* once; the reorderer is not told.
Finalize ==
    \/ Settled /\ registered /\ registered' = FALSE /\ finalized' = TRUE
    \/ UNCHANGED trace

\* forget_terminal_trace_state_impl: a finalized trace that is still in the
\* registry has its lanes forgotten.
ForgetsTerminal == registered' /\ finalized'

\* process_payload_segments_impl and process_payload_stream_closes_impl: the
\* polled chunks are admitted, then a polled close drops the entry, with
\* whatever it holds.
Payloads(records) ==
    \E inserted \in {Inserted(Chunks(records))} :
    \E state \in {Retained(Drained(inserted))} :
        /\ emitted' = emitted \o DrainReady(inserted)
        /\ IF stream = None /\ Chunks(records) = {}
             THEN UNCHANGED <<stream, renewed>>
             ELSE /\ stream' = IF Has(records, CloseRecord) \/ ForgetsTerminal
                                 THEN None ELSE state
                  /\ renewed' = (renewed \/ stream' = None)

\* poll_events empties a prefix of each buffer.
Poll(taken) ==
    /\ buffer' = [c \in Cpus |-> SubSeq(buffer[c], taken[c] + 1, Len(buffer[c]))]
    /\ UNCHANGED <<kernel, sinceExit>>

\* drain_live_events_impl with poll_batch: exits are handled last; a finalized
\* trace is unbound.
DrainCycle(taken) ==
    /\ bound \/ Polled(taken) = {}
    /\ Poll(taken)
    /\ Finalize
    /\ Payloads(Polled(taken))
    /\ bound' = (bound /\ ~finalized' /\ ~Has(Polled(taken), ExitRecord))

\* poll_batch fails on a record of a process that is not bound, of this lane or
\* another: every record it polled is gone, and so is the rest of the cycle
\* after drain_tls_sync_events_impl, which admits nothing new.
CycleFails(taken) ==
    /\ Polled(taken) # {}
    /\ Poll(taken)
    /\ UNCHANGED <<bound, trace>>
    /\ Payloads({})

\* Nothing is bound: poll_tls_payload_control_events drops the records.
CycleInactive(taken) ==
    /\ ~bound /\ Polled(taken) # {}
    /\ Poll(taken)
    /\ Finalize
    /\ Payloads({})
    /\ bound' = bound

\* A cycle that works.
Drain(taken) == DrainCycle(taken) \/ CycleInactive(taken)
Longest == Max({Len(buffer[c]) : c \in Cpus})
Polls == {taken \in [Cpus -> 0 .. Longest] : \A c \in Cpus : taken[c] <= Len(buffer[c])}

Next ==
    \/ BeginOp \/ EndOp
    \/ \E c \in Cpus, delivered \in BOOLEAN : Capture(c, delivered)
    \/ \E c \in Cpus, delivered \in SUBSET {CloseRecord, ExitRecord} :
           Close(c, delivered) \/ Exit(c, delivered)
    \/ Tick
    \/ \E taken \in Polls : Drain(taken) \/ CycleFails(taken)

Spec == Init /\ [][Next]_vars

\* Time passes, the drain loop runs, and an operation that emits returns.
FairSpec ==
    /\ Spec
    /\ WF_vars(Tick)
    /\ WF_vars(\E taken \in Polls : Drain(taken))
    /\ WF_vars(EndOp)

----------------------------------------------------------------------------

Previous(i) == IF i = 1 THEN 0 ELSE emitted[i - 1].seq
\* Chunks that may still come: captured or held.
Captured(c) == {r.seq : r \in Range(buffer[c])}
InFlight == (UNION {Captured(c) : c \in Cpus}) \cup Held

\* Chunks are handed on in ascending order, and what is skipped is gone for
\* good: no chunk overtakes one that is still in a buffer of another CPU or
\* held, as long as buffers are polled within the window.
SkipsOnlyTheLost ==
    \A i \in DOMAIN emitted :
        /\ Previous(i) < emitted[i].seq
        /\ \A s \in InFlight \ {CloseRecord, ExitRecord} : emitted[i].seq < s

\* A chunk is marked as following a discontinuity exactly if chunks before it
\* are missing, as long as the lane kept its entry.
GapsAreExact ==
    ~renewed => \A i \in DOMAIN emitted :
                    emitted[i].gap <=> emitted[i].seq # Previous(i) + 1

\* Nothing is held for a trace when it is finalized: whatever was captured
\* before its end was handed on, or dropped, within the settle delay, so no
\* segment of a forgotten trace is left to fail a later cycle.
FinalizedHoldsNothing == finalized => Held = {}

\* The entry of a lane does not stay for ever: chunks that wait for a lost one
\* are handed on, and an idle entry is dropped.
EntriesExpire == stream # None ~> stream = None
=============================================================================
