---------------------------- MODULE VsockGateway ----------------------------
(***************************************************************************)
(* actrail-vsock-gateway (crates/core/vsock_gateway_runtime/src): the      *)
(* accept loop, one worker thread per SB connection with its forward       *)
(* quota, the session registry, the bounded queue to the single upstream   *)
(* worker with its reconnect and capability downgrade, and the caller of   *)
(* shutdown.                                                               *)
(*                                                                         *)
(* Each SB connection of a run is one element of Sbs, so that the permits  *)
(* of a closed session stay distinct from those of its successor.  Frames  *)
(* are numbered per session; their bytes are left out.                     *)
(***************************************************************************)
EXTENDS Integers, FiniteSets, Sequences

CONSTANTS
    Sbs,       \* the SB connections of a run
    MaxSb,     \* GatewayConfig::max_sb_connections
    Quota,     \* GatewayConfig::per_sb_forward_quota
    QueueCap,  \* GatewayConfig::outbound_queue_capacity
    IdSpace,   \* stands for 2^32, the number of u32 values
    MaxFrames, \* bound: ObservationBatch frames per SB
    MaxLinks,  \* bound: upstream connections of a run
    NoItem     \* the worker holds no ForwardItem

\* GatewayConfig::validate; IdSpace holds because the code's ids are u32.
ASSUME ConfigValid ==
    /\ MaxSb \in Nat \ {0}
    /\ Quota \in Nat \ {0}
    /\ QueueCap \in Nat
    /\ MaxSb * Quota <= QueueCap
    /\ IdSpace \in Nat /\ IdSpace > MaxSb
\* None is not an item.
ASSUME NoItemIsNone == NoItem \notin [sb : Sbs, n : Nat]

VARIABLES
    stop,      \* GatewayRuntime::stop
    upStop,    \* UpstreamLink::stop
    caller,    \* where GatewayRuntime::shutdown is
    accept,    \* where AcceptLoop::run is
    workers,   \* its JoinHandles, as SB connections
    nextId,    \* RegistryState::next_id
    activeIds, \* RegistryState::active
    io,        \* where each SbConnectionWorker is
    sbId,      \* the id a session was given, 0 before
    wl,        \* workload_cgroup_observations negotiated with the SB
    open,      \* SessionForwardState::active
    pending,   \* SessionForwardState::pending
    sent,      \* frames a session has taken from its socket
    queue,     \* the sync_channel to the upstream worker
    up,        \* where UpstreamWorker::run is
    held,      \* the ForwardItem the worker holds, or NoItem
    prev,      \* previously_supported
    gwId,      \* the published gateway id, 0 if invalid
    supports,  \* the published workload_cgroup_observations
    link,      \* the upstream connection: its number and its capability
    received   \* history: the frames written, with their link and whether the
               \* session had closed by then

registryVars == <<nextId, activeIds>>
sessionVars == <<io, sbId, wl, open, pending, sent>>
upVars == <<up, held, prev, gwId, supports, link, received>>
ctlVars == <<stop, upStop, caller, accept, workers>>
vars == <<ctlVars, registryVars, sessionVars, queue, upVars>>

Item(s) == [sb |-> s, n |-> sent[s]]
Links == [no : 1 .. MaxLinks, workload : BOOLEAN]

\* GatewayRuntime::start: the first upstream connection is registered already.
Init ==
    /\ stop = FALSE
    /\ upStop = FALSE
    /\ caller = "running"
    /\ accept = "loop"
    /\ workers = {}
    /\ nextId = 1
    /\ activeIds = {}
    /\ io = [s \in Sbs |-> "none"]
    /\ sbId = [s \in Sbs |-> 0]
    /\ wl = [s \in Sbs |-> FALSE]
    /\ open = [s \in Sbs |-> TRUE]
    /\ pending = [s \in Sbs |-> 0]
    /\ sent = [s \in Sbs |-> 0]
    /\ queue = <<>>
    /\ up = "loop"
    /\ held = NoItem
    /\ prev = FALSE
    /\ gwId = 1
    /\ link \in {l \in Links : l.no = 1}
    /\ supports = link.workload
    /\ received = <<>>

\* The items of a session in the channel, and in the worker's hands.
Queued(s) == Cardinality({i \in DOMAIN queue : queue[i].sb = s})
Held(s) == IF held # NoItem /\ held.sb = s THEN 1 ELSE 0

MoveTo(s, label) == io' = [io EXCEPT ![s] = label]
\* Drop for SessionForwardPermit.
DropPermit(s) == pending' = [pending EXCEPT ![s] = @ - 1]

----------------------------------------------------------------------------
\* AcceptLoop::run

\* The loop condition, then reap_finished.
AcceptLoop ==
    /\ accept = "loop"
    /\ IF stop
         THEN accept' = "joining" /\ UNCHANGED workers
         ELSE /\ accept' = "accept"
              /\ workers' = {s \in workers : io[s] # "finished"}
    /\ UNCHANGED <<stop, upStop, caller, registryVars, sessionVars, queue, upVars>>

\* spawn_connection: at most max_sb_connections worker threads.
Accept(s) ==
    /\ accept = "accept"
    /\ io[s] = "none"
    /\ accept' = "loop"
    /\ IF Cardinality(workers) >= MaxSb
         THEN workers' = workers /\ MoveTo(s, "finished")
         ELSE workers' = workers \cup {s} /\ MoveTo(s, "hello")
    /\ UNCHANGED <<stop, upStop, caller, registryVars, sbId, wl, open, pending,
                   sent, queue, upVars>>

\* No connection is waiting, or accept or spawn failed.
AcceptNone ==
    /\ accept = "accept"
    /\ accept' = "loop"
    /\ UNCHANGED <<stop, upStop, caller, workers, registryVars, sessionVars,
                   queue, upVars>>

\* The worker threads are joined after the loop.
AcceptJoin ==
    /\ accept = "joining"
    /\ \A s \in workers : io[s] = "finished"
    /\ accept' = "done"
    /\ UNCHANGED <<stop, upStop, caller, workers, registryVars, sessionVars,
                   queue, upVars>>

----------------------------------------------------------------------------
\* SbConnectionWorker::run

\* No hello: a wrong first frame, a closed connection, the idle deadline or stop.
HelloFails(s) ==
    /\ io[s] = "hello"
    /\ MoveTo(s, "finished")
    /\ UNCHANGED <<ctlVars, registryVars, sbId, wl, open, pending, sent, queue, upVars>>

\* The id tried after k ids that were in use: next_id wraps past u32::MAX to 1.
Candidate(k) == ((nextId - 1 + k) % (IdSpace - 1)) + 1
Successor(id) == IF (id + 1) % IdSpace = 0 THEN 1 ELSE id + 1

\* SbHello, then SessionRegistry::allocate under its lock: the first of
\* capacity + 1 candidates that is not in use.
HelloAllocate(s) ==
    /\ io[s] = "hello"
    /\ IF \/ Cardinality(activeIds) >= MaxSb
          \/ \A k \in 0 .. MaxSb : Candidate(k) \in activeIds
         THEN MoveTo(s, "finished") /\ UNCHANGED <<registryVars, sbId>>
         ELSE \E k \in 0 .. MaxSb :
              /\ Candidate(k) \notin activeIds
              /\ \A j \in 0 .. k - 1 : Candidate(j) \in activeIds
              /\ nextId' = Successor(Candidate(k))
              /\ activeIds' = activeIds \cup {Candidate(k)}
              /\ sbId' = [sbId EXCEPT ![s] = Candidate(k)]
              /\ MoveTo(s, "welcome")
    /\ UNCHANGED <<ctlVars, wl, open, pending, sent, queue, upVars>>

\* The capability is read and the SbWelcome is written, or the write fails.
Welcome(s) ==
    /\ io[s] = "welcome"
    /\ wl' = [wl EXCEPT ![s] = supports]
    /\ \E label \in {"reading", "closing"} : MoveTo(s, label)
    /\ UNCHANGED <<ctlVars, registryVars, sbId, open, pending, sent, queue, upVars>>

\* The loop test of stop, before each read.
LoopTest(s) ==
    /\ io[s] = "reading"
    /\ MoveTo(s, IF stop THEN "closing" ELSE "blocked")
    /\ UNCHANGED <<ctlVars, registryVars, sbId, wl, open, pending, sent, queue, upVars>>

\* The read times out, brings part of a frame, or brings a heartbeat.
ReadNothing(s) ==
    /\ io[s] = "blocked"
    /\ MoveTo(s, "reading")
    /\ UNCHANGED <<ctlVars, registryVars, sbId, wl, open, pending, sent, queue, upVars>>

\* End of stream, a read error, the idle timeout, or a frame that is neither a
\* heartbeat nor a batch.
SessionEnds(s) ==
    /\ io[s] = "blocked"
    /\ MoveTo(s, "closing")
    /\ UNCHANGED <<ctlVars, registryVars, sbId, wl, open, pending, sent, queue, upVars>>

\* An ObservationBatch frame arrives.
BatchArrives(s) ==
    /\ io[s] = "blocked"
    /\ sent[s] < MaxFrames
    /\ sent' = [sent EXCEPT ![s] = @ + 1]
    /\ MoveTo(s, "batch")
    /\ UNCHANGED <<ctlVars, registryVars, sbId, wl, open, pending, queue, upVars>>

\* A session that negotiated workload observations ends when the upstream no
\* longer supports them.
CheckCapability(s) ==
    /\ io[s] = "batch"
    /\ MoveTo(s, IF wl[s] /\ ~supports THEN "closing" ELSE "forward")
    /\ UNCHANGED <<ctlVars, registryVars, sbId, wl, open, pending, sent, queue, upVars>>

\* SessionForwardQuota::try_reserve.  The session's own thread is the only one
\* that closes the quota, so its two tests of active cannot fail here.
TryReserve(s) ==
    /\ io[s] = "forward"
    /\ IF pending[s] < Quota
         THEN /\ pending' = [pending EXCEPT ![s] = @ + 1]
              /\ MoveTo(s, "send")
         ELSE UNCHANGED pending /\ MoveTo(s, "closing")
    /\ UNCHANGED <<ctlVars, registryVars, sbId, wl, open, sent, queue, upVars>>

\* Mutant: a full queue drops the frame but not its permit.
TrySendLeaks(s) ==
    /\ io[s] = "send"
    /\ IF Len(queue) < QueueCap
         THEN /\ queue' = Append(queue, Item(s))
              /\ MoveTo(s, "reading")
         ELSE /\ UNCHANGED queue
              /\ MoveTo(s, "closing")
    /\ UNCHANGED <<ctlVars, registryVars, sbId, wl, open, pending, sent, upVars>>

\* UpstreamSender::try_send into the bounded channel; a full or disconnected
\* channel drops the item with its permit and the error ends the session.
TrySend(s) ==
    /\ io[s] = "send"
    /\ IF Len(queue) < QueueCap /\ up # "stopped"
         THEN /\ queue' = Append(queue, Item(s))
              /\ MoveTo(s, "reading")
              /\ UNCHANGED pending
         ELSE /\ DropPermit(s)
              /\ MoveTo(s, "closing")
              /\ UNCHANGED queue
    /\ UNCHANGED <<ctlVars, registryVars, sbId, wl, open, sent, upVars>>

\* Drop for SessionRelease, forward_quota.close().
CloseQuota(s) ==
    /\ io[s] = "closing"
    /\ open' = [open EXCEPT ![s] = FALSE]
    /\ MoveTo(s, "releasing")
    /\ UNCHANGED <<ctlVars, registryVars, sbId, wl, pending, sent, queue, upVars>>

\* Drop for SessionRelease, sessions.release(id); the thread ends.
ReleaseId(s) ==
    /\ io[s] = "releasing"
    /\ activeIds' = activeIds \ {sbId[s]}
    /\ MoveTo(s, "finished")
    /\ UNCHANGED <<ctlVars, nextId, sbId, wl, open, pending, sent, queue, upVars>>

SbStep(s) ==
    \/ HelloFails(s) \/ HelloAllocate(s) \/ Welcome(s)
    \/ LoopTest(s) \/ ReadNothing(s) \/ SessionEnds(s) \/ BatchArrives(s)
    \/ CheckCapability(s) \/ TryReserve(s) \/ TrySend(s)
    \/ CloseQuota(s) \/ ReleaseId(s)

----------------------------------------------------------------------------
\* UpstreamWorker::run

UpUnchanged == UNCHANGED <<ctlVars, registryVars, io, sbId, wl, open, sent>>

\* Mutant: reconnect does not look at the stop flag.
UpStopsWhenConnected ==
    /\ up = "loop"
    /\ upStop
    /\ up' = "stopped"
    /\ gwId' = 0
    /\ supports' = FALSE
    /\ held' = NoItem
    /\ queue' = <<>>
    /\ pending' = [s \in Sbs |-> pending[s] - Queued(s) - Held(s)]
    /\ UpUnchanged /\ UNCHANGED <<prev, link, received>>

\* The loop condition fails: the id lifetime guard invalidates the published
\* state and the receiver goes with every item still in the channel.
UpStops ==
    /\ up \in {"loop", "reconnecting"}
    /\ upStop
    /\ up' = "stopped"
    /\ gwId' = 0
    /\ supports' = FALSE
    /\ held' = NoItem
    /\ queue' = <<>>
    /\ pending' = [s \in Sbs |-> pending[s] - Queued(s) - Held(s)]
    /\ UpUnchanged /\ UNCHANGED <<prev, link, received>>

\* The item kept from a failed write, or the next one of the channel.
UpTakes ==
    /\ up = "loop"
    /\ ~upStop
    /\ \/ held # NoItem /\ UNCHANGED <<held, queue>>
       \/ held = NoItem /\ queue # <<>> /\ held' = Head(queue) /\ queue' = Tail(queue)
    /\ up' = "have"
    /\ UpUnchanged /\ UNCHANGED <<pending, prev, gwId, supports, link, received>>

\* Mutant: frames of closed sessions are written too.
UpChecksNothing ==
    /\ up = "have"
    /\ up' = "write"
    /\ UpUnchanged
    /\ UNCHANGED <<queue, held, pending, prev, gwId, supports, link, received>>

\* permit.is_active(): items of closed sessions are dropped with their permit.
UpChecksActive ==
    /\ up = "have"
    /\ IF open[held.sb]
         THEN up' = "write" /\ UNCHANGED <<held, pending>>
         ELSE up' = "loop" /\ held' = NoItem /\ DropPermit(held.sb)
    /\ UpUnchanged /\ UNCHANGED <<queue, prev, gwId, supports, link, received>>

\* Mutant: the item stays pending after a successful write.
UpWritesKeeping ==
    /\ up = "write"
    /\ Len(received) < MaxFrames * Cardinality(Sbs)
    /\ received' = Append(received, [item |-> held, link |-> link,
                                     closed |-> ~open[held.sb]])
    /\ up' = "loop"
    /\ UpUnchanged /\ UNCHANGED <<queue, held, pending, prev, gwId, supports, link>>

\* write_all succeeds; the item and its permit are dropped.
UpWrites ==
    /\ up = "write"
    /\ received' = Append(received, [item |-> held, link |-> link,
                                     closed |-> ~open[held.sb]])
    /\ DropPermit(held.sb)
    /\ held' = NoItem
    /\ up' = "loop"
    /\ UpUnchanged /\ UNCHANGED <<queue, prev, gwId, supports, link>>

\* write_all fails: the item is kept for the next connection.  A heartbeat
\* that fails, possible only with nothing to send, leads to the same place.
\* The id is invalidated once previously_supported has been read.
UpFails ==
    /\ \/ up = "write"
       \/ up = "loop" /\ ~upStop /\ held = NoItem /\ queue = <<>>
    /\ link.no < MaxLinks
    /\ prev' = supports
    /\ gwId' = 0
    /\ up' = "failed"
    /\ UpUnchanged /\ UNCHANGED <<queue, held, pending, supports, link, received>>

\* The capability is withdrawn before the reconnect begins.
UpWithdraws ==
    /\ up = "failed"
    /\ supports' = FALSE
    /\ up' = "reconnecting"
    /\ UpUnchanged /\ UNCHANGED <<queue, held, pending, prev, gwId, link, received>>

\* Mutant: a reconnect never discards what was queued for the old connection.
UpReconnectsKeeping(workload) ==
    /\ up = "reconnecting"
    /\ ~upStop
    /\ link' = [no |-> link.no + 1, workload |-> workload]
    /\ up' = "publish"
    /\ UpUnchanged /\ UNCHANGED <<queue, held, pending, prev, gwId, supports, received>>

\* connect_registered succeeds with or without the capability (failed attempts
\* change nothing); a downgrade has to discard what is queued.
UpReconnects(workload) ==
    /\ up = "reconnecting"
    /\ ~upStop
    /\ link' = [no |-> link.no + 1, workload |-> workload]
    /\ up' = IF prev /\ ~workload THEN "discard" ELSE "publish"
    /\ UpUnchanged /\ UNCHANGED <<queue, held, pending, prev, gwId, supports, received>>

\* The kept item is dropped first, then the channel is emptied item by item
\* while the sessions go on sending.
UpDiscards ==
    /\ up = "discard"
    /\ \/ held # NoItem /\ DropPermit(held.sb) /\ held' = NoItem /\ UNCHANGED <<up, queue>>
       \/ /\ held = NoItem /\ queue # <<>>
          /\ DropPermit(Head(queue).sb) /\ queue' = Tail(queue) /\ UNCHANGED <<up, held>>
       \/ held = NoItem /\ queue = <<>> /\ up' = "publish" /\ UNCHANGED <<held, queue, pending>>
    /\ UpUnchanged /\ UNCHANGED <<prev, gwId, supports, link, received>>

UpPublishesId ==
    /\ up = "publish"
    /\ gwId' = link.no
    /\ up' = "publishWorkload"
    /\ UpUnchanged /\ UNCHANGED <<queue, held, pending, prev, supports, link, received>>

UpPublishesWorkload ==
    /\ up = "publishWorkload"
    /\ supports' = link.workload
    /\ up' = "loop"
    /\ UpUnchanged /\ UNCHANGED <<queue, held, pending, prev, gwId, link, received>>

\* The steps of the worker that do not depend on the daemon's answering.
UpProgress ==
    \/ UpStops \/ UpTakes \/ UpChecksActive \/ UpWrites \/ UpFails \/ UpWithdraws
    \/ UpDiscards \/ UpPublishesId \/ UpPublishesWorkload

UpStep == UpProgress \/ (\E workload \in BOOLEAN : UpReconnects(workload))

----------------------------------------------------------------------------
\* GatewayRuntime::shutdown

ShutdownStop ==
    /\ caller = "running"
    /\ stop' = TRUE
    /\ caller' = "joinAccept"
    /\ UNCHANGED <<upStop, accept, workers, registryVars, sessionVars, queue, upVars>>

\* The accept thread, and with it every session, is joined before the
\* upstream worker is told to stop.
ShutdownUpstream ==
    /\ caller = "joinAccept"
    /\ accept = "done"
    /\ upStop' = TRUE
    /\ caller' = "joinUpstream"
    /\ UNCHANGED <<stop, accept, workers, registryVars, sessionVars, queue, upVars>>

ShutdownReturn ==
    /\ caller = "joinUpstream"
    /\ up = "stopped"
    /\ caller' = "returned"
    /\ UNCHANGED <<stop, upStop, accept, workers, registryVars, sessionVars, queue, upVars>>

AcceptStep == AcceptLoop \/ AcceptNone \/ AcceptJoin \/ (\E s \in Sbs : Accept(s))
CallerStep == ShutdownStop \/ ShutdownUpstream \/ ShutdownReturn

Next == CallerStep \/ AcceptStep \/ UpStep \/ (\E s \in Sbs : SbStep(s))

\* Every thread is scheduled.  The reads of a session return within io_timeout
\* and its hello has a deadline; a write of the upstream worker succeeds or
\* fails within io_timeout, while its reconnect may fail for ever.
Fairness ==
    /\ WF_vars(AcceptStep)
    /\ WF_vars(UpProgress)
    /\ WF_vars(ShutdownUpstream \/ ShutdownReturn)
    /\ \A s \in Sbs : WF_vars(SbStep(s))

Spec == Init /\ [][Next]_vars /\ Fairness

----------------------------------------------------------------------------

Sessions == {s \in Sbs : io[s] \in {"welcome", "reading", "blocked", "batch",
                                    "forward", "send", "closing", "releasing"}}

\* Types, and no unsigned counter below zero.
TypeOK ==
    /\ nextId \in 1 .. IdSpace - 1
    /\ activeIds \subseteq 1 .. IdSpace - 1
    /\ pending \in [Sbs -> 0 .. Quota]
    /\ sent \in [Sbs -> 0 .. MaxFrames]
    /\ Len(queue) <= QueueCap
    /\ link \in Links
    /\ gwId \in 0 .. MaxLinks
    /\ held # NoItem => held \in [sb : Sbs, n : 1 .. MaxFrames]

\* A session's pending count is exactly the number of its frames that are in
\* the channel, held by the upstream worker, or between reservation and send;
\* no path (full channel, closed session, failed write, discard) leaks or
\* doubles a permit.
PermitsExact ==
    \A s \in Sbs :
        pending[s] = Queued(s) + Held(s) + (IF io[s] = "send" THEN 1 ELSE 0)

\* Live sessions have distinct non-zero ids, exactly those of the registry,
\* also after next_id has wrapped (session.rs:39).
SessionIdsUnique ==
    /\ activeIds = {sbId[s] : s \in Sessions}
    /\ \A s \in Sessions : sbId[s] \in 1 .. IdSpace - 1
    /\ \A s, t \in Sessions : sbId[s] = sbId[t] => s = t

\* After a downgrade at most one batch of a session that negotiated workload
\* observations reaches a connection without them: the one that had passed the
\* test of the capability (runtime.rs:245) before it was withdrawn.
DowngradeLeaksAtMostOne ==
    \A s \in Sbs : wl[s] =>
        \A no \in 1 .. MaxLinks :
            Cardinality({i \in DOMAIN received : /\ received[i].item.sb = s
                                                 /\ received[i].link.no = no
                                                 /\ ~received[i].link.workload}) <= 1

\* A frame is written at most once and the frames of a session in their order,
\* although a failed write is repeated on the next connection and a downgrade
\* discards part of the queue.
ForwardedOnceInOrder ==
    \A i, j \in DOMAIN received :
        i < j /\ received[i].item.sb = received[j].item.sb
            => received[i].item.n < received[j].item.n

\* Once a session has closed, at most the one frame the worker had already
\* looked at is still written for it; what is queued or kept from a failed
\* write is dropped (upstream.rs:226).
AtMostOneFrameAfterClose ==
    \A s \in Sbs :
        Cardinality({i \in DOMAIN received : /\ received[i].item.sb = s
                                             /\ received[i].closed}) <= 1

\* shutdown() returns, also while the upstream is being reconnected.
ShutdownReturns == stop ~> (caller = "returned")

\* "global outbound queue must cover every SB reserved forward quota"
\* (config.rs:64): a session that has reserved quota finds room in the queue.
QueueCoversQuota == \A s \in Sbs : io[s] = "send" => Len(queue) < QueueCap

=============================================================================
