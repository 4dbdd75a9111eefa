-------------------------- MODULE UpstreamServer ---------------------------
(***************************************************************************)
(* The daemon's TCP server for gateways: the accept owner, one worker      *)
(* thread per socket and the caller of shutdown                            *)
(* (crates/adapters/sandbox_link/upstream/src/{server,connection}.rs),     *)
(* composed with the admission runtime of module GatewayIngest.            *)
(*                                                                         *)
(* A worker slot, one of the runtime's openers, stands for one socket and  *)
(* its thread; a slot whose thread has been reaped may serve a later       *)
(* socket.  Frames are counted, not represented: what matters is which     *)
(* handler a frame reaches and when.                                       *)
(***************************************************************************)
EXTENDS GatewayIngest

CONSTANT
    MaxChunk        \* bound: complete frames that one read may bring

VARIABLES
    stopRequested, \* UpstreamTcpServer::stop_requested
    caller,        \* where UpstreamTcpServer::shutdown is
    owner,         \* where AcceptOwner::run is
    handles,       \* AcceptOwner::connections, as worker slots
    io,            \* where each ConnectionWorker is
    welcomed,      \* ConnectionWorker::welcomed
    frames         \* complete frames left in the decoder of a worker

Workers == Openers
ingestVars == vars
serverVars == <<stopRequested, caller, owner, handles>>
workerVars == <<io, welcomed, frames>>
allVars == <<ingestVars, serverVars, workerVars>>

ServerInit ==
    /\ Init
    /\ stopRequested = FALSE
    /\ caller = "running"
    /\ owner = "loop"
    /\ handles = {}
    /\ io = [w \in Workers |-> "none"]
    /\ welcomed = [w \in Workers |-> FALSE]
    /\ frames = [w \in Workers |-> 0]

MoveTo(w, label) == io' = [io EXCEPT ![w] = label]

----------------------------------------------------------------------------
\* AcceptOwner::run

\* The loop condition, then reap_finished: finished threads give up their slot.
OwnerLoop ==
    /\ owner = "loop"
    /\ IF stopRequested
         THEN /\ owner' = "closing"
              /\ UNCHANGED <<handles, io>>
         ELSE LET finished == {w \in handles : io[w] = "finished"} IN
              /\ owner' = "accept"
              /\ handles' = handles \ finished
              /\ io' = [w \in Workers |-> IF w \in finished THEN "none" ELSE io[w]]
    /\ UNCHANGED <<ingestVars, stopRequested, caller, welcomed, frames>>

\* AcceptOwner::accept: a socket beyond max_connections threads is dropped,
\* any other one gets a worker of its own.
OwnerAccept(w) ==
    /\ owner = "accept"
    /\ io[w] = "none"
    /\ IF Cardinality(handles) >= MaxConnections
         THEN UNCHANGED <<handles, workerVars>>
         ELSE /\ handles' = handles \cup {w}
              /\ MoveTo(w, "reading")
              /\ welcomed' = [welcomed EXCEPT ![w] = FALSE]
              /\ frames' = [frames EXCEPT ![w] = 0]
    /\ owner' = "loop"
    /\ UNCHANGED <<ingestVars, stopRequested, caller>>

\* No socket is waiting (WouldBlock), accept failed, or the worker or its
\* thread could not be made; the owner sleeps or just loops.
OwnerIdle ==
    /\ owner = "accept"
    /\ owner' = "loop"
    /\ UNCHANGED <<ingestVars, stopRequested, caller, handles, workerVars>>

\* After the loop: set_accepting(false) and request_shutdown.
OwnerClose ==
    /\ owner = "closing"
    /\ RequestShutdown
    /\ owner' = "joining"
    /\ UNCHANGED <<stopRequested, caller, handles, workerVars>>

\* join_connections: waits for every thread in turn, then the owner ends.
OwnerJoin ==
    /\ owner = "joining"
    /\ \A w \in handles : io[w] = "finished"
    /\ handles' = {}
    /\ owner' = "done"
    /\ UNCHANGED <<ingestVars, stopRequested, caller, workerVars>>

----------------------------------------------------------------------------
\* UpstreamTcpServer::shutdown

ShutdownStop ==
    /\ caller = "running"
    /\ stopRequested' = TRUE
    /\ caller' = "stopped"
    /\ UNCHANGED <<ingestVars, owner, handles, workerVars>>

ShutdownRuntime ==
    /\ caller = "stopped"
    /\ RequestShutdown
    /\ caller' = "joining"
    /\ UNCHANGED <<stopRequested, owner, handles, workerVars>>

ShutdownJoin ==
    /\ caller = "joining"
    /\ owner = "done"
    /\ caller' = "returned"
    /\ UNCHANGED <<ingestVars, stopRequested, owner, handles, workerVars>>

----------------------------------------------------------------------------
\* ConnectionWorker

\* Mutant: run_inner loops until the peer closes, whatever the runtime says.
LoopForever(w) ==
    /\ io[w] = "reading"
    /\ MoveTo(w, "blocked")
    /\ UNCHANGED <<ingestVars, serverVars, welcomed, frames>>

\* run_inner, the loop condition is_shutdown_requested.
LoopCheck(w) ==
    /\ io[w] = "reading"
    /\ MoveTo(w, IF shutdownRequested THEN "ending" ELSE "blocked")
    /\ UNCHANGED <<ingestVars, serverVars, welcomed, frames>>

\* stream.read brings bytes that complete n frames (n = 0: a partial frame).
\* A read that times out before the idle timeout is the case n = 0 too.
ReadFrames(w, n) ==
    /\ io[w] = "blocked"
    /\ frames' = [frames EXCEPT ![w] = n]
    /\ MoveTo(w, IF n = 0 THEN "reading" ELSE "decoding")
    /\ UNCHANGED <<ingestVars, serverVars, welcomed>>

\* End of stream, idle timeout or a read error.
ReadEnds(w) ==
    /\ io[w] = "blocked"
    /\ MoveTo(w, "ending")
    /\ UNCHANGED <<ingestVars, serverVars, welcomed, frames>>

TakeFrame(w) ==
    /\ io[w] = "decoding"
    /\ frames[w] > 0
    /\ frames' = [frames EXCEPT ![w] = @ - 1]

\* The decoder holds no further complete frame.
DecoderEmpty(w) ==
    /\ io[w] = "decoding"
    /\ frames[w] = 0
    /\ MoveTo(w, "reading")
    /\ UNCHANGED <<ingestVars, serverVars, welcomed, frames>>

\* handle_frame: a frame that breaks the protocol, an undecodable one, a first
\* frame that is not GatewayHello or a later handshake frame.
BadFrame(w) ==
    /\ TakeFrame(w)
    /\ MoveTo(w, "ending")
    /\ UNCHANGED <<ingestVars, serverVars, welcomed>>

\* handle_frame, the first GatewayHello: enter try_open.
HelloFrame(w) ==
    /\ ~welcomed[w]
    /\ TakeFrame(w)
    /\ MoveTo(w, "opening")
    /\ UNCHANGED <<ingestVars, serverVars, welcomed>>

\* One atomic step of try_open; the worker goes on when it returns.
Opening(w) ==
    /\ io[w] = "opening"
    /\ OpenStep(w)
    /\ MoveTo(w, CASE pc'[w] = "open" -> "welcoming"
                   [] pc'[w] = "idle" -> "ending"
                   [] OTHER -> "opening")
    /\ UNCHANGED <<serverVars, welcomed, frames>>

\* write_frame(GatewayWelcome) succeeds.
Welcome(w) ==
    /\ io[w] = "welcoming"
    /\ welcomed' = [welcomed EXCEPT ![w] = TRUE]
    /\ MoveTo(w, "decoding")
    /\ UNCHANGED <<ingestVars, serverVars, frames>>

\* write_frame(GatewayWelcome) fails: handle_frame returns the error.
WelcomeFails(w) ==
    /\ io[w] = "welcoming"
    /\ MoveTo(w, "ending")
    /\ UNCHANGED <<ingestVars, serverVars, welcomed, frames>>

\* A Heartbeat frame: counted only.
HeartbeatFrame(w) ==
    /\ welcomed[w]
    /\ TakeFrame(w)
    /\ UNCHANGED <<ingestVars, serverVars, io, welcomed>>

\* A ForwardedSbFrame with one complete batch: the sink is called with the
\* worker's gateway id.
ForwardedFrame(w) ==
    /\ welcomed[w]
    /\ TakeFrame(w)
    /\ MoveTo(w, "delivering")
    /\ UNCHANGED <<ingestVars, serverVars, welcomed>>

\* The sink returns Ok or an error; neither ends the connection.
Delivered(w) ==
    /\ io[w] = "delivering"
    /\ MoveTo(w, "decoding")
    /\ UNCHANGED <<ingestVars, serverVars, welcomed, frames>>

\* run returns: the GatewayConnection, if any, is dropped, the thread ends.
Ending(w) ==
    /\ io[w] = "ending"
    /\ \/ DropActive(w) /\ UNCHANGED io
       \/ DropCount(w) /\ UNCHANGED io
       \/ pc[w] = "idle" /\ MoveTo(w, "finished") /\ UNCHANGED ingestVars
    /\ UNCHANGED <<serverVars, welcomed, frames>>

WorkerStep(w) ==
    \/ LoopCheck(w) \/ ReadEnds(w) \/ (\E n \in 0 .. MaxChunk : ReadFrames(w, n))
    \/ DecoderEmpty(w) \/ BadFrame(w) \/ HelloFrame(w) \/ Opening(w)
    \/ Welcome(w) \/ WelcomeFails(w) \/ HeartbeatFrame(w)
    \/ ForwardedFrame(w) \/ Delivered(w) \/ Ending(w)

OwnerStep ==
    OwnerLoop \/ OwnerIdle \/ OwnerClose \/ OwnerJoin \/ (\E w \in Workers : OwnerAccept(w))

CallerStep == ShutdownStop \/ ShutdownRuntime \/ ShutdownJoin

ServerNext == CallerStep \/ OwnerStep \/ (\E w \in Workers : WorkerStep(w))

\* Threads are scheduled: the owner, the workers (whose reads return within
\* connection_poll_interval) and a caller that has begun to shut down.
Fairness ==
    /\ WF_allVars(OwnerStep)
    /\ \A w \in Workers : WF_allVars(WorkerStep(w))
    /\ WF_allVars(ShutdownRuntime \/ ShutdownJoin)

ServerSpec == ServerInit /\ [][ServerNext]_allVars /\ Fairness

----------------------------------------------------------------------------

\* The server drives the runtime only through its own operations.
ImplementsIngest == Spec

\* shutdown() returns: whatever the gateways send, every worker leaves its
\* read loop and the owner joins it.
ShutdownReturns == stopRequested ~> (caller = "returned")

=============================================================================
