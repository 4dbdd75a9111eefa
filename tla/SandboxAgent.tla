---------------------------- MODULE SandboxAgent ----------------------------
(***************************************************************************)
(* The guest daemon's SandboxAgentDaemon                                   *)
(* (crates/core/sandbox_agent_runtime): the session thread that owns the   *)
(* VSOCK connection, the sampling workers that publish through the         *)
(* ConnectionGate, the control port that asks for a connection, and        *)
(* shutdown.                                                               *)
(*                                                                         *)
(* Shared state is the stop flag, the two words of the gate, the bounded   *)
(* observation queue, the one-slot command channel with its count of       *)
(* pending commands, the one-slot baseline channel and the completion word *)
(* of each request.  Each action is one access to that state together with *)
(* the thread-local work around it.  park_timeout and recv_timeout always  *)
(* return in the end, so waiting is modelled as going round the loop.      *)
(***************************************************************************)
EXTENDS Integers, Sequences, FiniteSets

CONSTANTS
    Requests,  \* calls of SandboxAgentControlHandle::execute, each made once
    Endpoints, \* the endpoints they may ask for
    Grants,    \* what a welcome may say of the workload capability
    Workers,   \* a subset of WorkerKinds; the I/O worker is always there
    QueueCap,  \* observation_queue_capacity
    BatchMax,  \* batch_max_observations
    MaxGen,    \* bound: the number of connections the transport grants
    None

WorkerKinds == {"io", "guest", "workload"}

ASSUME WorkersValid == Workers \subseteq WorkerKinds /\ "io" \in Workers
ASSUME BoundsValid ==
    /\ Grants \subseteq BOOLEAN
    /\ QueueCap \in Nat \ {0}
    /\ BatchMax \in Nat \ {0}
    /\ MaxGen \in Nat

VARIABLES
    stop,       \* the daemon-wide AtomicBool
    gateGen,    \* ConnectionGate::generation, 0 when closed
    gateWl,     \* ConnectionGate::workload_generation
    queue,      \* the observation channel
    cmds,       \* the command channel, capacity 1
    pendingCmds,\* SessionWake::pending_commands
    connection, \* SharedSessionStatus::connection
    pubEnabled, \* SharedSessionStatus::publication_enabled
    spc,        \* where SessionOwner::run is
    active,     \* SessionOwner::active
    reconnect,  \* the endpoint of SessionOwner::reconnect
    attempt,    \* the connection being established and what asked for it
    nextGen,    \* next_generation
    pending,    \* the batch being assembled
    req,        \* the requests: caller, completion word, answer
    ioReq,      \* the baseline channel
    ioResp,     \* the answer to ioReq
    ioPub,      \* publication generation of the I/O source
    wpc,        \* where each worker is
    captured,   \* the generation each worker captured before sampling
    dpc         \* where SandboxAgentDaemon::shutdown is

gateVars == <<gateGen, gateWl>>
cmdVars == <<cmds, pendingCmds>>
statusVars == <<connection, pubEnabled>>
sessionVars == <<active, reconnect, attempt, nextGen, pending>>
ioVars == <<ioReq, ioResp, ioPub>>
workerVars == <<wpc, captured>>
vars == <<stop, gateVars, queue, cmdVars, statusVars, spc, sessionVars, req,
          ioVars, workerVars, dpc>>

Envelope == [gen : 1 .. MaxGen, kind : WorkerKinds, pub : 0 .. MaxGen]
Session == [endpoint : Endpoints, gen : 1 .. MaxGen, wl : BOOLEAN,
            req : Requests \cup {None}]
Attempt == [endpoint : Endpoints, gen : 0 .. MaxGen, wl : BOOLEAN,
            req : Requests \cup {None}]
\* Option::None is no value, and the Shutdown command no request.
ASSUME NamesDistinct ==
    /\ None \notin Requests \cup Endpoints \cup Session \cup Attempt
    /\ "shutdown" \notin Requests

Answers == {"none", "connected", "existing", "timeout", "stopping", "failed", "busy"}
Request == [pc : {"new", "begun", "waiting", "timedOut", "committed", "done"},
            endpoint : Endpoints \cup {None},
            completion : {"pending", "cancelled", "committed"},
            expired : BOOLEAN, resp : Answers, result : Answers]

Init ==
    /\ stop = FALSE
    /\ gateGen = 0 /\ gateWl = 0
    /\ queue = <<>>
    /\ cmds = <<>> /\ pendingCmds = 0
    /\ connection = "disconnected" /\ pubEnabled = FALSE
    /\ spc = "top"
    /\ active = None /\ reconnect = None /\ attempt = None
    /\ nextGen = 0
    /\ pending = <<>>
    /\ req = [r \in Requests |->
                [pc |-> "new", endpoint |-> None, completion |-> "pending",
                 expired |-> FALSE, resp |-> "none", result |-> "none"]]
    /\ ioReq = "none" /\ ioResp = "none" /\ ioPub = 0
    /\ wpc = [w \in Workers |-> "test"]
    /\ captured = [w \in Workers |-> 0]
    /\ dpc = "running"

----------------------------------------------------------------------------
(* The control port: one request at a time, from the dispatcher's worker.   *)

InFlight(r) == req[r].pc \in {"begun", "waiting", "timedOut", "committed"}
SetReq(r, field, value) == req' = [req EXCEPT ![r][field] = value]
Finish(r, result) ==
    req' = [req EXCEPT ![r].pc = "done", ![r].result = result]
ControlUnchanged ==
    UNCHANGED <<stop, gateVars, queue, statusVars, spc, sessionVars, ioVars,
                workerVars, dpc>>

\* execute: the deadline is set and the command announced to the session.
BeginCommand(r) ==
    /\ req[r].pc = "new"
    /\ \A q \in Requests : ~InFlight(q)
    /\ \E e \in Endpoints :
          req' = [req EXCEPT ![r].pc = "begun", ![r].endpoint = e]
    /\ pendingCmds' = pendingCmds + 1
    /\ UNCHANGED cmds
    /\ ControlUnchanged

\* execute: try_send and, when it fails, cancel_command.
TrySendCommand(r) ==
    /\ req[r].pc = "begun"
    /\ IF spc = "done" \/ cmds # <<>>
         THEN /\ Finish(r, IF spc = "done" THEN "stopping" ELSE "busy")
              /\ pendingCmds' = pendingCmds - 1
              /\ UNCHANGED cmds
         ELSE /\ cmds' = <<r>>
              /\ SetReq(r, "pc", "waiting")
              /\ UNCHANGED pendingCmds
    /\ ControlUnchanged

\* The deadline of a request passes.
Expire(r) ==
    /\ InFlight(r)
    /\ ~req[r].expired
    /\ SetReq(r, "expired", TRUE)
    /\ UNCHANGED cmdVars
    /\ ControlUnchanged

\* execute: recv_timeout, and the recv after a lost race with permit_commit,
\* return the session's answer.
ReceiveAnswer(r) ==
    /\ req[r].pc \in {"waiting", "committed"}
    /\ req[r].resp # "none"
    /\ Finish(r, req[r].resp)
    /\ UNCHANGED cmdVars
    /\ ControlUnchanged

\* execute: recv_timeout runs out, request_timeout after the deadline was set.
ReceiveTimeout(r) ==
    /\ req[r].pc = "waiting"
    /\ req[r].expired
    /\ req[r].resp = "none"
    /\ SetReq(r, "pc", "timedOut")
    /\ UNCHANGED cmdVars
    /\ ControlUnchanged

\* execute: PENDING -> CANCELLED, or wait for the answer of a session that has
\* already committed or cancelled.
CancelRequest(r) ==
    /\ req[r].pc = "timedOut"
    /\ IF req[r].completion = "pending"
         THEN req' = [req EXCEPT ![r].completion = "cancelled",
                                 ![r].pc = "done", ![r].result = "timeout"]
         ELSE SetReq(r, "pc", "committed")
    /\ UNCHANGED cmdVars
    /\ ControlUnchanged

Control(r) ==
    \/ BeginCommand(r)
    \/ TrySendCommand(r)
    \/ ReceiveAnswer(r)
    \/ ReceiveTimeout(r)
    \/ CancelRequest(r)

----------------------------------------------------------------------------
(* The session thread.                                                      *)

SessionFrame == UNCHANGED <<stop, workerVars, dpc>>

SetStatus(state, enabled) == connection' = state /\ pubEnabled' = enabled

\* gate.disable: a capture or a check between its two stores has the same
\* outcome as one before both.
CloseGate == gateGen' = 0 /\ gateWl' = 0

\* disconnect_all.
DisconnectAll ==
    /\ CloseGate
    /\ pending' = <<>>
    /\ active' = None
    /\ reconnect' = None
    /\ queue' = <<>>

AttemptFor(r, e) == [endpoint |-> e, gen |-> 0, wl |-> FALSE, req |-> r]

\* The response channel of the request being executed, if there is one.
Respond(answer) ==
    IF attempt.req = None THEN UNCHANGED req ELSE SetReq(attempt.req, "resp", answer)

\* run: the loop condition.
LoopTop ==
    /\ spc = "top"
    /\ spc' = IF stop THEN "exit" ELSE "poll"
    /\ UNCHANGED <<gateVars, queue, cmdVars, statusVars, sessionVars, req, ioVars>>
    /\ SessionFrame

\* run: a command arrives at try_recv or at the blocking recv.
TakeCommand ==
    /\ spc \in {"poll", "recv"}
    /\ cmds # <<>>
    /\ cmds' = <<>>
    /\ pendingCmds' = pendingCmds - 1
    /\ IF Head(cmds) \in Requests
         THEN /\ attempt' = AttemptFor(Head(cmds), req[Head(cmds)].endpoint)
              /\ spc' = "execute"
         ELSE spc' = "exit" /\ UNCHANGED attempt
    /\ UNCHANGED <<gateVars, queue, statusVars, active, reconnect, nextGen,
                   pending, req, ioVars>>
    /\ SessionFrame

\* run: try_recv finds nothing.
NoCommand ==
    /\ spc = "poll"
    /\ cmds = <<>>
    /\ spc' = IF active # None THEN "cycle"
              ELSE IF reconnect # None THEN "reconnect" ELSE "recv"
    /\ UNCHANGED <<gateVars, queue, cmdVars, statusVars, sessionVars, req, ioVars>>
    /\ SessionFrame

\* connect: the requested endpoint is the one of the session in place.
SameEndpoint == active # None /\ active.endpoint = attempt.endpoint

\* execute and the head of connect.
Execute ==
    LET r == attempt.req IN
    /\ spc = "execute"
    /\ \/ /\ stop \/ req[r].completion = "cancelled" \/ req[r].expired
          /\ Respond(IF stop THEN "stopping" ELSE "timeout")
          /\ attempt' = None
          /\ spc' = "top"
          /\ UNCHANGED <<gateVars, queue, statusVars, active, reconnect, pending>>
       \/ /\ ~stop /\ req[r].completion # "cancelled" /\ ~req[r].expired
          /\ UNCHANGED <<req, attempt>>
          /\ IF SameEndpoint
               THEN /\ spc' = "commitExisting"
                    /\ UNCHANGED <<gateVars, queue, statusVars, active,
                                   reconnect, pending>>
               ELSE /\ DisconnectAll
                    /\ SetStatus("connecting", FALSE)
                    /\ spc' = "connect"
    /\ UNCHANGED <<cmdVars, nextGen, ioVars>>
    /\ SessionFrame

\* permit_commit: refuse and cancel an expired request, else PENDING -> COMMITTED.
Permitted(r) == req[r].completion = "pending" /\ ~req[r].expired
CompletionAfter(r) ==
    CASE req[r].completion # "pending" -> req[r].completion
      [] req[r].expired -> "cancelled"
      [] OTHER -> "committed"

\* connect: the endpoint is already connected.
CommitExisting ==
    LET r == attempt.req IN
    /\ spc = "commitExisting"
    /\ req' = [req EXCEPT
                 ![r].completion = CompletionAfter(r),
                 ![r].resp = IF Permitted(r) THEN "existing" ELSE "timeout"]
    /\ attempt' = None
    /\ spc' = "top"
    /\ UNCHANGED <<gateVars, queue, cmdVars, statusVars, active, reconnect,
                   nextGen, pending, ioVars>>
    /\ SessionFrame

\* An attempt that failed: a request is answered, a reconnect is tried again.
GiveUp(answer) ==
    /\ spc' = "top"
    /\ attempt' = None
    /\ Respond(answer)
    /\ IF attempt.req = None
         THEN SetStatus("reconnecting", FALSE) /\ reconnect' = attempt.endpoint
         ELSE SetStatus("disconnected", FALSE) /\ UNCHANGED reconnect
    /\ UNCHANGED <<active, nextGen, pending>>

\* An attempt that met the stop flag: nothing is left to reconnect to.
Abandon ==
    /\ spc' = "top"
    /\ attempt' = None
    /\ Respond("stopping")
    /\ SetStatus("disconnected", FALSE)
    /\ UNCHANGED <<active, reconnect, nextGen, pending>>

GoOn(label) ==
    /\ spc' = label
    /\ UNCHANGED <<statusVars, active, reconnect, nextGen, pending, req>>

\* ensure_current_attempt.
Superseded == stop \/ pendingCmds # 0

\* establish: transport.connect is called ...
StartConnect ==
    /\ spc = "connect"
    /\ spc' = "connecting"
    /\ UNCHANGED <<gateVars, queue, cmdVars, statusVars, active, reconnect,
                   attempt, nextGen, pending, req, ioVars>>
    /\ SessionFrame

\* ... and returns.
Connect ==
    /\ spc = "connecting"
    /\ \/ GiveUp("failed")
       \/ /\ nextGen < MaxGen
          /\ IF Superseded THEN GiveUp("busy")
             ELSE GoOn("handshake") /\ UNCHANGED attempt
    /\ UNCHANGED <<gateVars, queue, cmdVars, ioVars>>
    /\ SessionFrame

\* establish: SbHello/SbWelcome, which negotiates the workload capability.
Handshake ==
    /\ spc = "handshake"
    /\ \/ GiveUp("failed")
       \/ IF Superseded THEN GiveUp("busy")
          ELSE /\ GoOn("baseline")
               /\ \E wl \in Grants : attempt' = [attempt EXCEPT !.wl = wl]
    /\ UNCHANGED <<gateVars, queue, cmdVars, ioVars>>
    /\ SessionFrame

\* establish_io_baseline and activate_io_publication hand a request to the
\* I/O worker; the send fails once that worker has dropped its receiver.
AskIoWorker(kind, waiting) ==
    IF wpc["io"] = "done"
      THEN GiveUp("failed") /\ UNCHANGED ioVars
      ELSE /\ GoOn(waiting)
           /\ ioReq' = kind
           /\ UNCHANGED <<attempt, ioResp, ioPub>>

RequestBaseline ==
    /\ spc = "baseline"
    /\ AskIoWorker("baseline", "baselineWait")
    /\ UNCHANGED <<gateVars, queue, cmdVars>>
    /\ SessionFrame

\* establish, its end: the backlog is discarded and the generation advances.
BaselineReply ==
    /\ spc = "baselineWait"
    /\ ioResp # "none"
    /\ ioResp' = "none"
    /\ IF ioResp = "err" THEN GiveUp("failed") /\ UNCHANGED queue
       ELSE IF Superseded THEN GiveUp("busy") /\ UNCHANGED queue
       ELSE /\ queue' = <<>>
            /\ nextGen' = nextGen + 1
            /\ attempt' = [attempt EXCEPT !.gen = nextGen + 1]
            /\ spc' = "established"
            /\ UNCHANGED <<statusVars, active, reconnect, pending, req>>
    /\ UNCHANGED <<gateVars, cmdVars, ioReq, ioPub>>
    /\ SessionFrame

\* connect and run_reconnect_cycle: stop is tested before anything is published.
Established ==
    /\ spc = "established"
    /\ IF stop THEN Abandon
       ELSE /\ GoOn(IF attempt.req = None THEN "publish" ELSE "commit")
            /\ UNCHANGED attempt
    /\ UNCHANGED <<gateVars, queue, cmdVars, ioVars>>
    /\ SessionFrame

\* Mutant: the established session is published whatever the caller did.
CommitAlways ==
    /\ spc = "commit"
    /\ spc' = "publish"
    /\ UNCHANGED <<statusVars, sessionVars, req, gateVars, queue, cmdVars, ioVars>>
    /\ SessionFrame

\* connect: permit_commit decides between the session and the caller's timeout.
Commit ==
    LET r == attempt.req IN
    /\ spc = "commit"
    /\ IF Permitted(r)
         THEN /\ SetReq(r, "completion", "committed")
              /\ spc' = "publish"
              /\ UNCHANGED <<statusVars, attempt>>
         ELSE /\ req' = [req EXCEPT ![r].completion = CompletionAfter(r),
                                    ![r].resp = "timeout"]
              /\ SetStatus("disconnected", FALSE)
              /\ attempt' = None
              /\ spc' = "top"
    /\ UNCHANGED <<gateVars, queue, cmdVars, active, reconnect, nextGen,
                   pending, ioVars>>
    /\ SessionFrame

\* publish_active: stop is tested, then the I/O worker activates the generation.
PublishActive ==
    /\ spc = "publish"
    /\ IF stop THEN Abandon /\ UNCHANGED ioVars
       ELSE AskIoWorker("activate", "activateWait")
    /\ UNCHANGED <<gateVars, queue, cmdVars>>
    /\ SessionFrame

\* publish_active: activation succeeded or failed; a failed reconnect closes
\* the gate.
ActivateReply ==
    /\ spc = "activateWait"
    /\ ioResp # "none"
    /\ ioResp' = "none"
    /\ IF ioResp = "err"
         THEN /\ GiveUp("failed")
              /\ IF attempt.req = None THEN CloseGate ELSE UNCHANGED gateVars
         ELSE GoOn("enableWorkload") /\ UNCHANGED <<attempt, gateVars>>
    /\ UNCHANGED <<queue, cmdVars, ioReq, ioPub>>
    /\ SessionFrame

\* ConnectionGate::enable stores the workload generation first ...
EnableWorkload ==
    /\ spc = "enableWorkload"
    /\ gateWl' = IF attempt.wl THEN attempt.gen ELSE 0
    /\ GoOn("enableGeneration")
    /\ UNCHANGED <<gateGen, queue, cmdVars, attempt, ioVars>>
    /\ SessionFrame

\* ... and the generation last.
EnableGeneration ==
    /\ spc = "enableGeneration"
    /\ gateGen' = attempt.gen
    /\ GoOn("statusConnected")
    /\ UNCHANGED <<gateWl, queue, cmdVars, attempt, ioVars>>
    /\ SessionFrame

StatusConnected ==
    /\ spc = "statusConnected"
    /\ SetStatus("connected", TRUE)
    /\ spc' = "recheck"
    /\ UNCHANGED <<gateVars, queue, cmdVars, sessionVars, req, ioVars>>
    /\ SessionFrame

\* Mutant: publish_active trusts its first look at the stop flag.
RecheckNothing ==
    /\ spc = "recheck"
    /\ active' = attempt
    /\ reconnect' = None
    /\ attempt' = None
    /\ Respond("connected")
    /\ spc' = "top"
    /\ UNCHANGED <<gateVars, statusVars, nextGen, pending, queue,
                   cmdVars, ioVars>>
    /\ SessionFrame

\* publish_active, its end: a stop that came meanwhile closes the gate again.
Recheck ==
    /\ spc = "recheck"
    /\ IF stop
         THEN CloseGate /\ Abandon
         ELSE /\ active' = attempt
              /\ reconnect' = None
              /\ attempt' = None
              /\ Respond("connected")
              /\ spc' = "top"
              /\ UNCHANGED <<gateVars, statusVars, nextGen, pending>>
    /\ UNCHANGED <<queue, cmdVars, ioVars>>
    /\ SessionFrame

\* run_connected_cycle met the stop flag: the session is dropped.
DropSession ==
    /\ pending' = <<>>
    /\ queue' = <<>>
    /\ active' = None
    /\ spc' = "top"

\* run_connected_cycle: the first test of stop.
ConnectedCycle ==
    /\ spc = "cycle"
    /\ IF stop THEN DropSession
       ELSE spc' = "drain" /\ UNCHANGED <<pending, queue, active>>
    /\ UNCHANGED <<gateVars, cmdVars, statusVars, reconnect, attempt, nextGen,
                   req, ioVars>>
    /\ SessionFrame

\* Mutant: every queued observation is admitted.
AdmitsAll(envelope) == TRUE

\* admit: the generation and the negotiated capability decide.
Admits(envelope) ==
    /\ envelope.gen = active.gen
    /\ envelope.kind = "workload" => active.wl

\* run_connected_cycle: one round of the loop that fills the batch.
Drain ==
    /\ spc = "drain"
    /\ Len(pending) < BatchMax
    /\ queue # <<>>
    /\ queue' = Tail(queue)
    /\ pending' = IF Admits(Head(queue)) THEN Append(pending, Head(queue)) ELSE pending
    /\ UNCHANGED <<gateVars, cmdVars, statusVars, spc, active, reconnect,
                   attempt, nextGen, req, ioVars>>
    /\ SessionFrame

\* run_connected_cycle: the batch is full or the queue empty; the queue is
\* disconnected when every worker has gone.
DrainEnds ==
    /\ spc = "drain"
    /\ Len(pending) = BatchMax \/ queue = <<>>
    /\ IF Len(pending) < BatchMax /\ \A w \in Workers : wpc[w] = "done"
         THEN stop' = TRUE /\ active' = None /\ spc' = "top"
         ELSE spc' = "send" /\ UNCHANGED <<stop, active>>
    /\ UNCHANGED <<gateVars, queue, cmdVars, statusVars, reconnect, attempt,
                   nextGen, pending, req, ioVars, workerVars, dpc>>

\* run_connected_cycle: the second test of stop, then a batch or a heartbeat is
\* written or the thread waits.
Send ==
    /\ spc = "send"
    /\ IF stop THEN DropSession
       ELSE pending' = <<>> /\ spc' = "top" /\ UNCHANGED <<queue, active>>
    /\ UNCHANGED <<gateVars, cmdVars, statusVars, reconnect, attempt, nextGen,
                   req, ioVars>>
    /\ SessionFrame

\* run_connected_cycle: the write fails, begin_reconnect.
SendFails ==
    /\ spc = "send"
    /\ ~stop
    /\ pending' = <<>>
    /\ CloseGate
    /\ queue' = <<>>
    /\ SetStatus("reconnecting", FALSE)
    /\ active' = None
    /\ reconnect' = active.endpoint
    /\ spc' = "top"
    /\ UNCHANGED <<cmdVars, attempt, nextGen, req, ioVars>>
    /\ SessionFrame

\* run_reconnect_cycle: the next attempt is not due, or it starts.
ReconnectCycle ==
    /\ spc = "reconnect"
    /\ \/ spc' = "top" /\ UNCHANGED <<attempt, reconnect>>
       \/ /\ attempt' = AttemptFor(None, reconnect)
          /\ reconnect' = None
          /\ spc' = "connect"
    /\ UNCHANGED <<gateVars, queue, cmdVars, statusVars, active, nextGen,
                   pending, req, ioVars>>
    /\ SessionFrame

\* run, after its loop: disconnect_all, status.stopping; the receiver is
\* dropped and with it the response channel of a command still queued.
Leave ==
    /\ spc = "exit"
    /\ DisconnectAll
    /\ pubEnabled' = FALSE
    /\ req' = [r \in Requests |-> IF cmds = <<r>> THEN [req[r] EXCEPT !.resp = "stopping"]
                                                  ELSE req[r]]
    /\ cmds' = <<>>
    /\ spc' = "done"
    /\ UNCHANGED <<pendingCmds, connection, attempt, nextGen, ioVars>>
    /\ SessionFrame

SessionStep ==
    \/ LoopTop \/ TakeCommand \/ NoCommand
    \/ Execute \/ CommitExisting
    \/ StartConnect \/ Connect \/ Handshake \/ RequestBaseline \/ BaselineReply
    \/ Established \/ Commit
    \/ PublishActive \/ ActivateReply
    \/ EnableWorkload \/ EnableGeneration \/ StatusConnected \/ Recheck
    \/ ConnectedCycle \/ Drain \/ DrainEnds \/ Send \/ SendFails
    \/ ReconnectCycle
    \/ Leave

----------------------------------------------------------------------------
(* The workers.                                                             *)

WorkerFrame ==
    UNCHANGED <<stop, gateVars, cmdVars, statusVars, spc, sessionVars, req, dpc>>

\* Mutant: the I/O worker keeps its end of the baseline channel.
WorkerTestKeepsReply(w) ==
    /\ wpc[w] = "test"
    /\ wpc' = [wpc EXCEPT ![w] = IF stop THEN "done" ELSE "capture"]
    /\ UNCHANGED <<queue, captured, ioVars>>
    /\ WorkerFrame

\* The loop condition.  The I/O worker also returns once the session has
\* dropped the other end of the baseline channel; leaving drops its own end
\* and the reply of a request still in it.
WorkerTest(w) ==
    /\ wpc[w] = "test"
    /\ IF stop \/ (w = "io" /\ spc = "done" /\ ioReq = "none")
         THEN /\ wpc' = [wpc EXCEPT ![w] = "done"]
              /\ IF w = "io" /\ ioReq # "none"
                   THEN ioReq' = "none" /\ ioResp' = "err"
                   ELSE UNCHANGED <<ioReq, ioResp>>
         ELSE /\ wpc' = [wpc EXCEPT ![w] = "capture"]
              /\ UNCHANGED <<ioReq, ioResp>>
    /\ UNCHANGED <<queue, captured, ioPub>>
    /\ WorkerFrame

\* The I/O worker serves a request: establish_baseline resets the publication
\* generation and polls, activate_publication sets it; either may fail.
ServeBaseline ==
    /\ wpc["io"] = "capture"
    /\ ioReq # "none"
    /\ ioReq' = "none"
    /\ \/ /\ ioResp' = "ok"
          /\ ioPub' = IF ioReq = "activate" THEN attempt.gen ELSE 0
       \/ /\ ioResp' = "err"
          /\ ioPub' \in IF ioReq = "activate" THEN {ioPub} ELSE {ioPub, 0}
    /\ wpc' = [wpc EXCEPT !["io"] = "test"]
    /\ UNCHANGED <<queue, captured>>
    /\ WorkerFrame

\* capture_generation, capture_workload_generation; the sample that follows is
\* dropped when there is none.
Capture(w) ==
    LET g == IF w = "workload" THEN gateWl ELSE gateGen IN
    /\ wpc[w] = "capture"
    /\ w = "io" => ioReq = "none"
    /\ captured' = [captured EXCEPT ![w] = g]
    /\ wpc' = [wpc EXCEPT ![w] = IF g = 0 THEN "test" ELSE "check"]
    /\ UNCHANGED <<queue, ioVars>>
    /\ WorkerFrame

Rest(w) ==
    /\ wpc' = [wpc EXCEPT ![w] = "test"]
    /\ captured' = [captured EXCEPT ![w] = 0]

\* The source fails or has nothing (more) to publish.
SampleNothing(w) ==
    /\ wpc[w] = "check"
    /\ Rest(w)
    /\ UNCHANGED <<queue, ioVars>>
    /\ WorkerFrame

\* publish_for, publish_iter: the gate must still show the captured generation.
CheckGate(w) ==
    /\ wpc[w] = "check"
    /\ IF gateGen = captured[w]
         THEN wpc' = [wpc EXCEPT ![w] = "send"] /\ UNCHANGED captured
         ELSE Rest(w)
    /\ UNCHANGED <<queue, ioVars>>
    /\ WorkerFrame

\* publish_for, publish_iter: try_send, which drops the observation when the
\* queue is full or the session gone; a cycle may hold several observations.
TrySend(w) ==
    /\ wpc[w] = "send"
    /\ queue' = IF Len(queue) < QueueCap /\ spc # "done"
                  THEN Append(queue, [gen |-> captured[w], kind |-> w,
                                      pub |-> IF w = "io" THEN ioPub ELSE 0])
                  ELSE queue
    /\ IF w = "guest" THEN Rest(w)
       ELSE wpc' = [wpc EXCEPT ![w] = "check"] /\ UNCHANGED captured
    /\ UNCHANGED ioVars
    /\ WorkerFrame

WorkerStep(w) ==
    \/ WorkerTest(w)
    \/ Capture(w)
    \/ SampleNothing(w)
    \/ CheckGate(w)
    \/ TrySend(w)

----------------------------------------------------------------------------
(* SandboxAgentDaemon::shutdown.                                            *)

ShutdownFrame == UNCHANGED <<queue, spc, sessionVars, req, ioVars, workerVars>>

ShutdownStop ==
    /\ dpc = "running"
    /\ stop' = TRUE
    /\ dpc' = "closeGeneration"
    /\ UNCHANGED <<gateVars, cmdVars, statusVars>>
    /\ ShutdownFrame

\* gate.disable, its two stores.
ShutdownGate ==
    \/ /\ dpc = "closeGeneration"
       /\ gateGen' = 0
       /\ dpc' = "closeWorkload"
       /\ UNCHANGED <<stop, gateWl, cmdVars, statusVars>>
       /\ ShutdownFrame
    \/ /\ dpc = "closeWorkload"
       /\ gateWl' = 0
       /\ dpc' = "stopping"
       /\ UNCHANGED <<stop, gateGen, cmdVars, statusVars>>
       /\ ShutdownFrame

\* status.stopping and the announcement of the Shutdown command.
ShutdownStatus ==
    /\ dpc = "stopping"
    /\ pubEnabled' = FALSE
    /\ pendingCmds' = pendingCmds + 1
    /\ dpc' = "command"
    /\ UNCHANGED <<stop, gateVars, cmds, connection>>
    /\ ShutdownFrame

\* Mutant: the shutdown does not tell the session.
ShutdownSilently ==
    /\ dpc = "command"
    /\ pendingCmds' = pendingCmds - 1
    /\ dpc' = "join"
    /\ UNCHANGED <<stop, gateVars, cmds, statusVars>>
    /\ ShutdownFrame

\* control.shutdown: try_send of Shutdown, withdrawn when it fails.
ShutdownCommand ==
    /\ dpc = "command"
    /\ IF spc = "done" \/ cmds # <<>>
         THEN pendingCmds' = pendingCmds - 1 /\ UNCHANGED cmds
         ELSE cmds' = <<"shutdown">> /\ UNCHANGED pendingCmds
    /\ dpc' = "join"
    /\ UNCHANGED <<stop, gateVars, statusVars>>
    /\ ShutdownFrame

\* WorkerSet::shutdown: every thread is joined.
ShutdownJoin ==
    /\ dpc = "join"
    /\ spc = "done"
    /\ \A w \in Workers : wpc[w] = "done"
    /\ dpc' = "done"
    /\ UNCHANGED <<stop, gateVars, cmdVars, statusVars>>
    /\ ShutdownFrame

ShutdownStep ==
    ShutdownGate \/ ShutdownStatus \/ ShutdownCommand \/ ShutdownJoin

Next ==
    \/ \E r \in Requests : Control(r) \/ Expire(r)
    \/ SessionStep
    \/ \E w \in Workers : WorkerStep(w)
    \/ ServeBaseline
    \/ ShutdownStop
    \/ ShutdownStep

\* Threads run, deadlines pass and I/O ends: transport, handshake and write
\* have timeouts.  Nothing forces a request or a shutdown to be made.
Fairness ==
    /\ WF_vars(SessionStep)
    /\ \A w \in Workers :
          WF_vars(WorkerStep(w) \/ (w = "io" /\ ServeBaseline))
    /\ \A r \in Requests :
          /\ WF_vars(Control(r) /\ req[r].pc # "new")
          /\ WF_vars(Expire(r))
    /\ WF_vars(ShutdownStep)

Spec == Init /\ [][Next]_vars /\ Fairness

----------------------------------------------------------------------------

SessionPcs ==
    {"top", "poll", "recv", "execute", "commitExisting", "connect", "connecting",
     "handshake", "baseline", "baselineWait", "established", "commit", "publish",
     "activateWait", "enableWorkload", "enableGeneration", "statusConnected",
     "recheck", "cycle", "drain", "send", "reconnect", "exit", "done"}

\* Every variable of the daemon keeps its type; channels and queue respect
\* their capacities.
TypeOK ==
    /\ stop \in BOOLEAN
    /\ gateGen \in 0 .. MaxGen /\ gateWl \in 0 .. MaxGen
    /\ queue \in Seq(Envelope) /\ Len(queue) <= QueueCap
    /\ cmds \in Seq(Requests \cup {"shutdown"}) /\ Len(cmds) <= 1
    /\ pendingCmds \in Nat
    /\ connection \in {"disconnected", "connecting", "connected", "reconnecting"}
    /\ pubEnabled \in BOOLEAN
    /\ spc \in SessionPcs
    /\ active \in Session \cup {None}
    /\ reconnect \in Endpoints \cup {None}
    /\ attempt \in Attempt \cup {None}
    /\ nextGen \in 0 .. MaxGen
    /\ pending \in Seq(Envelope) /\ Len(pending) <= BatchMax
    /\ req \in [Requests -> Request]
    /\ ioReq \in {"none", "baseline", "activate"}
    /\ ioResp \in {"none", "ok", "err"}
    /\ ioPub \in 0 .. MaxGen
    /\ wpc \in [Workers -> {"test", "capture", "check", "send", "done"}]
    /\ captured \in [Workers -> 0 .. MaxGen]
    /\ dpc \in {"running", "closeGeneration", "closeWorkload", "stopping",
                "command", "join", "done"}

\* A batch only holds observations made for the session it is sent on: sampled
\* under its generation, workload ones only when the handshake negotiated them,
\* I/O ones relative to the session's own baseline and publication generation
\* (owner.rs admit), although workers check the gate long before they send.
\* Only a stopping daemon has a batch without a session, and drops it.
PendingBelongsToSession ==
    \A i \in 1 .. Len(pending) :
        IF active = None THEN stop
        ELSE /\ pending[i].gen = active.gen
             /\ pending[i].kind = "workload" => active.wl
             /\ pending[i].kind = "io" => pending[i].pub = active.gen

\* The sessions that hold or are about to hold the gate.
Publishing == spc \in {"publish", "activateWait", "enableWorkload",
                       "enableGeneration", "statusConnected", "recheck"}

\* A request that was told it timed out never publishes a session: the
\* completion word lets exactly one of the caller's timeout and the session's
\* permit_commit win (control.rs:27, control.rs:106).
TimedOutNeverPublishes ==
    \A r \in Requests :
        "timeout" \in {req[r].resp, req[r].result}
            => /\ ~(active # None /\ active.req = r)
               /\ ~(Publishing /\ attempt.req = r)

\* While the daemon runs the gate shows the generation of the session in place
\* or of the one being published, and once shutdown has closed it only the short window before
\* publish_active looks at stop again can hold it open (owner.rs:382).
GateMatchesSession ==
    /\ gateGen # 0 /\ ~stop =>
          \/ active # None /\ active.gen = gateGen
          \/ spc \in {"statusConnected", "recheck"} /\ attempt.gen = gateGen
    /\ dpc \in {"closeWorkload", "stopping", "command", "join", "done"} /\ gateGen # 0
          => spc \in {"statusConnected", "recheck"}
    /\ dpc \in {"stopping", "command", "join", "done"} /\ gateWl # 0
          => spc \in {"enableGeneration", "statusConnected", "recheck"}

\* Every request the session was sent is answered, also when the worker it
\* waits for or the session itself ends meanwhile.
RequestsAnswered ==
    \A r \in Requests : (req[r].pc = "begun") ~> (req[r].pc = "done")

\* shutdown returns: every thread sees the flag, whatever it was waiting for
\* and also when the Shutdown command found the channel full.
ShutdownReturns == stop ~> (dpc = "done")

=============================================================================
