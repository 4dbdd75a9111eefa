------------------------ MODULE SandboxAgent_proofs ------------------------
(***************************************************************************)
(* The sandbox agent keeps its batch, its gate and its deadlines in order  *)
(* for any workers and requests and any capacity of the queue and of a     *)
(* batch.                                                                  *)
(*                                                                         *)
(* None of the three is inductive.  A batch belongs to the session because *)
(* the session thread drains under the generation it owns (SessionInv) and *)
(* an I/O observation of that generation was made after its baseline was   *)
(* published, which the worker's captured generation, the queue and the    *)
(* batch all carry (FlowInv).  A request that timed out publishes nothing  *)
(* because at most one request is in flight (CommandInv) and its           *)
(* completion word is committed exactly while the attempt of that request  *)
(* publishes (RequestInv).  The gate shows the session's generation        *)
(* because it is opened only after the exchange with the I/O worker        *)
(* (IoInv) and closed before the session is gone (GateInv).                *)
(*                                                                         *)
(* The proof goes thread by thread, and for each thread part by part.      *)
(***************************************************************************)
EXTENDS SandboxAgent, SequenceTheorems, TLAPS

\* The session thread between taking up an attempt and its end.
Attempting ==
    {"execute", "commitExisting", "connect", "connecting", "handshake",
     "baseline", "baselineWait", "established", "commit", "publish",
     "activateWait", "enableWorkload", "enableGeneration", "statusConnected",
     "recheck"}

\* The part of it in which the old session is gone.
Establishing == Attempting \ {"execute", "commitExisting"}

\* The part of it with a generation, taken after the baseline.
Numbered ==
    {"established", "commit", "publish", "activateWait", "enableWorkload",
     "enableGeneration", "statusConnected", "recheck"}

\* The gate is open, or the I/O worker has answered and it is about to be.
Open == {"statusConnected", "recheck"}
Enabling == {"enableWorkload", "enableGeneration"} \cup Open

\* Where the session thread is and what it owns.
SessionInv ==
    /\ spc \in Attempting <=> attempt # None
    /\ spc \in {"execute", "commitExisting", "commit"} => attempt.req # None
    /\ spc \in Establishing => active = None /\ reconnect = None
    /\ spc \in {"cycle", "drain", "send"} => active # None
    /\ spc = "reconnect" => reconnect # None
    /\ active # None => reconnect = None /\ active.gen = nextGen
    /\ spc \in Numbered => attempt.gen = nextGen /\ nextGen # 0
    /\ spc \in {"handshake", "baseline", "baselineWait"} => nextGen < MaxGen

\* The gate, the generation it shows and who may open it.
GateInv ==
    /\ GateMatchesSession
    /\ gateGen # 0 => gateGen = nextGen /\ ioPub = nextGen
    /\ gateGen # 0 => reconnect = None /\ spc \notin Establishing \ Open
    /\ dpc # "running" => stop

\* The command of request r has been sent to the session thread.
Sent(r) == req[r].pc \notin {"new", "begun"}

\* A request, its completion word and its two answers.
RequestInv(r) ==
    /\ ~Sent(r) => /\ req[r].completion = "pending"
                   /\ req[r].resp = "none" /\ req[r].result = "none"
    /\ req[r].pc # "new" => req[r].endpoint \in Endpoints
    /\ "timeout" \in {req[r].resp, req[r].result}
          => req[r].completion # "committed"
    /\ req[r].result = "timeout"
          => req[r].completion = "cancelled" \/ req[r].resp = "timeout"
    /\ cmds = <<r>> => /\ Sent(r) /\ req[r].resp = "none"
                       /\ req[r].completion # "committed"
    /\ attempt # None /\ attempt.req = r
          => /\ Sent(r) /\ req[r].resp = "none" /\ cmds # <<r>>
             /\ Publishing <=> req[r].completion = "committed"
    /\ active # None /\ active.req = r => req[r].completion = "committed"

\* One request is in flight, and pending_commands counts at least what was
\* announced and not yet taken.
Count(test) == IF test THEN 1 ELSE 0
CommandInv ==
    /\ \A q, r \in Requests : InFlight(q) /\ InFlight(r) => q = r
    /\ pendingCmds >= Len(cmds) + Count(dpc = "command")
                      + Count(\E r \in Requests : req[r].pc = "begun")

\* The exchange with the I/O worker.
IoInv ==
    /\ ioReq # "none" => ioResp = "none"
    /\ ioReq = "baseline" => spc = "baselineWait"
    /\ ioReq = "activate" => spc = "activateWait"
    /\ ioResp # "none" => spc \in {"baselineWait", "activateWait"}
    /\ spc = "activateWait" /\ ioResp = "ok" => ioPub = nextGen
    /\ spc \in Enabling => ioPub = nextGen

\* An I/O observation of the current generation was made after its baseline
\* had been published.
Marked(e) ==
    e.kind = "io" => /\ e.gen <= nextGen
                     /\ e.gen = nextGen => e.pub = nextGen

\* What the workers carry, the queue and the batch.
FlowInv ==
    /\ \A w \in Workers : wpc[w] \in {"check", "send"} => captured[w] # 0
    /\ wpc["io"] \in {"check", "send"}
          => /\ captured["io"] <= nextGen
             /\ captured["io"] = nextGen => ioPub = nextGen
    /\ \A i \in 1 .. Len(queue) : Marked(queue[i])
    /\ PendingBelongsToSession

\* The inductive invariant.
IInv ==
    /\ TypeOK /\ SessionInv /\ GateInv /\ CommandInv /\ IoInv /\ FlowInv
    /\ \A r \in Requests : RequestInv(r)

\* The types of TypeOK, by the part of the agent: the session thread;
SessionTypes ==
    /\ spc \in SessionPcs /\ nextGen \in 0 .. MaxGen
    /\ active \in Session \cup {None} /\ attempt \in Attempt \cup {None}
    /\ reconnect \in Endpoints \cup {None}
    /\ connection \in {"disconnected", "connecting", "connected", "reconnecting"}
    /\ pubEnabled \in BOOLEAN

\* the gate, the exchange with the I/O worker and the shutdown;
GateTypes ==
    /\ stop \in BOOLEAN
    /\ gateGen \in 0 .. MaxGen /\ gateWl \in 0 .. MaxGen
    /\ ioReq \in {"none", "baseline", "activate"}
    /\ ioResp \in {"none", "ok", "err"}
    /\ ioPub \in 0 .. MaxGen
    /\ dpc \in {"running", "closeGeneration", "closeWorkload", "stopping",
                "command", "join", "done"}

\* the workers, the queue and the batch;
FlowTypes ==
    /\ queue \in Seq(Envelope) /\ Len(queue) <= QueueCap
    /\ pending \in Seq(Envelope) /\ Len(pending) <= BatchMax
    /\ wpc \in [Workers -> {"test", "capture", "check", "send", "done"}]
    /\ captured \in [Workers -> 0 .. MaxGen]

\* the requests and the command channel.
RequestTypes ==
    /\ req \in [Requests -> Request]
    /\ cmds \in Seq(Requests \cup {"shutdown"}) /\ Len(cmds) <= 1
    /\ pendingCmds \in Nat

\* The parts make up the type invariant.
LEMMA TypesByPart == TypeOK <=> SessionTypes /\ GateTypes /\ FlowTypes /\ RequestTypes
  BY Zenon DEF TypeOK, SessionTypes, GateTypes, FlowTypes, RequestTypes

\* The records an attempt goes through (owner.rs).
LEMMA AttemptRecords ==
    /\ \A r \in Requests \cup {None}, e \in Endpoints :
          /\ AttemptFor(r, e) \in Attempt /\ AttemptFor(r, e) # None
          /\ AttemptFor(r, e).req = r
    /\ \A a \in Attempt, wl \in BOOLEAN :
          LET b == [a EXCEPT !.wl = wl] IN
          /\ b \in Attempt /\ b # None
          /\ b.req = a.req /\ b.gen = a.gen
    /\ \A a \in Attempt, g \in 0 .. MaxGen :
          LET b == [a EXCEPT !.gen = g] IN
          /\ b \in Attempt /\ b # None
          /\ b.req = a.req /\ b.gen = g
  <1> USE NamesDistinct, BoundsValid DEF Attempt
  <1>1. \A r \in Requests \cup {None}, e \in Endpoints :
           AttemptFor(r, e) \in Attempt /\ AttemptFor(r, e).req = r
    BY DEF AttemptFor
  <1>2. \A a \in Attempt, wl \in BOOLEAN :
          LET b == [a EXCEPT !.wl = wl] IN
          b \in Attempt /\ b.req = a.req /\ b.gen = a.gen
    OBVIOUS
  <1>3. \A a \in Attempt, g \in 0 .. MaxGen :
          LET b == [a EXCEPT !.gen = g] IN
          b \in Attempt /\ b.req = a.req /\ b.gen = g
    OBVIOUS
  <1>4. None \notin Attempt
    BY Zenon
  <1> HIDE DEF Attempt
  <1> QED BY <1>1, <1>2, <1>3, <1>4

\* A sequence of at most one element.
LEMMA Singleton ==
    ASSUME NEW S, NEW s \in Seq(S), s # <<>>, Len(s) <= 1
    PROVE  Head(s) \in S /\ s = <<Head(s)>>
  <1>0. Len(s) \in Nat \ {0}
    BY Zenon, EmptySeq
  <1>1. Len(s) = 1
    BY <1>0
  <1>4. Head(s) \in S
    BY HeadTailProperties, Zenon
  <1>2. <<Head(s)>> \in Seq(S) /\ Len(<<Head(s)>>) = 1
    BY <1>4
  <1>3. \A i \in 1 .. 1 : s[i] = <<Head(s)>>[i]
    BY <1>1
  <1> QED BY Zenon, <1>1, <1>2, <1>3, <1>4, SeqEqual

\* What Append leaves at each position.
LEMMA Appended ==
    ASSUME NEW S, NEW s \in Seq(S), NEW e \in S
    PROVE  /\ Append(s, e) \in Seq(S) /\ Len(Append(s, e)) = Len(s) + 1
           /\ \A i \in 1 .. Len(s) : Append(s, e)[i] = s[i]
           /\ Append(s, e)[Len(s) + 1] = e
  BY AppendProperties

\* A marked observation joins a queue of marked ones.
LEMMA Enqueued ==
    ASSUME queue \in Seq(Envelope), \A i \in 1 .. Len(queue) : Marked(queue[i]),
           NEW e \in Envelope, Marked(e), queue' = Append(queue, e)
    PROVE  /\ queue' \in Seq(Envelope) /\ Len(queue') = Len(queue) + 1
           /\ \A i \in 1 .. Len(queue') : Marked(queue'[i])
  <1>1. /\ queue' \in Seq(Envelope) /\ Len(queue') = Len(queue) + 1
        /\ \A i \in 1 .. Len(queue) : queue'[i] = queue[i]
        /\ queue'[Len(queue) + 1] = e /\ Len(queue) \in Nat
    BY Appended
  <1>2. \A i \in 1 .. Len(queue') : i \in 1 .. Len(queue) \/ i = Len(queue) + 1
    BY <1>1
  <1> HIDE DEF Marked
  <1> QED BY Zenon, <1>1, <1>2

\* What publish_for and publish_iter put into the queue is an observation of the
\* generation captured before it was sampled.
LEMMA SentIsMarked ==
    ASSUME TypeOK, FlowInv, NEW w \in Workers, TrySend(w)
    PROVE  /\ queue' \in Seq(Envelope) /\ Len(queue') <= QueueCap
           /\ \A i \in 1 .. Len(queue') : Marked(queue'[i])
  <1> USE BoundsValid, WorkersValid
  <1>0. /\ queue \in Seq(Envelope) /\ Len(queue) \in Nat /\ Len(queue) <= QueueCap
        /\ \A i \in 1 .. Len(queue) : Marked(queue[i])
        /\ captured[w] \in 0 .. MaxGen /\ ioPub \in 0 .. MaxGen
    BY DEF TypeOK, FlowInv
  <1> DEFINE e == [gen |-> captured[w], kind |-> w,
                   pub |-> IF w = "io" THEN ioPub ELSE 0]
  <1>1. /\ wpc[w] = "send"
        /\ \/ queue' = queue
           \/ queue' = Append(queue, e) /\ Len(queue) < QueueCap
    BY Zenon DEF TrySend
  <1>2. captured[w] # 0
    BY Zenon, <1>1 DEF FlowInv
  <1>3. e \in Envelope
    <2>1. captured[w] \in 1 .. MaxGen
      BY <1>0, <1>2
    <2>2. w \in WorkerKinds /\ (IF w = "io" THEN ioPub ELSE 0) \in 0 .. MaxGen
      BY <1>0
    <2> QED BY Zenon, <2>1, <2>2 DEF Envelope
  <1>4. Marked(e)
    BY Zenon, <1>1 DEF Marked, FlowInv
  <1> HIDE DEF e
  <1>5. CASE queue' = queue
    BY Zenon, <1>0, <1>5
  <1>6. CASE queue' = Append(queue, e) /\ Len(queue) < QueueCap
    BY <1>0, <1>3, <1>4, <1>6, Enqueued
  <1> QED BY Zenon, <1>1, <1>5, <1>6

\* The command channel holds at most one command.
LEMMA OneCommand ==
    ASSUME TypeOK, cmds # <<>>
    PROVE  Head(cmds) \in Requests \cup {"shutdown"} /\ cmds = <<Head(cmds)>>
  <1> DEFINE S == Requests \cup {"shutdown"}
  <1>1. cmds \in Seq(S) /\ Len(cmds) <= 1
    BY Zenon DEF TypeOK
  <1> HIDE DEF S
  <1>2. Head(cmds) \in S /\ cmds = <<Head(cmds)>>
    BY Zenon, <1>1, Singleton
  <1> QED BY Zenon, <1>2 DEF S

\* The command taken from the channel becomes an attempt (owner.rs run).
LEMMA TakenRequest ==
    ASSUME TypeOK, \A r \in Requests : RequestInv(r), cmds # <<>>,
           Head(cmds) \in Requests
    PROVE  /\ cmds = <<Head(cmds)>>
           /\ LET a == AttemptFor(Head(cmds), req[Head(cmds)].endpoint) IN
              a \in Attempt /\ a # None /\ a.req = Head(cmds)
  <1>1. cmds = <<Head(cmds)>>
    BY Zenon, OneCommand
  <1>2. req[Head(cmds)].endpoint \in Endpoints
    BY Zenon, <1>1 DEF RequestInv, Sent
  <1> QED BY Zenon, <1>1, <1>2, AttemptRecords

\* The fields of an attempt and of a session.
LEMMA AttemptFields ==
    /\ \A a \in Attempt : /\ a.endpoint \in Endpoints /\ a.gen \in 0 .. MaxGen
                          /\ a.wl \in BOOLEAN /\ a.req \in Requests \cup {None}
                          /\ a.gen # 0 => a \in Session
    /\ \A s \in Session : s.endpoint \in Endpoints /\ s.gen \in 1 .. MaxGen
  <1> USE BoundsValid
  <1>1. \A a \in Attempt : a.gen # 0 => a \in Session
    BY DEF Attempt, Session
  <1> QED BY Zenon, <1>1 DEF Attempt, Session

\* The daemon starts without a session, a command or an observation.
LEMMA InitIInv == Init => IInv
  <1> SUFFICES ASSUME Init PROVE IInv
    OBVIOUS
  <1> USE BoundsValid, WorkersValid, NamesDistinct
  <1>0. 0 \in 0 .. MaxGen
    OBVIOUS
  <1>1. SessionTypes /\ GateTypes
    BY Zenon, <1>0 DEF Init, SessionTypes, GateTypes, SessionPcs
  <1>2. FlowTypes
    <2>1. <<>> \in Seq(Envelope) /\ Len(<<>>) = 0
      OBVIOUS
    <2> QED BY <1>0, <2>1 DEF Init, FlowTypes
  <1>3. RequestTypes
    <2>1. <<>> \in Seq(Requests \cup {"shutdown"}) /\ Len(<<>>) = 0
      OBVIOUS
    <2> QED BY <2>1 DEF Init, RequestTypes, Request, Answers
  <1>4. TypeOK
    BY Zenon, <1>1, <1>2, <1>3, TypesByPart
  <1>5. SessionInv /\ GateInv /\ IoInv
    BY Zenon DEF Init, SessionInv, GateInv, IoInv, GateMatchesSession, Attempting, Establishing,
       Numbered, Open, Enabling
  <1>6. FlowInv
    BY DEF Init, FlowInv, PendingBelongsToSession
  <1>7. \A r \in Requests : req[r].pc = "new" /\ RequestInv(r)
    BY Zenon DEF Init, RequestInv, Sent
  <1>8. CommandInv
    <2>1. Len(<<>>) = 0 /\ cmds = <<>> /\ pendingCmds = 0 /\ dpc = "running"
      BY Zenon DEF Init
    <2> QED BY <1>7, <2>1 DEF CommandInv, Count, InFlight
  <1> QED BY Zenon, <1>4, <1>5, <1>6, <1>7, <1>8 DEF IInv

-----------------------------------------------------------------------------
(* What a step leaves alone stays as it is.                                *)

\* A thread other than the session's keeps what the session owns.
LEMMA SessionStays ==
    ASSUME SessionInv, UNCHANGED <<spc, sessionVars>> PROVE SessionInv'
  BY Zenon DEF SessionInv, sessionVars

\* A step away from the gate, the session and the shutdown keeps GateInv.
LEMMA GateStays ==
    ASSUME GateInv, UNCHANGED <<stop, gateVars, spc, sessionVars, ioPub, dpc>>
    PROVE  GateInv'
  BY Zenon DEF GateInv, GateMatchesSession, gateVars, sessionVars

\* A step away from the session and the I/O worker keeps their exchange.
LEMMA IoStays ==
    ASSUME IoInv, UNCHANGED <<spc, sessionVars, ioVars>> PROVE IoInv'
  BY Zenon DEF IoInv, sessionVars, ioVars

\* A step away from workers, queue and session keeps what they carry.
LEMMA FlowStays ==
    ASSUME FlowInv, UNCHANGED <<queue, sessionVars, ioVars, workerVars>>,
           stop => stop'
    PROVE  FlowInv'
  BY Zenon DEF FlowInv, Marked, PendingBelongsToSession, sessionVars, ioVars, workerVars

\* The session types, when neither the session nor the status changes.
LEMMA SessionTypesStay ==
    ASSUME SessionTypes, UNCHANGED <<spc, sessionVars, statusVars>>
    PROVE  SessionTypes'
  BY Zenon DEF SessionTypes, sessionVars, statusVars

\* The gate types, when gate, exchange and shutdown do not change.
LEMMA GateTypesStay ==
    ASSUME GateTypes, UNCHANGED <<stop, gateVars, ioVars, dpc>> PROVE GateTypes'
  BY Zenon DEF GateTypes, gateVars, ioVars

\* The flow types, when queue, batch and workers do not change.
LEMMA FlowTypesStay ==
    ASSUME FlowTypes, UNCHANGED <<queue, pending, workerVars>> PROVE FlowTypes'
  BY Zenon DEF FlowTypes, workerVars

\* The request types, when requests and channel do not change.
LEMMA RequestTypesStay ==
    ASSUME RequestTypes, UNCHANGED <<req, cmdVars>> PROVE RequestTypes'
  BY Zenon DEF RequestTypes, cmdVars

\* A request whose command does not enter the channel, and whose attempt does not
\* change, is as it was.
LEMMA RequestsStay ==
    ASSUME NEW r \in Requests, RequestInv(r), UNCHANGED <<req, spc, sessionVars>>,
           cmds' = cmds \/ cmds' # <<r>>
    PROVE  RequestInv(r)'
  BY Zenon DEF RequestInv, Sent, Publishing, sessionVars

-----------------------------------------------------------------------------
(* What the operations of the control port do to a request.                *)

\* The requests other than r are left alone.
Untouched(r) == \A q \in Requests \ {r} : req'[q] = req[q]

\* execute goes to another step.
LEMMA SetReqShape ==
    ASSUME req \in [Requests -> Request], NEW r \in Requests,
           NEW v \in {"waiting", "timedOut", "committed"}, SetReq(r, "pc", v)
    PROVE  /\ req' \in [Requests -> Request] /\ Untouched(r)
           /\ req'[r].pc = v /\ req'[r].endpoint = req[r].endpoint
           /\ req'[r].completion = req[r].completion
           /\ req'[r].resp = req[r].resp /\ req'[r].result = req[r].result
  BY Zenon DEF SetReq, Request, Untouched

\* The deadline of execute passes.
LEMMA ExpireShape ==
    ASSUME req \in [Requests -> Request], NEW r \in Requests,
           SetReq(r, "expired", TRUE)
    PROVE  /\ req' \in [Requests -> Request] /\ Untouched(r)
           /\ req'[r].pc = req[r].pc /\ req'[r].endpoint = req[r].endpoint
           /\ req'[r].completion = req[r].completion
           /\ req'[r].resp = req[r].resp /\ req'[r].result = req[r].result
  BY Zenon DEF SetReq, Request, Untouched

\* execute returns with a result.
LEMMA FinishShape ==
    ASSUME req \in [Requests -> Request], NEW r \in Requests,
           NEW x \in Answers, Finish(r, x)
    PROVE  /\ req' \in [Requests -> Request] /\ Untouched(r)
           /\ req'[r].pc = "done" /\ req'[r].endpoint = req[r].endpoint
           /\ req'[r].completion = req[r].completion
           /\ req'[r].resp = req[r].resp /\ req'[r].result = x
  <1>1. req' = [req EXCEPT ![r] = [req[r] EXCEPT !.pc = "done", !.result = x]]
    BY Zenon DEF Finish
  <1>2. \A z \in Request : [z EXCEPT !.pc = "done", !.result = x] \in Request
    BY Zenon DEF Request
  <1>3. req' \in [Requests -> Request] /\ Untouched(r)
    BY Zenon, <1>1, <1>2 DEF Untouched
  <1> QED BY <1>1, <1>3 DEF Request

\* execute announces its command, for some endpoint.
LEMMA BeginShape ==
    ASSUME req \in [Requests -> Request], NEW r \in Requests, BeginCommand(r)
    PROVE  /\ req' \in [Requests -> Request] /\ Untouched(r)
           /\ req'[r].pc = "begun" /\ req'[r].endpoint \in Endpoints
           /\ req'[r].completion = req[r].completion
           /\ req'[r].resp = req[r].resp /\ req'[r].result = req[r].result
  <1>1. PICK e \in Endpoints : req' = [req EXCEPT ![r].pc = "begun", ![r].endpoint = e]
    BY Zenon DEF BeginCommand
  <1>2. req' = [req EXCEPT ![r] = [req[r] EXCEPT !.pc = "begun", !.endpoint = e]]
    BY Zenon, <1>1
  <1>3. \A z \in Request : [z EXCEPT !.pc = "begun", !.endpoint = e] \in Request
    BY Zenon DEF Request
  <1>4. req' \in [Requests -> Request] /\ Untouched(r)
    BY Zenon, <1>2, <1>3 DEF Untouched
  <1> QED BY <1>2, <1>4 DEF Request

\* cancel() wins against the commit of the session thread.
LEMMA CancelShape ==
    ASSUME req \in [Requests -> Request], NEW r \in Requests, CancelRequest(r),
           req[r].completion = "pending"
    PROVE  /\ req' \in [Requests -> Request] /\ Untouched(r)
           /\ req'[r].pc = "done" /\ req'[r].endpoint = req[r].endpoint
           /\ req'[r].completion = "cancelled"
           /\ req'[r].resp = req[r].resp /\ req'[r].result = "timeout"
  <1>1. req' = [req EXCEPT ![r] = [req[r] EXCEPT !.completion = "cancelled",
                                         !.pc = "done", !.result = "timeout"]]
    BY Zenon DEF CancelRequest
  <1>2. \A z \in Request : [z EXCEPT !.completion = "cancelled", !.pc = "done",
                                     !.result = "timeout"] \in Request
    <2>1. "timeout" \in Answers
      BY Zenon DEF Answers
    <2> QED BY Zenon, <2>1 DEF Request
  <1>3. req' \in [Requests -> Request] /\ Untouched(r)
    BY Zenon, <1>1, <1>2 DEF Untouched
  <1> QED BY <1>1, <1>3 DEF Request

-----------------------------------------------------------------------------
(* The session thread (session owner).                                     *)

\* What the session thread owns.
ownVars == <<spc, active, reconnect, attempt, nextGen>>

\* The session thread takes up and ends attempts, sessions and generations
\* together.
LEMMA SessionKeepsSession ==
    ASSUME TypeOK, SessionInv, SessionStep, \A r \in Requests : RequestInv(r)
    PROVE  SessionInv'
  <1> USE NamesDistinct, BoundsValid DEF SessionInv, Attempting, Establishing, Numbered,
          SessionFrame, GoOn
  <1>0. /\ spc \in SessionPcs /\ nextGen \in 0 .. MaxGen
        /\ active \in Session \cup {None} /\ attempt \in Attempt \cup {None}
        /\ reconnect \in Endpoints \cup {None}
    BY Zenon DEF TypeOK
  <1>1. CASE LoopTop
    BY Zenon, <1>0, <1>1 DEF LoopTop, sessionVars
  <1>2. CASE TakeCommand
    BY Zenon, <1>0, <1>2, TakenRequest, NamesDistinct DEF TakeCommand
  <1>3. CASE NoCommand
    BY Zenon, <1>0, <1>3 DEF NoCommand, sessionVars
  <1>4. CASE Execute
    BY Zenon, <1>0, <1>4 DEF Execute, DisconnectAll
  <1>5. CASE CommitExisting
    BY Zenon, <1>0, <1>5 DEF CommitExisting
  <1>6. CASE StartConnect
    BY Zenon, <1>0, <1>6 DEF StartConnect
  <1>7. CASE Connect
    BY Zenon, <1>0, <1>7 DEF Connect, GiveUp
  <1>8. CASE Handshake
    BY Zenon, <1>0, <1>8, AttemptRecords DEF Handshake, GiveUp
  <1>9. CASE RequestBaseline
    BY Zenon, <1>0, <1>9 DEF RequestBaseline, AskIoWorker, GiveUp
  <1>10. CASE BaselineReply
    <2>1. spc = "baselineWait" /\ attempt \in Attempt /\ nextGen + 1 \in 0 .. MaxGen
      BY <1>0, <1>10 DEF BaselineReply
    <2>2. LET a == [attempt EXCEPT !.gen = nextGen + 1] IN
          a # None /\ a.gen = nextGen + 1
      BY Zenon, <2>1, AttemptRecords
    <2>3. CASE spc' = "established"
      <3>1. /\ nextGen' = nextGen + 1 /\ attempt' = [attempt EXCEPT !.gen = nextGen + 1]
            /\ UNCHANGED <<active, reconnect>>
        BY Zenon, <1>10, <2>3 DEF BaselineReply, GiveUp
      <3> QED BY <1>0, <2>1, <2>2, <2>3, <3>1
    <2>4. CASE spc' # "established"
      BY Zenon, <1>0, <1>10, <2>1, <2>4 DEF BaselineReply, GiveUp
    <2> QED BY Zenon, <2>3, <2>4
  <1>11. CASE Established
    BY Zenon, <1>0, <1>11 DEF Established, Abandon
  <1>12. CASE Commit
    BY Zenon, <1>0, <1>12 DEF Commit
  <1>13. CASE PublishActive
    BY Zenon, <1>0, <1>13 DEF PublishActive, Abandon, AskIoWorker, GiveUp
  <1>14. CASE ActivateReply
    BY Zenon, <1>0, <1>14 DEF ActivateReply, GiveUp
  <1>15. CASE EnableWorkload
    BY Zenon, <1>0, <1>15 DEF EnableWorkload
  <1>16. CASE EnableGeneration
    BY Zenon, <1>0, <1>16 DEF EnableGeneration
  <1>17. CASE StatusConnected
    BY Zenon, <1>0, <1>17 DEF StatusConnected, sessionVars
  <1>18. CASE Recheck
    BY Zenon, <1>0, <1>18 DEF Recheck, Abandon
  <1>19. CASE ConnectedCycle
    BY Zenon, <1>0, <1>19 DEF ConnectedCycle, DropSession
  <1>20. CASE Drain
    BY Zenon, <1>0, <1>20 DEF Drain
  <1>21. CASE DrainEnds
    BY Zenon, <1>0, <1>21 DEF DrainEnds
  <1>22. CASE Send
    BY Zenon, <1>0, <1>22 DEF Send, DropSession
  <1>23. CASE SendFails
    BY Zenon, <1>0, <1>23 DEF SendFails
  <1>24. CASE ReconnectCycle
    BY <1>0, <1>24, AttemptRecords DEF ReconnectCycle
  <1>25. CASE Leave
    BY Zenon, <1>0, <1>25 DEF Leave, DisconnectAll
  <1> QED
    BY Zenon, <1>1, <1>2, <1>3, <1>4, <1>5, <1>6, <1>7, <1>8, <1>9, <1>10, <1>11,
       <1>12, <1>13, <1>14, <1>15, <1>16, <1>17, <1>18, <1>19, <1>20, <1>21,
       <1>22, <1>23, <1>24, <1>25, Zenon DEF SessionStep

\* The session thread opens the gate for its own generation, after the exchange,
\* and closes it before the session ends.
LEMMA SessionKeepsGate ==
    ASSUME TypeOK, SessionInv, GateInv, IoInv, SessionStep PROVE GateInv'
  <1> USE NamesDistinct, BoundsValid DEF SessionInv, GateInv, IoInv, GateMatchesSession, Attempting,
          Establishing, Numbered, Open, Enabling, SessionFrame, GoOn, CloseGate, gateVars, ioVars
  <1>0. /\ spc \in SessionPcs /\ nextGen \in 0 .. MaxGen
        /\ active \in Session \cup {None} /\ attempt \in Attempt \cup {None}
        /\ reconnect \in Endpoints \cup {None}
    BY Zenon DEF TypeOK
  <1>1. CASE LoopTop
    BY Zenon, <1>0, <1>1 DEF LoopTop, sessionVars
  <1>2. CASE TakeCommand
    BY Zenon, <1>0, <1>2 DEF TakeCommand
  <1>3. CASE NoCommand
    BY Zenon, <1>0, <1>3 DEF NoCommand, sessionVars
  <1>4. CASE Execute
    BY Zenon, <1>0, <1>4 DEF Execute, DisconnectAll
  <1>5. CASE CommitExisting
    BY Zenon, <1>0, <1>5 DEF CommitExisting
  <1>6. CASE StartConnect
    BY Zenon, <1>0, <1>6 DEF StartConnect
  <1>7. CASE Connect
    BY Zenon, <1>0, <1>7 DEF Connect, GiveUp
  <1>8. CASE Handshake
    BY Zenon, <1>0, <1>8 DEF Handshake, GiveUp
  <1>9. CASE RequestBaseline
    BY Zenon, <1>0, <1>9 DEF RequestBaseline, AskIoWorker, GiveUp
  <1>10. CASE BaselineReply
    BY Zenon, <1>0, <1>10 DEF BaselineReply, GiveUp
  <1>11. CASE Established
    BY Zenon, <1>0, <1>11 DEF Established, Abandon
  <1>12. CASE Commit
    BY Zenon, <1>0, <1>12 DEF Commit
  <1>13. CASE PublishActive
    BY Zenon, <1>0, <1>13 DEF PublishActive, Abandon, AskIoWorker, GiveUp
  <1>14. CASE ActivateReply
    BY Zenon, <1>0, <1>14 DEF ActivateReply, GiveUp
  <1>15. CASE EnableWorkload
    BY Zenon, <1>0, <1>15 DEF EnableWorkload
  <1>16. CASE EnableGeneration
    BY Zenon, <1>0, <1>16 DEF EnableGeneration
  <1>17. CASE StatusConnected
    BY Zenon, <1>0, <1>17 DEF StatusConnected, sessionVars
  <1>18. CASE Recheck
    BY Zenon, <1>0, <1>18 DEF Recheck, Abandon
  <1>19. CASE ConnectedCycle
    BY Zenon, <1>0, <1>19 DEF ConnectedCycle, DropSession
  <1>20. CASE Drain
    BY Zenon, <1>0, <1>20 DEF Drain
  <1>21. CASE DrainEnds
    BY Zenon, <1>0, <1>21 DEF DrainEnds
  <1>22. CASE Send
    BY Zenon, <1>0, <1>22 DEF Send, DropSession
  <1>23. CASE SendFails
    BY Zenon, <1>0, <1>23 DEF SendFails
  <1>24. CASE ReconnectCycle
    BY Zenon, <1>0, <1>24 DEF ReconnectCycle
  <1>25. CASE Leave
    BY Zenon, <1>0, <1>25 DEF Leave, DisconnectAll
  <1> QED
    BY Zenon, <1>1, <1>2, <1>3, <1>4, <1>5, <1>6, <1>7, <1>8, <1>9, <1>10,
       <1>11, <1>12, <1>13, <1>14, <1>15, <1>16, <1>17, <1>18, <1>19,
       <1>20, <1>21, <1>22, <1>23, <1>24, <1>25, Zenon DEF SessionStep

\* The session thread asks the I/O worker one thing at a time and waits for it.
LEMMA SessionKeepsIo ==
    ASSUME TypeOK, SessionInv, IoInv, SessionStep PROVE IoInv'
  <1> USE NamesDistinct, BoundsValid DEF SessionInv, IoInv, Attempting,
          Establishing, Numbered, Open, Enabling, GoOn, ioVars
  <1>0. /\ spc \in SessionPcs /\ nextGen \in 0 .. MaxGen
        /\ ioResp \in {"none", "ok", "err"} /\ ioReq \in {"none", "baseline", "activate"}
    BY Zenon DEF TypeOK
  <1>1. CASE LoopTop
    BY Zenon, <1>0, <1>1 DEF LoopTop, sessionVars
  <1>2. CASE TakeCommand
    BY Zenon, <1>0, <1>2 DEF TakeCommand
  <1>3. CASE NoCommand
    BY Zenon, <1>0, <1>3 DEF NoCommand, sessionVars
  <1>4. CASE Execute
    BY Zenon, <1>0, <1>4 DEF Execute, DisconnectAll
  <1>5. CASE CommitExisting
    BY Zenon, <1>0, <1>5 DEF CommitExisting
  <1>6. CASE StartConnect
    BY Zenon, <1>0, <1>6 DEF StartConnect
  <1>7. CASE Connect
    BY Zenon, <1>0, <1>7 DEF Connect, GiveUp
  <1>8. CASE Handshake
    BY Zenon, <1>0, <1>8 DEF Handshake, GiveUp
  <1>9. CASE RequestBaseline
    BY Zenon, <1>0, <1>9 DEF RequestBaseline, AskIoWorker, GiveUp
  <1>10. CASE BaselineReply
    BY Zenon, <1>0, <1>10 DEF BaselineReply, GiveUp
  <1>11. CASE Established
    BY Zenon, <1>0, <1>11 DEF Established, Abandon
  <1>12. CASE Commit
    BY Zenon, <1>0, <1>12 DEF Commit
  <1>13. CASE PublishActive
    BY Zenon, <1>0, <1>13 DEF PublishActive, Abandon, AskIoWorker, GiveUp
  <1>14. CASE ActivateReply
    BY Zenon, <1>0, <1>14 DEF ActivateReply, GiveUp
  <1>15. CASE EnableWorkload
    BY Zenon, <1>0, <1>15 DEF EnableWorkload
  <1>16. CASE EnableGeneration
    BY Zenon, <1>0, <1>16 DEF EnableGeneration
  <1>17. CASE StatusConnected
    BY Zenon, <1>0, <1>17 DEF StatusConnected, sessionVars
  <1>18. CASE Recheck
    BY Zenon, <1>0, <1>18 DEF Recheck, Abandon
  <1>19. CASE ConnectedCycle
    BY Zenon, <1>0, <1>19 DEF ConnectedCycle, DropSession
  <1>20. CASE Drain
    BY Zenon, <1>0, <1>20 DEF Drain
  <1>21. CASE DrainEnds
    BY Zenon, <1>0, <1>21 DEF DrainEnds
  <1>22. CASE Send
    BY Zenon, <1>0, <1>22 DEF Send, DropSession
  <1>23. CASE SendFails
    BY Zenon, <1>0, <1>23 DEF SendFails
  <1>24. CASE ReconnectCycle
    BY Zenon, <1>0, <1>24 DEF ReconnectCycle
  <1>25. CASE Leave
    BY Zenon, <1>0, <1>25 DEF Leave, DisconnectAll
  <1> QED
    BY Zenon, <1>1, <1>2, <1>3, <1>4, <1>5, <1>6, <1>7, <1>8, <1>9, <1>10,
       <1>11, <1>12, <1>13, <1>14, <1>15, <1>16, <1>17, <1>18, <1>19,
       <1>20, <1>21, <1>22, <1>23, <1>24, <1>25, Zenon DEF SessionStep

\* A new generation leaves the queue to the old one; a drain takes its own.
LEMMA SessionKeepsFlow ==
    ASSUME TypeOK, SessionInv, FlowInv, SessionStep PROVE FlowInv'
  <1> USE NamesDistinct, BoundsValid DEF SessionInv, FlowInv, PendingBelongsToSession, Marked,
          Attempting, Establishing, Numbered, Open, Enabling, GoOn, ioVars, SessionFrame, workerVars
  <1>0. /\ spc \in SessionPcs /\ nextGen \in 0 .. MaxGen /\ captured \in [Workers -> 0 .. MaxGen]
        /\ queue \in Seq(Envelope) /\ pending \in Seq(Envelope) /\ "io" \in Workers
    BY Zenon, WorkersValid DEF TypeOK
  <1>1. CASE LoopTop
    BY Zenon, <1>0, <1>1 DEF LoopTop, sessionVars
  <1>2. CASE TakeCommand
    BY Zenon, <1>0, <1>2 DEF TakeCommand
  <1>3. CASE NoCommand
    BY Zenon, <1>0, <1>3 DEF NoCommand, sessionVars
  <1>4. CASE Execute
    <2>1. UNCHANGED <<nextGen, ioPub, stop, wpc, captured>>
      BY Zenon, <1>4 DEF Execute
    <2>2. CASE pending' = <<>> /\ queue' = <<>>
      BY <1>0, <2>1, <2>2
    <2>3. CASE UNCHANGED <<pending, queue, active>>
      BY Zenon, <1>0, <2>1, <2>3
    <2> QED BY Zenon, <1>4, <2>2, <2>3 DEF Execute, DisconnectAll
  <1>5. CASE CommitExisting
    BY Zenon, <1>0, <1>5 DEF CommitExisting
  <1>6. CASE StartConnect
    BY Zenon, <1>0, <1>6 DEF StartConnect
  <1>7. CASE Connect
    BY Zenon, <1>0, <1>7 DEF Connect, GiveUp
  <1>8. CASE Handshake
    BY Zenon, <1>0, <1>8 DEF Handshake, GiveUp
  <1>9. CASE RequestBaseline
    BY Zenon, <1>0, <1>9 DEF RequestBaseline, AskIoWorker, GiveUp
  <1>10. CASE BaselineReply
    <2>1. UNCHANGED <<ioPub, stop, wpc, captured, pending, active>>
      BY Zenon, <1>10 DEF BaselineReply, GiveUp
    <2>2. CASE queue' = <<>> /\ nextGen' = nextGen + 1
      <3>1. active = None
        BY Zenon, <1>10 DEF BaselineReply
      <3> QED BY <1>0, <2>1, <2>2, <3>1
    <2>3. CASE UNCHANGED <<queue, nextGen>>
      BY Zenon, <1>0, <2>1, <2>3
    <2> QED BY Zenon, <1>10, <2>2, <2>3 DEF BaselineReply, GiveUp
  <1>11. CASE Established
    BY Zenon, <1>0, <1>11 DEF Established, Abandon
  <1>12. CASE Commit
    BY Zenon, <1>0, <1>12 DEF Commit
  <1>13. CASE PublishActive
    BY Zenon, <1>0, <1>13 DEF PublishActive, Abandon, AskIoWorker, GiveUp
  <1>14. CASE ActivateReply
    BY Zenon, <1>0, <1>14 DEF ActivateReply, GiveUp
  <1>15. CASE EnableWorkload
    BY Zenon, <1>0, <1>15 DEF EnableWorkload
  <1>16. CASE EnableGeneration
    BY Zenon, <1>0, <1>16 DEF EnableGeneration
  <1>17. CASE StatusConnected
    BY Zenon, <1>0, <1>17 DEF StatusConnected, sessionVars
  <1>18. CASE Recheck
    BY Zenon, <1>0, <1>18 DEF Recheck, Abandon
  <1>19. CASE ConnectedCycle
    BY <1>0, <1>19 DEF ConnectedCycle, DropSession
  <1>20. CASE Drain
    <2>1. /\ UNCHANGED <<ioPub, stop, wpc, captured, nextGen, active>>
          /\ active # None /\ active.gen = nextGen /\ queue # <<>> /\ queue' = Tail(queue)
          /\ \/ pending' = pending
             \/ pending' = Append(pending, Head(queue)) /\ Admits(Head(queue))
      BY Zenon, <1>20 DEF Drain
    <2>2. /\ queue' \in Seq(Envelope) /\ Len(queue') = Len(queue) - 1
          /\ \A i \in 1 .. Len(queue') : queue'[i] = queue[i + 1]
      BY <1>0, <2>1, HeadTailProperties
    <2>3. Len(queue) \in Nat \ {0} /\ Head(queue) = queue[1]
      BY <1>0, <2>1, EmptySeq
    <2>4. \A i \in 1 .. Len(queue') : i + 1 \in 1 .. Len(queue)
      BY <2>2, <2>3
    <2>5. \A i \in 1 .. Len(queue') : Marked(queue'[i])
      BY <2>2, <2>4
    <2>6. Head(queue) \in Envelope /\ Marked(Head(queue))
      BY <2>3, <1>0
    <2>7. PendingBelongsToSession'
      <3>1. CASE pending' = pending
        BY Zenon, <2>1, <3>1
      <3>2. CASE pending' = Append(pending, Head(queue)) /\ Admits(Head(queue))
        <4>1. /\ Len(pending') = Len(pending) + 1
              /\ \A i \in 1 .. Len(pending) : pending'[i] = pending[i]
              /\ pending'[Len(pending) + 1] = Head(queue)
          BY <1>0, <2>6, <3>2, AppendProperties
        <4>2. \A i \in 1 .. Len(pending') : i \in 1 .. Len(pending) \/ i = Len(pending) + 1
          BY <1>0, <4>1
        <4> QED BY <2>1, <2>6, <3>2, <4>1, <4>2 DEF Admits
      <3> QED BY Zenon, <2>1, <3>1, <3>2
    <2> QED BY Zenon, <2>1, <2>5, <2>7
  <1>21. CASE DrainEnds
    BY Zenon, <1>0, <1>21 DEF DrainEnds
  <1>22. CASE Send
    BY <1>0, <1>22 DEF Send, DropSession
  <1>23. CASE SendFails
    BY <1>0, <1>23 DEF SendFails
  <1>24. CASE ReconnectCycle
    BY Zenon, <1>0, <1>24 DEF ReconnectCycle
  <1>25. CASE Leave
    BY <1>0, <1>25 DEF Leave, DisconnectAll
  <1> QED
    BY Zenon, <1>1, <1>2, <1>3, <1>4, <1>5, <1>6, <1>7, <1>8, <1>9, <1>10,
       <1>11, <1>12, <1>13, <1>14, <1>15, <1>16, <1>17, <1>18, <1>19,
       <1>20, <1>21, <1>22, <1>23, <1>24, <1>25, Zenon DEF SessionStep

\* Steps that neither answer nor commit a request.
LEMMA RequestStays ==
    ASSUME NEW r \in Requests, RequestInv(r), UNCHANGED <<req, cmds>>,
           active' \in {active, None},
           \/ attempt' = None \/ attempt'.req = None
           \/ /\ attempt # None /\ attempt'.req = attempt.req
              /\ Publishing' <=> Publishing
    PROVE  RequestInv(r)'
  BY Zenon, NamesDistinct DEF RequestInv, Sent

\* The end of an attempt that publishes nothing: whoever asked is answered.
LEMMA RequestAnswered ==
    ASSUME NEW r \in Requests, RequestInv(r), req \in [Requests -> Request],
           attempt \in Attempt, UNCHANGED cmds, active' \in {active, None},
           attempt' = None, NEW x, Respond(x), x = "timeout" => ~Publishing
    PROVE  RequestInv(r)'
  <1>1. CASE attempt.req # r
    <2>1. req'[r] = req[r]
      BY Zenon, <1>1 DEF Respond, SetReq
    <2> QED BY Zenon, <2>1, NamesDistinct DEF RequestInv, Sent
  <1>2. CASE attempt.req = r
    <2>1. req' = [req EXCEPT ![r].resp = x] /\ attempt # None
      BY Zenon, <1>2, NamesDistinct DEF Respond, SetReq
    <2>2. /\ req'[r].resp = x /\ req'[r].pc = req[r].pc
          /\ req'[r].completion = req[r].completion
          /\ req'[r].result = req[r].result /\ req'[r].endpoint = req[r].endpoint
      BY Zenon, <2>1 DEF Request
    <2> QED BY Zenon, <1>2, <2>1, <2>2, NamesDistinct DEF RequestInv, Sent
  <1> QED BY Zenon, <1>1, <1>2

\* The session thread answers a request once, and commits it only when it has not
\* been cancelled.
LEMMA SessionKeepsRequests ==
    ASSUME TypeOK, SessionInv, \A r \in Requests : RequestInv(r), SessionStep,
           NEW r \in Requests
    PROVE  RequestInv(r)'
  <1> USE NamesDistinct DEF Publishing, cmdVars, SessionInv, Attempting, Establishing
  <1>0. /\ spc \in SessionPcs /\ req \in [Requests -> Request]
        /\ active \in Session \cup {None} /\ attempt \in Attempt \cup {None}
        /\ RequestInv(r)
    BY Zenon DEF TypeOK
  <1>1. CASE LoopTop
    BY Zenon, <1>0, <1>1, RequestStays DEF LoopTop, sessionVars
  <1>2. CASE NoCommand
    BY Zenon, <1>0, <1>2, RequestStays DEF NoCommand, sessionVars
  <1>3. CASE StartConnect
    BY Zenon, <1>0, <1>3, RequestStays DEF StartConnect
  <1>4. CASE EnableWorkload
    BY Zenon, <1>0, <1>4, RequestStays DEF EnableWorkload, GoOn
  <1>5. CASE EnableGeneration
    BY Zenon, <1>0, <1>5, RequestStays DEF EnableGeneration, GoOn
  <1>6. CASE StatusConnected
    BY Zenon, <1>0, <1>6, RequestStays DEF StatusConnected, sessionVars
  <1>7. CASE ConnectedCycle
    BY Zenon, <1>0, <1>7, RequestStays DEF ConnectedCycle, DropSession
  <1>8. CASE Drain
    BY Zenon, <1>0, <1>8, RequestStays DEF Drain
  <1>9. CASE DrainEnds
    BY Zenon, <1>0, <1>9, RequestStays DEF DrainEnds
  <1>10. CASE Send
    BY Zenon, <1>0, <1>10, RequestStays DEF Send, DropSession
  <1>11. CASE SendFails
    BY Zenon, <1>0, <1>11, RequestStays DEF SendFails
  <1>12. CASE Connect
    <2>1. attempt \in Attempt /\ UNCHANGED cmds /\ active' \in {active, None}
      BY Zenon, <1>0, <1>12 DEF Connect, GiveUp, GoOn
    <2>2. CASE spc' = "top"
      <3>1. attempt' = None /\ \E x \in {"failed", "busy", "stopping"} : Respond(x)
        BY Zenon, <1>0, <1>12, <2>2 DEF Connect, GiveUp, GoOn
      <3> QED BY Zenon, <1>0, <2>1, <3>1, RequestAnswered
    <2>3. CASE spc' # "top"
      <3>1. UNCHANGED req /\ attempt'.req = attempt.req /\ (Publishing' <=> Publishing)
        BY Zenon, <1>0, <1>12, <2>1, <2>3 DEF Connect, GiveUp, GoOn
      <3> QED BY Zenon, <1>0, <2>1, <3>1, RequestStays
    <2> QED BY Zenon, <2>2, <2>3
  <1>13. CASE Handshake
    <2>1. attempt \in Attempt /\ UNCHANGED cmds /\ active' \in {active, None}
      BY Zenon, <1>0, <1>13 DEF Handshake, GiveUp, GoOn
    <2>2. CASE spc' = "top"
      <3>1. attempt' = None /\ \E x \in {"failed", "busy", "stopping"} : Respond(x)
        BY Zenon, <1>0, <1>13, <2>2 DEF Handshake, GiveUp, GoOn
      <3> QED BY Zenon, <1>0, <2>1, <3>1, RequestAnswered
    <2>3. CASE spc' # "top"
      <3>1. UNCHANGED req /\ attempt'.req = attempt.req /\ (Publishing' <=> Publishing)
        <4>1. \E wl \in BOOLEAN : attempt' = [attempt EXCEPT !.wl = wl]
          BY Zenon, <1>13, <2>3, BoundsValid DEF Handshake, GoOn, GiveUp
        <4>2. attempt'.req = attempt.req
          BY <2>1, <4>1, AttemptRecords
        <4> QED BY Zenon, <1>13, <2>3, <4>2 DEF Handshake, GoOn, GiveUp
      <3> QED BY Zenon, <1>0, <2>1, <3>1, RequestStays
    <2> QED BY Zenon, <2>2, <2>3
  <1>14. CASE RequestBaseline
    <2>1. attempt \in Attempt /\ UNCHANGED cmds /\ active' \in {active, None}
      BY Zenon, <1>0, <1>14 DEF RequestBaseline, AskIoWorker, GiveUp, GoOn
    <2>2. CASE spc' = "top"
      <3>1. attempt' = None /\ \E x \in {"failed", "busy", "stopping"} : Respond(x)
        BY Zenon, <1>0, <1>14, <2>2 DEF RequestBaseline, AskIoWorker, GiveUp, GoOn
      <3> QED BY Zenon, <1>0, <2>1, <3>1, RequestAnswered
    <2>3. CASE spc' # "top"
      <3>1. UNCHANGED req /\ attempt'.req = attempt.req /\ (Publishing' <=> Publishing)
        BY Zenon, <1>0, <1>14, <2>1, <2>3 DEF RequestBaseline, AskIoWorker, GiveUp, GoOn
      <3> QED BY Zenon, <1>0, <2>1, <3>1, RequestStays
    <2> QED BY Zenon, <2>2, <2>3
  <1>15. CASE BaselineReply
    <2>1. attempt \in Attempt /\ UNCHANGED cmds /\ active' \in {active, None}
      BY Zenon, <1>0, <1>15 DEF BaselineReply, GiveUp
    <2>2. CASE spc' = "top"
      <3>1. attempt' = None /\ \E x \in {"failed", "busy", "stopping"} : Respond(x)
        BY Zenon, <1>0, <1>15, <2>2 DEF BaselineReply, GiveUp
      <3> QED BY Zenon, <1>0, <2>1, <3>1, RequestAnswered
    <2>3. CASE spc' # "top"
      <3>1. UNCHANGED req /\ attempt'.req = attempt.req /\ (Publishing' <=> Publishing)
        <4>1. nextGen + 1 \in 0 .. MaxGen
          BY <1>15, BoundsValid DEF TypeOK, BaselineReply
        <4>2. [attempt EXCEPT !.gen = nextGen + 1].req = attempt.req
          BY Zenon, <2>1, <4>1, AttemptRecords
        <4> QED BY Zenon, <1>0, <1>15, <2>1, <2>3, <4>2 DEF BaselineReply, GiveUp
      <3> QED BY Zenon, <1>0, <2>1, <3>1, RequestStays
    <2> QED BY Zenon, <2>2, <2>3
  <1>16. CASE PublishActive
    <2>1. attempt \in Attempt /\ UNCHANGED cmds /\ active' \in {active, None}
      BY Zenon, <1>0, <1>16 DEF PublishActive, AskIoWorker, GiveUp, Abandon, GoOn
    <2>2. CASE spc' = "top"
      <3>1. attempt' = None /\ \E x \in {"failed", "busy", "stopping"} : Respond(x)
        BY Zenon, <1>0, <1>16, <2>2 DEF PublishActive, AskIoWorker, GiveUp, Abandon, GoOn
      <3> QED BY Zenon, <1>0, <2>1, <3>1, RequestAnswered
    <2>3. CASE spc' # "top"
      <3>1. UNCHANGED req /\ attempt'.req = attempt.req /\ (Publishing' <=> Publishing)
        BY Zenon, <1>0, <1>16, <2>1, <2>3 DEF PublishActive, AskIoWorker, GiveUp, Abandon, GoOn
      <3> QED BY Zenon, <1>0, <2>1, <3>1, RequestStays
    <2> QED BY Zenon, <2>2, <2>3
  <1>17. CASE ActivateReply
    <2>1. attempt \in Attempt /\ UNCHANGED cmds /\ active' \in {active, None}
      BY Zenon, <1>0, <1>17 DEF ActivateReply, GiveUp, GoOn
    <2>2. CASE spc' = "top"
      <3>1. attempt' = None /\ \E x \in {"failed", "busy", "stopping"} : Respond(x)
        BY Zenon, <1>0, <1>17, <2>2 DEF ActivateReply, GiveUp, GoOn
      <3> QED BY Zenon, <1>0, <2>1, <3>1, RequestAnswered
    <2>3. CASE spc' # "top"
      <3>1. UNCHANGED req /\ attempt'.req = attempt.req /\ (Publishing' <=> Publishing)
        BY Zenon, <1>0, <1>17, <2>1, <2>3 DEF ActivateReply, GiveUp, GoOn
      <3> QED BY Zenon, <1>0, <2>1, <3>1, RequestStays
    <2> QED BY Zenon, <2>2, <2>3
  <1>18. CASE TakeCommand
    <2>1. /\ cmds = <<Head(cmds)>> /\ cmds # <<>> /\ cmds' = <<>>
          /\ UNCHANGED <<req, active>> /\ attempt = None
          /\ ~(spc' \in {"publish", "activateWait", "enableWorkload",
                         "enableGeneration", "statusConnected", "recheck"})
      BY Zenon, <1>0, <1>18, OneCommand DEF TakeCommand
    <2>2. CASE Head(cmds) \in Requests
      <3>1. attempt' # None /\ attempt'.req = Head(cmds)
        BY Zenon, <1>18, <2>1, <2>2, TakenRequest DEF TakeCommand
      <3>2. cmds = <<r>> <=> attempt'.req = r
        BY <2>1, <3>1
      <3> QED BY Zenon, <1>0, <2>1, <3>1, <3>2 DEF RequestInv, Sent
    <2>3. CASE Head(cmds) \notin Requests
      <3>1. attempt' = None
        BY Zenon, <1>18, <2>1, <2>3 DEF TakeCommand
      <3> QED BY Zenon, <1>0, <2>1, <3>1 DEF RequestInv, Sent
    <2> QED BY Zenon, <2>2, <2>3
  <1>19. CASE Execute
    <2>1. attempt \in Attempt /\ attempt # None /\ UNCHANGED cmds /\ active' \in {active, None}
      BY Zenon, <1>0, <1>19 DEF Execute, DisconnectAll
    <2>2. CASE attempt' = None /\ \E x \in {"stopping", "timeout"} : Respond(x)
      <3>1. ~Publishing
        BY Zenon, <1>19 DEF Execute
      <3> QED BY Zenon, <1>0, <2>1, <2>2, <3>1, RequestAnswered
    <2>3. CASE UNCHANGED <<req, attempt>> /\ spc' \in {"commitExisting", "connect"}
      <3>1. ~Publishing /\ ~Publishing'
        BY Zenon, <1>19, <2>3 DEF Execute
      <3> QED BY Zenon, <1>0, <2>1, <2>3, <3>1, RequestStays
    <2> QED BY Zenon, <1>19, <2>2, <2>3 DEF Execute
  <1>20. CASE Established
    <2>1. attempt \in Attempt /\ attempt # None /\ UNCHANGED <<cmds, active>>
      BY Zenon, <1>0, <1>20 DEF Established, Abandon, GoOn
    <2>2. CASE attempt' = None /\ Respond("stopping")
      BY Zenon, <1>0, <2>1, <2>2, RequestAnswered
    <2>3. CASE UNCHANGED <<req, attempt>> /\ (attempt.req # None => spc' = "commit")
      <3>1. attempt'.req = None \/ (attempt'.req = attempt.req /\ ~Publishing /\ ~Publishing')
        BY Zenon, <1>20, <2>3 DEF Established
      <3> QED BY Zenon, <1>0, <2>1, <2>3, <3>1, RequestStays
    <2> QED BY Zenon, <1>20, <2>2, <2>3 DEF Established, Abandon, GoOn
  <1>21. CASE ReconnectCycle
    <2>1. attempt = None /\ UNCHANGED <<req, cmds, active>>
      BY Zenon, <1>21 DEF ReconnectCycle
    <2>2. attempt' = None \/ attempt'.req = None
      BY <1>21, <2>1 DEF ReconnectCycle, AttemptFor
    <2> QED BY Zenon, <1>0, <2>1, <2>2, RequestStays
  <1>22. CASE CommitExisting
    <2>1. /\ attempt \in Attempt /\ attempt.req \in Requests /\ attempt' = None
          /\ UNCHANGED <<cmds, active>> /\ ~Publishing
      BY Zenon, <1>0, <1>22 DEF CommitExisting, Attempt
    <2>2. CASE attempt.req # r
      <3>1. req'[r] = req[r]
        BY Zenon, <1>0, <1>22, <2>2 DEF CommitExisting
      <3> QED BY Zenon, <1>0, <2>1, <2>2, <3>1 DEF RequestInv, Sent
    <2>3. CASE attempt.req = r
      <3>1. /\ req'[r].pc = req[r].pc /\ req'[r].result = req[r].result
            /\ req'[r].endpoint = req[r].endpoint
            /\ req'[r].completion = CompletionAfter(r)
            /\ req'[r].resp = IF Permitted(r) THEN "existing" ELSE "timeout"
        BY <1>0, <1>22, <2>3 DEF CommitExisting, Request
      <3>2. req[r].completion \in {"pending", "cancelled"} /\ Sent(r) /\ cmds # <<r>>
        BY Zenon, <1>0, <2>1, <2>3 DEF RequestInv, Request
      <3>3. /\ CompletionAfter(r) = "committed" => Permitted(r)
            /\ req[r].result = "timeout" => CompletionAfter(r) = "cancelled"
        BY Zenon, <1>0, <2>1, <2>3, <3>2 DEF CompletionAfter, Permitted, RequestInv
      <3>4. CompletionAfter(r) = "cancelled" \/ Permitted(r)
        BY Zenon, <3>2 DEF CompletionAfter, Permitted
      <3>5. req'[r].completion = "committed" => req'[r].resp = "existing"
        BY Zenon, <3>1, <3>3
      <3>6. req'[r].resp \in {"existing", "timeout"}
            /\ (req'[r].resp = "timeout" => req'[r].completion = "cancelled")
        BY Zenon, <3>1, <3>4
      <3>7. Sent(r)' /\ ~(active # None /\ active.req = r)
        BY Zenon, <1>0, <3>1, <3>2 DEF RequestInv, Sent
      <3> QED BY Zenon, <1>0, <2>1, <3>1, <3>2, <3>3, <3>5, <3>6, <3>7 DEF RequestInv, Sent
    <2> QED BY Zenon, <2>2, <2>3
  <1>23. CASE Commit
    <2>1. /\ attempt \in Attempt /\ attempt.req \in Requests
          /\ UNCHANGED <<cmds, active>> /\ ~Publishing
      BY Zenon, <1>0, <1>23 DEF Commit, Attempt
    <2>2. CASE attempt.req # r
      <3>1. req'[r] = req[r] /\ attempt' \in {attempt, None}
        BY Zenon, <1>0, <1>23, <2>2 DEF Commit, SetReq
      <3> QED BY Zenon, <1>0, <2>1, <2>2, <3>1 DEF RequestInv, Sent
    <2>3. CASE attempt.req = r /\ Permitted(r)
      <3>1. /\ req'[r].pc = req[r].pc /\ req'[r].result = req[r].result
            /\ req'[r].endpoint = req[r].endpoint /\ req'[r].resp = req[r].resp
            /\ req'[r].completion = "committed"
        BY <1>0, <1>23, <2>3 DEF Commit, Request, SetReq
      <3>2. attempt' = attempt /\ Publishing'
        BY Zenon, <1>23, <2>3 DEF Commit
      <3>3. /\ req[r].resp = "none" /\ Sent(r) /\ cmds # <<r>>
            /\ req[r].completion = "pending" /\ req[r].result # "timeout"
        BY Zenon, <1>0, <2>1, <2>3 DEF RequestInv, Permitted
      <3> QED BY Zenon, <1>0, <2>1, <2>3, <3>1, <3>2, <3>3 DEF RequestInv, Sent
    <2>4. CASE attempt.req = r /\ ~Permitted(r)
      <3>1. /\ req'[r].pc = req[r].pc /\ req'[r].result = req[r].result
            /\ req'[r].endpoint = req[r].endpoint /\ req'[r].resp = "timeout"
            /\ req'[r].completion = CompletionAfter(r) /\ attempt' = None
        BY <1>0, <1>23, <2>4 DEF Commit, Request
      <3>2. req[r].completion \in {"pending", "cancelled"} /\ Sent(r) /\ cmds # <<r>>
        BY Zenon, <1>0, <2>1, <2>4 DEF RequestInv, Request
      <3>3. CompletionAfter(r) = "cancelled"
        BY Zenon, <2>4, <3>2 DEF CompletionAfter, Permitted
      <3> QED BY Zenon, <1>0, <2>1, <2>4, <3>1, <3>2, <3>3 DEF RequestInv, Sent
    <2> QED BY Zenon, <2>2, <2>3, <2>4
  <1>24. CASE Recheck
    <2>1. /\ attempt \in Attempt /\ attempt # None /\ attempt' = None
          /\ UNCHANGED cmds /\ Publishing
      BY Zenon, <1>0, <1>24 DEF Recheck, Abandon
    <2>2. CASE stop
      <3>1. UNCHANGED active /\ Respond("stopping")
        BY Zenon, <1>24, <2>2 DEF Recheck, Abandon
      <3> QED BY Zenon, <1>0, <2>1, <3>1, RequestAnswered
    <2>3. CASE ~stop
      <3>1. active' = attempt /\ Respond("connected")
        BY Zenon, <1>24, <2>3 DEF Recheck
      <3>2. CASE attempt.req # r
        <4>1. req'[r] = req[r]
          BY Zenon, <1>0, <3>1, <3>2 DEF Respond, SetReq
        <4> QED BY Zenon, <1>0, <2>1, <3>1, <3>2, <4>1 DEF RequestInv, Sent
      <3>3. CASE attempt.req = r
        <4>1. req' = [req EXCEPT ![r].resp = "connected"]
          BY Zenon, <3>1, <3>3 DEF Respond, SetReq
        <4>2. /\ req'[r].resp = "connected" /\ req'[r].pc = req[r].pc
              /\ req'[r].completion = req[r].completion
              /\ req'[r].result = req[r].result /\ req'[r].endpoint = req[r].endpoint
          BY <1>0, <4>1 DEF Request
        <4> QED BY Zenon, <1>0, <2>1, <3>1, <3>3, <4>2 DEF RequestInv, Sent
      <3> QED BY Zenon, <3>2, <3>3
    <2> QED BY Zenon, <2>2, <2>3
  <1>25. CASE Leave
    <2>1. /\ attempt = None /\ attempt' = None /\ active' = None /\ cmds' = <<>>
          /\ <<>> # <<r>>
      BY Zenon, <1>25 DEF Leave, DisconnectAll
    <2>2. CASE cmds = <<r>>
      <3>1. /\ req'[r].resp = "stopping" /\ req'[r].pc = req[r].pc
            /\ req'[r].completion = req[r].completion
            /\ req'[r].result = req[r].result /\ req'[r].endpoint = req[r].endpoint
        BY <1>0, <1>25, <2>2 DEF Leave, Request
      <3> QED BY Zenon, <1>0, <2>1, <2>2, <3>1 DEF RequestInv, Sent
    <2>3. CASE cmds # <<r>>
      <3>1. req'[r] = req[r]
        BY Zenon, <1>0, <1>25, <2>3 DEF Leave
      <3> QED BY Zenon, <1>0, <2>1, <3>1 DEF RequestInv, Sent
    <2> QED BY Zenon, <2>2, <2>3
  <1> QED
    BY Zenon, <1>1, <1>2, <1>3, <1>4, <1>5, <1>6, <1>7, <1>8, <1>9, <1>10, <1>11,
       <1>12, <1>13, <1>14, <1>15, <1>16, <1>17, <1>18, <1>19, <1>20, <1>21,
       <1>22, <1>23, <1>24, <1>25, Zenon DEF SessionStep

\* The session thread keeps the types of what it owns.
LEMMA SessionKeepsSessionTypes ==
    ASSUME TypeOK, SessionInv, \A r \in Requests : RequestInv(r), SessionStep
    PROVE  SessionTypes'
  <1> USE NamesDistinct, BoundsValid DEF SessionTypes, SessionPcs, SetStatus, GoOn, statusVars,
          SessionInv, Attempting, Establishing, Numbered
  <1>0. /\ SessionTypes
        /\ attempt # None => attempt.endpoint \in Endpoints /\ attempt.gen \in 0 .. MaxGen
        /\ active # None => active.endpoint \in Endpoints
    BY Zenon, TypesByPart, AttemptFields
  <1>1. CASE LoopTop
    BY Zenon, <1>0, <1>1 DEF LoopTop, sessionVars
  <1>2. CASE TakeCommand
    BY Zenon, <1>0, <1>2, TakenRequest DEF TakeCommand
  <1>3. CASE NoCommand
    BY Zenon, <1>0, <1>3 DEF NoCommand, sessionVars
  <1>4. CASE Execute
    BY Zenon, <1>0, <1>4 DEF Execute, DisconnectAll
  <1>5. CASE CommitExisting
    BY Zenon, <1>0, <1>5 DEF CommitExisting
  <1>6. CASE StartConnect
    BY Zenon, <1>0, <1>6 DEF StartConnect
  <1>7. CASE Connect
    BY Zenon, <1>0, <1>7 DEF Connect, GiveUp
  <1>8. CASE Handshake
    <2>1. attempt' \in Attempt \cup {None}
      BY <1>0, <1>8, AttemptRecords DEF Handshake, GiveUp
    <2> QED BY Zenon, <1>0, <1>8, <2>1 DEF Handshake, GiveUp
  <1>9. CASE RequestBaseline
    BY Zenon, <1>0, <1>9 DEF RequestBaseline, AskIoWorker, GiveUp
  <1>10. CASE BaselineReply
    <2>1. attempt \in Attempt /\ nextGen + 1 \in 0 .. MaxGen
      BY <1>0, <1>10 DEF BaselineReply
    <2>2. [attempt EXCEPT !.gen = nextGen + 1] \in Attempt
      BY Zenon, <2>1, AttemptRecords
    <2> QED BY Zenon, <1>0, <1>10, <2>1, <2>2 DEF BaselineReply, GiveUp
  <1>11. CASE Established
    BY Zenon, <1>0, <1>11 DEF Established, Abandon
  <1>12. CASE Commit
    BY Zenon, <1>0, <1>12 DEF Commit
  <1>13. CASE PublishActive
    BY Zenon, <1>0, <1>13 DEF PublishActive, Abandon, AskIoWorker, GiveUp
  <1>14. CASE ActivateReply
    BY Zenon, <1>0, <1>14 DEF ActivateReply, GiveUp
  <1>15. CASE EnableWorkload
    BY Zenon, <1>0, <1>15 DEF EnableWorkload
  <1>16. CASE EnableGeneration
    BY Zenon, <1>0, <1>16 DEF EnableGeneration
  <1>17. CASE StatusConnected
    BY Zenon, <1>0, <1>17 DEF StatusConnected, sessionVars
  <1>18. CASE Recheck
    <2>1. attempt \in Session
      BY Zenon, <1>0, <1>18, AttemptFields DEF Recheck
    <2> QED BY Zenon, <1>0, <1>18, <2>1 DEF Recheck, Abandon
  <1>19. CASE ConnectedCycle
    BY Zenon, <1>0, <1>19 DEF ConnectedCycle, DropSession
  <1>20. CASE Drain
    BY Zenon, <1>0, <1>20 DEF Drain
  <1>21. CASE DrainEnds
    BY Zenon, <1>0, <1>21 DEF DrainEnds
  <1>22. CASE Send
    BY Zenon, <1>0, <1>22 DEF Send, DropSession
  <1>23. CASE SendFails
    BY Zenon, <1>0, <1>23 DEF SendFails
  <1>24. CASE ReconnectCycle
    <2>1. attempt' \in Attempt \cup {None}
      BY <1>0, <1>24, AttemptRecords DEF ReconnectCycle
    <2> QED BY Zenon, <1>0, <1>24, <2>1 DEF ReconnectCycle
  <1>25. CASE Leave
    BY Zenon, <1>0, <1>25 DEF Leave, DisconnectAll
  <1> QED
    BY Zenon, <1>1, <1>2, <1>3, <1>4, <1>5, <1>6, <1>7, <1>8, <1>9, <1>10,
       <1>11, <1>12, <1>13, <1>14, <1>15, <1>16, <1>17, <1>18, <1>19,
       <1>20, <1>21, <1>22, <1>23, <1>24, <1>25, Zenon DEF SessionStep

\* The session thread keeps the types of the gate and of the exchange.
LEMMA SessionKeepsGateTypes ==
    ASSUME TypeOK, SessionInv, SessionStep
    PROVE  GateTypes'
  <1> USE BoundsValid, NamesDistinct DEF GateTypes, GoOn, SessionFrame, CloseGate, gateVars, ioVars,
         SessionInv, Attempting
  <1>0. /\ GateTypes /\ 0 \in 0 .. MaxGen
        /\ attempt # None => attempt.gen \in 0 .. MaxGen
    BY TypesByPart, AttemptFields DEF SessionTypes
  <1>1. CASE LoopTop
    BY Zenon, <1>0, <1>1 DEF LoopTop, sessionVars
  <1>2. CASE TakeCommand
    BY Zenon, <1>0, <1>2 DEF TakeCommand
  <1>3. CASE NoCommand
    BY Zenon, <1>0, <1>3 DEF NoCommand, sessionVars
  <1>4. CASE Execute
    BY Zenon, <1>0, <1>4 DEF Execute, DisconnectAll
  <1>5. CASE CommitExisting
    BY Zenon, <1>0, <1>5 DEF CommitExisting
  <1>6. CASE StartConnect
    BY Zenon, <1>0, <1>6 DEF StartConnect
  <1>7. CASE Connect
    BY Zenon, <1>0, <1>7 DEF Connect, GiveUp
  <1>8. CASE Handshake
    BY Zenon, <1>0, <1>8 DEF Handshake, GiveUp
  <1>9. CASE RequestBaseline
    BY Zenon, <1>0, <1>9 DEF RequestBaseline, AskIoWorker, GiveUp
  <1>10. CASE BaselineReply
    BY Zenon, <1>0, <1>10 DEF BaselineReply, GiveUp
  <1>11. CASE Established
    BY Zenon, <1>0, <1>11 DEF Established, Abandon
  <1>12. CASE Commit
    BY Zenon, <1>0, <1>12 DEF Commit
  <1>13. CASE PublishActive
    BY Zenon, <1>0, <1>13 DEF PublishActive, Abandon, AskIoWorker, GiveUp
  <1>14. CASE ActivateReply
    BY Zenon, <1>0, <1>14 DEF ActivateReply, GiveUp
  <1>15. CASE EnableWorkload
    BY Zenon, <1>0, <1>15 DEF EnableWorkload
  <1>16. CASE EnableGeneration
    BY Zenon, <1>0, <1>16 DEF EnableGeneration
  <1>17. CASE StatusConnected
    BY Zenon, <1>0, <1>17 DEF StatusConnected, sessionVars
  <1>18. CASE Recheck
    BY Zenon, <1>0, <1>18 DEF Recheck, Abandon
  <1>19. CASE ConnectedCycle
    BY Zenon, <1>0, <1>19 DEF ConnectedCycle, DropSession
  <1>20. CASE Drain
    BY Zenon, <1>0, <1>20 DEF Drain
  <1>21. CASE DrainEnds
    BY Zenon, <1>0, <1>21 DEF DrainEnds
  <1>22. CASE Send
    BY Zenon, <1>0, <1>22 DEF Send, DropSession
  <1>23. CASE SendFails
    BY Zenon, <1>0, <1>23 DEF SendFails
  <1>24. CASE ReconnectCycle
    BY Zenon, <1>0, <1>24 DEF ReconnectCycle
  <1>25. CASE Leave
    BY Zenon, <1>0, <1>25 DEF Leave, DisconnectAll
  <1> QED
    BY Zenon, <1>1, <1>2, <1>3, <1>4, <1>5, <1>6, <1>7, <1>8, <1>9, <1>10,
       <1>11, <1>12, <1>13, <1>14, <1>15, <1>16, <1>17, <1>18, <1>19,
       <1>20, <1>21, <1>22, <1>23, <1>24, <1>25, Zenon DEF SessionStep

\* The session thread keeps the types of queue and batch, and their bounds.
LEMMA SessionKeepsFlowTypes ==
    ASSUME TypeOK, SessionStep
    PROVE  FlowTypes'
  <1> USE BoundsValid DEF FlowTypes, GoOn, SessionFrame, workerVars
  <1>0. FlowTypes /\ <<>> \in Seq(Envelope) /\ Len(<<>>) <= QueueCap /\ Len(<<>>) <= BatchMax
    BY TypesByPart
  <1>1. CASE LoopTop
    BY Zenon, <1>0, <1>1 DEF LoopTop, sessionVars
  <1>2. CASE TakeCommand
    BY Zenon, <1>0, <1>2 DEF TakeCommand
  <1>3. CASE NoCommand
    BY Zenon, <1>0, <1>3 DEF NoCommand, sessionVars
  <1>4. CASE Execute
    BY Zenon, <1>0, <1>4 DEF Execute, DisconnectAll
  <1>5. CASE CommitExisting
    BY Zenon, <1>0, <1>5 DEF CommitExisting
  <1>6. CASE StartConnect
    BY Zenon, <1>0, <1>6 DEF StartConnect
  <1>7. CASE Connect
    BY Zenon, <1>0, <1>7 DEF Connect, GiveUp
  <1>8. CASE Handshake
    BY Zenon, <1>0, <1>8 DEF Handshake, GiveUp
  <1>9. CASE RequestBaseline
    BY Zenon, <1>0, <1>9 DEF RequestBaseline, AskIoWorker, GiveUp
  <1>10. CASE BaselineReply
    BY Zenon, <1>0, <1>10 DEF BaselineReply, GiveUp
  <1>11. CASE Established
    BY Zenon, <1>0, <1>11 DEF Established, Abandon
  <1>12. CASE Commit
    BY Zenon, <1>0, <1>12 DEF Commit
  <1>13. CASE PublishActive
    BY Zenon, <1>0, <1>13 DEF PublishActive, Abandon, AskIoWorker, GiveUp
  <1>14. CASE ActivateReply
    BY Zenon, <1>0, <1>14 DEF ActivateReply, GiveUp
  <1>15. CASE EnableWorkload
    BY Zenon, <1>0, <1>15 DEF EnableWorkload
  <1>16. CASE EnableGeneration
    BY Zenon, <1>0, <1>16 DEF EnableGeneration
  <1>17. CASE StatusConnected
    BY Zenon, <1>0, <1>17 DEF StatusConnected, sessionVars
  <1>18. CASE Recheck
    BY Zenon, <1>0, <1>18 DEF Recheck, Abandon
  <1>19. CASE ConnectedCycle
    BY Zenon, <1>0, <1>19 DEF ConnectedCycle, DropSession
  <1>20. CASE Drain
    <2>1. /\ Tail(queue) \in Seq(Envelope) /\ Len(Tail(queue)) = Len(queue) - 1
          /\ Head(queue) \in Envelope
      BY Zenon, <1>0, <1>20, HeadTailProperties DEF Drain
    <2>2. /\ Append(pending, Head(queue)) \in Seq(Envelope)
          /\ Len(Append(pending, Head(queue))) = Len(pending) + 1
      BY <1>0, <2>1, AppendProperties
    <2> QED BY <1>0, <1>20, <2>1, <2>2 DEF Drain
  <1>21. CASE DrainEnds
    BY Zenon, <1>0, <1>21 DEF DrainEnds
  <1>22. CASE Send
    BY Zenon, <1>0, <1>22 DEF Send, DropSession
  <1>23. CASE SendFails
    BY Zenon, <1>0, <1>23 DEF SendFails
  <1>24. CASE ReconnectCycle
    BY Zenon, <1>0, <1>24 DEF ReconnectCycle
  <1>25. CASE Leave
    BY Zenon, <1>0, <1>25 DEF Leave, DisconnectAll
  <1> QED
    BY Zenon, <1>1, <1>2, <1>3, <1>4, <1>5, <1>6, <1>7, <1>8, <1>9, <1>10,
       <1>11, <1>12, <1>13, <1>14, <1>15, <1>16, <1>17, <1>18, <1>19,
       <1>20, <1>21, <1>22, <1>23, <1>24, <1>25, Zenon DEF SessionStep

\* An answer keeps the type and the position of every request.
LEMMA RespondTyped ==
    ASSUME req \in [Requests -> Request], attempt \in Attempt,
           NEW x \in Answers, Respond(x)
    PROVE  /\ req' \in [Requests -> Request]
           /\ \A r \in Requests : req'[r].pc = req[r].pc
  <1>1. CASE attempt.req = None
    BY Zenon, <1>1 DEF Respond
  <1>2. CASE attempt.req \in Requests
    BY <1>2, NamesDistinct DEF Respond, SetReq, Request
  <1> QED BY Zenon, <1>1, <1>2, AttemptFields

\* permit_commit keeps both as well.
LEMMA CommitTyped ==
    ASSUME req \in [Requests -> Request], NEW r \in Requests,
           NEW c \in {"pending", "cancelled", "committed"}, NEW x \in Answers,
           \/ req' = [req EXCEPT ![r].completion = c, ![r].resp = x]
           \/ req' = [req EXCEPT ![r]["completion"] = c]
    PROVE  /\ req' \in [Requests -> Request]
           /\ \A q \in Requests : req'[q].pc = req[q].pc
  BY DEF Request

\* The session thread does not move execute along, and takes commands off the
\* channel only at TakeCommand and Leave.
LEMMA SessionKeepsPositions ==
    ASSUME TypeOK, SessionInv, SessionStep
    PROVE  /\ req' \in [Requests -> Request]
           /\ \A r \in Requests : req'[r].pc = req[r].pc
           /\ UNCHANGED <<cmds, pendingCmds>> \/ TakeCommand \/ Leave
  <1> USE NamesDistinct DEF GoOn, cmdVars, SessionInv, Attempting, Establishing
  <1>0. /\ req \in [Requests -> Request] /\ attempt \in Attempt \cup {None}
        /\ {"none", "connected", "existing", "timeout", "stopping", "failed", "busy"}
              \subseteq Answers
    BY Zenon DEF TypeOK, Answers
  <1>1. CASE LoopTop
    BY Zenon, <1>0, <1>1 DEF LoopTop, sessionVars
  <1>2. CASE TakeCommand
    BY Zenon, <1>0, <1>2 DEF TakeCommand
  <1>3. CASE NoCommand
    BY Zenon, <1>0, <1>3 DEF NoCommand, sessionVars
  <1>4. CASE Execute
    BY Zenon, <1>0, <1>4, RespondTyped DEF Execute, DisconnectAll
  <1>5. CASE CommitExisting
    <2>1. /\ attempt.req \in Requests
          /\ CompletionAfter(attempt.req) \in {"pending", "cancelled", "committed"}
      BY Zenon, <1>0, <1>5, AttemptFields DEF CommitExisting, CompletionAfter, Request
    <2> QED BY Zenon, <1>0, <1>5, <2>1, CommitTyped DEF CommitExisting
  <1>6. CASE StartConnect
    BY Zenon, <1>0, <1>6 DEF StartConnect
  <1>7. CASE Connect
    BY Zenon, <1>0, <1>7, RespondTyped DEF Connect, GiveUp
  <1>8. CASE Handshake
    BY Zenon, <1>0, <1>8, RespondTyped DEF Handshake, GiveUp
  <1>9. CASE RequestBaseline
    BY Zenon, <1>0, <1>9, RespondTyped DEF RequestBaseline, AskIoWorker, GiveUp
  <1>10. CASE BaselineReply
    BY Zenon, <1>0, <1>10, RespondTyped DEF BaselineReply, GiveUp
  <1>11. CASE Established
    BY Zenon, <1>0, <1>11, RespondTyped DEF Established, Abandon
  <1>12. CASE Commit
    <2>1. /\ attempt.req \in Requests
          /\ CompletionAfter(attempt.req) \in {"pending", "cancelled", "committed"}
      BY Zenon, <1>0, <1>12, AttemptFields DEF Commit, CompletionAfter, Request
    <2> QED BY Zenon, <1>0, <1>12, <2>1, CommitTyped DEF Commit, SetReq
  <1>13. CASE PublishActive
    BY Zenon, <1>0, <1>13, RespondTyped DEF PublishActive, Abandon, AskIoWorker, GiveUp
  <1>14. CASE ActivateReply
    BY Zenon, <1>0, <1>14, RespondTyped DEF ActivateReply, GiveUp
  <1>15. CASE EnableWorkload
    BY Zenon, <1>0, <1>15 DEF EnableWorkload
  <1>16. CASE EnableGeneration
    BY Zenon, <1>0, <1>16 DEF EnableGeneration
  <1>17. CASE StatusConnected
    BY Zenon, <1>0, <1>17 DEF StatusConnected, sessionVars
  <1>18. CASE Recheck
    BY Zenon, <1>0, <1>18, RespondTyped DEF Recheck, Abandon
  <1>19. CASE ConnectedCycle
    BY Zenon, <1>0, <1>19 DEF ConnectedCycle, DropSession
  <1>20. CASE Drain
    BY Zenon, <1>0, <1>20 DEF Drain
  <1>21. CASE DrainEnds
    BY Zenon, <1>0, <1>21 DEF DrainEnds
  <1>22. CASE Send
    BY Zenon, <1>0, <1>22 DEF Send, DropSession
  <1>23. CASE SendFails
    BY Zenon, <1>0, <1>23 DEF SendFails
  <1>24. CASE ReconnectCycle
    BY Zenon, <1>0, <1>24 DEF ReconnectCycle
  <1>25. CASE Leave
    BY <1>0, <1>25 DEF Leave, Request
  <1> QED
    BY Zenon, <1>1, <1>2, <1>3, <1>4, <1>5, <1>6, <1>7, <1>8, <1>9, <1>10,
       <1>11, <1>12, <1>13, <1>14, <1>15, <1>16, <1>17, <1>18, <1>19,
       <1>20, <1>21, <1>22, <1>23, <1>24, <1>25, Zenon DEF SessionStep

\* A command taken is one less announced.
LEMMA SessionKeepsCommands ==
    ASSUME TypeOK, SessionInv, CommandInv, SessionStep
    PROVE  RequestTypes' /\ CommandInv'
  <1>0. RequestTypes
    BY Zenon, TypesByPart
  <1>1. /\ req' \in [Requests -> Request] /\ UNCHANGED dpc
        /\ \A r \in Requests : req'[r].pc = req[r].pc
    BY Zenon, SessionKeepsPositions DEF SessionFrame, SessionStep, LoopTop, TakeCommand,
       NoCommand, Execute, CommitExisting, StartConnect, Connect, Handshake,
       RequestBaseline, BaselineReply, Established, Commit, PublishActive,
       ActivateReply, EnableWorkload, EnableGeneration, StatusConnected, Recheck,
       ConnectedCycle, Drain, DrainEnds, Send, SendFails, ReconnectCycle, Leave
  <1>2. /\ \A r \in Requests : InFlight(r)' = InFlight(r)
        /\ (\E r \in Requests : req'[r].pc = "begun")
              <=> \E r \in Requests : req[r].pc = "begun"
    BY Zenon, <1>1 DEF InFlight
  <1>3. /\ cmds' \in Seq(Requests \cup {"shutdown"}) /\ Len(cmds') <= 1
        /\ pendingCmds' \in Nat /\ pendingCmds' - Len(cmds') >= pendingCmds - Len(cmds)
    <2>1. CASE UNCHANGED <<cmds, pendingCmds>>
      BY <1>0, <2>1 DEF RequestTypes
    <2>2. CASE TakeCommand
      <3>1. cmds' = <<>> /\ pendingCmds' = pendingCmds - 1 /\ cmds # <<>>
        BY Zenon, <2>2 DEF TakeCommand
      <3>2. Len(cmds) = 1 /\ Len(<<>>) = 0 /\ <<>> \in Seq(Requests \cup {"shutdown"})
        BY <3>1, OneCommand
      <3>3. pendingCmds >= 1
        BY <1>0, <3>2 DEF CommandInv, Count, RequestTypes
      <3> QED BY <1>0, <3>1, <3>2, <3>3 DEF RequestTypes
    <2>3. CASE Leave
      <3>1. cmds' = <<>> /\ pendingCmds' = pendingCmds
        BY Zenon, <2>3 DEF Leave
      <3>2. Len(cmds) \in Nat /\ Len(<<>>) = 0 /\ <<>> \in Seq(Requests \cup {"shutdown"})
        BY <1>0 DEF RequestTypes
      <3> QED BY <1>0, <3>1, <3>2 DEF RequestTypes
    <2> QED BY Zenon, <2>1, <2>2, <2>3, SessionKeepsPositions
  <1>4. RequestTypes'
    BY Zenon, <1>1, <1>3 DEF RequestTypes
  <1>5. CommandInv'
    <2>1. \A q, r \in Requests : InFlight(q)' /\ InFlight(r)' => q = r
      BY Zenon, <1>2 DEF CommandInv
    <2>2. pendingCmds' >= Len(cmds') + Count(dpc = "command")
                      + Count(\E r \in Requests : req[r].pc = "begun")
      <3>1. Len(cmds) \in Nat /\ Len(cmds') \in Nat /\ pendingCmds \in Nat
        BY <1>0, <1>3 DEF RequestTypes
      <3> DEFINE c == Count(dpc = "command")
                 b == Count(\E r \in Requests : req[r].pc = "begun")
      <3>2. c \in 0 .. 1 /\ b \in 0 .. 1
        BY DEF Count
      <3>3. pendingCmds >= Len(cmds) + c + b
        BY Zenon DEF CommandInv
      <3> HIDE DEF c, b
      <3>4. pendingCmds' >= Len(cmds') + c + b
        BY <1>3, <3>1, <3>2, <3>3
      <3> QED BY Zenon, <3>4 DEF c, b
    <2> QED BY Zenon, <1>1, <1>2, <2>1, <2>2 DEF CommandInv
  <1> QED BY Zenon, <1>4, <1>5

-----------------------------------------------------------------------------
(* The control port.                                                        *)

\* What a step of the control port does to its own request.
LEMMA ControlShape ==
    ASSUME TypeOK, NEW r \in Requests, Control(r) \/ Expire(r)
    PROVE  /\ ControlUnchanged
           /\ req' \in [Requests -> Request] /\ Untouched(r)
           /\ req'[r].resp = req[r].resp
           /\ \/ /\ BeginCommand(r) /\ req[r].pc = "new" /\ req'[r].pc = "begun"
                 /\ req'[r].endpoint \in Endpoints
                 /\ req'[r].completion = req[r].completion
                 /\ req'[r].result = req[r].result
              \/ /\ TrySendCommand(r) /\ req[r].pc = "begun"
                 /\ req'[r].endpoint = req[r].endpoint
                 /\ req'[r].completion = req[r].completion
                 /\ \/ req'[r].pc = "waiting" /\ req'[r].result = req[r].result
                    \/ req'[r].pc = "done" /\ req'[r].result # "timeout"
              \/ /\ UNCHANGED <<cmds, pendingCmds>>
                 /\ req'[r].endpoint = req[r].endpoint
                 /\ InFlight(r) /\ req'[r].pc # "new"
                 /\ req[r].pc = "begun" <=> req'[r].pc = "begun"
                 /\ \/ /\ req'[r].completion = req[r].completion
                       /\ req'[r].result \in {req[r].result, req[r].resp}
                    \/ /\ req[r].completion = "pending" /\ req[r].pc = "timedOut"
                       /\ req'[r].completion = "cancelled"
                       /\ req'[r].result = "timeout"
  <1>0. req \in [Requests -> Request]
    BY Zenon DEF TypeOK
  <1>1. CASE BeginCommand(r)
    <2>1. ControlUnchanged /\ req[r].pc = "new"
      BY Zenon, <1>1 DEF BeginCommand
    <2> QED BY Zenon, <1>0, <1>1, <2>1, BeginShape
  <1>2. CASE TrySendCommand(r)
    <2>1. /\ ControlUnchanged /\ req[r].pc = "begun"
          /\ \/ SetReq(r, "pc", "waiting")
             \/ \E x \in {"stopping", "busy"} : Finish(r, x)
      BY Zenon, <1>2 DEF TrySendCommand
    <2>2. {"stopping", "busy"} \subseteq Answers
      BY Zenon DEF Answers
    <2>3. CASE SetReq(r, "pc", "waiting")
      BY Zenon, <1>0, <1>2, <2>1, <2>3, SetReqShape
    <2>4. CASE \E x \in {"stopping", "busy"} : Finish(r, x)
      BY Zenon, <1>0, <1>2, <2>1, <2>2, <2>4, FinishShape
    <2> QED BY Zenon, <2>1, <2>3, <2>4
  <1>3. CASE ReceiveAnswer(r)
    <2>1. /\ ControlUnchanged /\ UNCHANGED <<cmds, pendingCmds>>
          /\ req[r].pc \in {"waiting", "committed"} /\ Finish(r, req[r].resp)
      BY Zenon, <1>3 DEF ReceiveAnswer, cmdVars
    <2>2. req[r].resp \in Answers
      BY Zenon, <1>0 DEF Request
    <2> QED BY Zenon, <1>0, <2>1, <2>2, FinishShape DEF InFlight
  <1>4. CASE ReceiveTimeout(r)
    <2>1. /\ ControlUnchanged /\ UNCHANGED <<cmds, pendingCmds>>
          /\ req[r].pc = "waiting" /\ SetReq(r, "pc", "timedOut")
      BY Zenon, <1>4 DEF ReceiveTimeout, cmdVars
    <2> QED BY Zenon, <1>0, <2>1, SetReqShape DEF InFlight
  <1>5. CASE CancelRequest(r)
    <2>1. /\ ControlUnchanged /\ UNCHANGED <<cmds, pendingCmds>>
          /\ req[r].pc = "timedOut"
          /\ req[r].completion = "pending" \/ SetReq(r, "pc", "committed")
      BY Zenon, <1>5 DEF CancelRequest, cmdVars
    <2>2. CASE req[r].completion = "pending"
      BY Zenon, <1>0, <1>5, <2>1, <2>2, CancelShape DEF InFlight
    <2>3. CASE SetReq(r, "pc", "committed")
      BY Zenon, <1>0, <2>1, <2>3, SetReqShape DEF InFlight
    <2> QED BY Zenon, <2>1, <2>2, <2>3
  <1>6. CASE Expire(r)
    <2>1. /\ ControlUnchanged /\ UNCHANGED <<cmds, pendingCmds>>
          /\ InFlight(r) /\ SetReq(r, "expired", TRUE)
      BY Zenon, <1>6 DEF Expire, cmdVars
    <2> QED BY Zenon, <1>0, <2>1, ExpireShape DEF InFlight
  <1> QED BY Zenon, <1>1, <1>2, <1>3, <1>4, <1>5, <1>6 DEF Control

\* No step of the control port disturbs the requests' invariant: a caller that
\* times out cancels the completion word before it says so.
LEMMA ControlKeepsRequests ==
    ASSUME TypeOK, NEW r \in Requests, Control(r) \/ Expire(r),
           NEW q \in Requests, RequestInv(q)
    PROVE  RequestInv(q)'
  <1>1. /\ UNCHANGED <<spc, attempt, active>>
        /\ \A s \in Requests \ {r} : req'[s] = req[s]
        /\ req'[r].resp = req[r].resp
    BY Zenon, ControlShape DEF Untouched, ControlUnchanged, sessionVars
  <1>2. CASE q # r
    <2>1. req'[q] = req[q] /\ (cmds' = cmds \/ cmds' = <<r>>)
      BY Zenon, <1>1, <1>2, ControlShape DEF BeginCommand, TrySendCommand
    <2>2. cmds' = <<q>> => cmds = <<q>>
      BY <1>2, <2>1
    <2>3. attempt # None /\ attempt.req = q => cmds' # <<q>>
      BY Zenon, <2>2 DEF RequestInv
    <2> QED BY Zenon, <1>1, <2>1, <2>2, <2>3 DEF RequestInv, Sent, Publishing
  <1>3. CASE q = r
    <2>1. CASE req[r].pc = "new" /\ BeginCommand(r)
      <3>1. /\ req'[r].endpoint \in Endpoints /\ req'[r].completion = req[r].completion
            /\ req'[r].result = req[r].result /\ req'[r].pc = "begun" /\ UNCHANGED cmds
        BY Zenon, <2>1, ControlShape DEF BeginCommand, TrySendCommand, InFlight
      <3> QED BY Zenon, <1>1, <1>3, <2>1, <3>1 DEF RequestInv, Sent, Publishing
    <2>2. CASE req[r].pc = "begun"
      <3>1. /\ ~(attempt # None /\ attempt.req = r) /\ ~(active # None /\ active.req = r)
            /\ req[r].completion = "pending" /\ req[r].resp = "none"
            /\ req[r].result = "none" /\ req[r].endpoint \in Endpoints
        BY Zenon, <1>3, <2>2 DEF RequestInv, Sent
      <3>2. /\ req'[r].completion = "pending" /\ req'[r].result # "timeout"
            /\ req'[r].endpoint = req[r].endpoint
            /\ \/ req'[r].pc \in {"waiting", "done"}
               \/ req'[r].pc = "begun" /\ req'[r].result = "none" /\ UNCHANGED cmds
        BY Zenon, <2>2, <3>1, ControlShape
      <3> QED BY Zenon, <1>1, <1>3, <2>2, <3>1, <3>2 DEF RequestInv, Sent
    <2>3. CASE InFlight(r) /\ req[r].pc # "begun"
      <3>1. /\ UNCHANGED cmds /\ req'[r].endpoint = req[r].endpoint
            /\ Sent(r) /\ req'[r].pc \notin {"new", "begun"}
            /\ \/ /\ req'[r].completion = req[r].completion
                  /\ req'[r].result \in {req[r].result, req[r].resp}
               \/ /\ req[r].completion = "pending"
                  /\ req'[r].completion = "cancelled"
                  /\ req'[r].result = "timeout"
        BY Zenon, <2>3, ControlShape DEF InFlight, Sent
      <3> QED BY Zenon, <1>1, <1>3, <3>1 DEF RequestInv, Sent, Publishing
    <2> QED BY Zenon, <2>1, <2>2, <2>3, ControlShape
  <1> QED BY Zenon, <1>2, <1>3

\* Begun: a command announced and not yet sent.  One request is in flight at a
\* time, so announcing or sending one changes that count by exactly one.
Begun == \E r \in Requests : req[r].pc = "begun"

\* execute announces a command before it sends it, and one at a time.
LEMMA ControlKeepsCommands ==
    ASSUME TypeOK, CommandInv, NEW r \in Requests, Control(r) \/ Expire(r)
    PROVE  RequestTypes' /\ CommandInv'
  <1>0. /\ RequestTypes /\ Len(cmds) \in Nat /\ UNCHANGED <<spc, dpc>>
        /\ req' \in [Requests -> Request] /\ Untouched(r)
    <2>1. RequestTypes /\ Len(cmds) \in Nat
      BY TypesByPart DEF RequestTypes
    <2>2. ControlUnchanged /\ req' \in [Requests -> Request] /\ Untouched(r)
      BY Zenon, ControlShape
    <2> QED BY Zenon, <2>1, <2>2 DEF ControlUnchanged
  <1> DEFINE c == Count(dpc = "command")
             cp == Count(dpc' = "command")
             S == Requests \cup {"shutdown"}
  <1>1. c \in 0 .. 1 /\ cp = c
    BY <1>0 DEF Count
  <1>2. /\ Begun => pendingCmds >= Len(cmds) + c + 1
        /\ pendingCmds >= Len(cmds) + c
    <2> DEFINE b == Count(Begun)
    <2>1. b \in 0 .. 1 /\ (Begun => b = 1)
      BY DEF Count
    <2>2. pendingCmds >= Len(cmds) + c + b
      BY Zenon DEF CommandInv, Begun
    <2> HIDE DEF c, b
    <2> QED BY <1>0, <1>1, <2>1, <2>2 DEF RequestTypes
  <1> HIDE DEF c, cp, S
  <1>3. SUFFICES /\ cmds' \in Seq(S) /\ Len(cmds') <= 1 /\ pendingCmds' \in Nat
                 /\ Begun' => pendingCmds' >= Len(cmds') + c + 1
                 /\ pendingCmds' >= Len(cmds') + c
                 /\ \A q \in Requests : InFlight(q)' => q = r \/ InFlight(q)
                 /\ InFlight(r)' => InFlight(r) \/ \A q \in Requests : ~InFlight(q)
    <2>1. \A p, q \in Requests : InFlight(p)' /\ InFlight(q)' => p = q
      BY Zenon, <1>3 DEF CommandInv
    <2> DEFINE b == Count(Begun')
    <2>2. b \in 0 .. 1 /\ (~Begun' => b = 0)
      BY DEF Count
    <2>3. pendingCmds' >= Len(cmds') + cp + b
      <3>1. Len(cmds') \in Nat
        BY <1>3
      <3> HIDE DEF b
      <3> QED BY <1>1, <1>3, <2>2, <3>1
    <2>4. CommandInv'
      BY Zenon, <2>1, <2>3 DEF CommandInv, Begun, cp
    <2> QED BY Zenon, <1>0, <1>3, <2>4 DEF RequestTypes, S
  <1>4. \A q \in Requests : InFlight(q)' => q = r \/ InFlight(q)
    BY Zenon, <1>0 DEF InFlight, Untouched
  <1>5. CASE BeginCommand(r)
    <2>1. /\ UNCHANGED cmds /\ pendingCmds' = pendingCmds + 1
          /\ \A q \in Requests : ~InFlight(q)
      BY Zenon, <1>5 DEF BeginCommand
    <2>2. cmds \in Seq(S) /\ Len(cmds) <= 1 /\ pendingCmds \in Nat
      BY Zenon, <1>0 DEF RequestTypes, S
    <2> QED BY <1>0, <1>1, <1>2, <1>4, <2>1, <2>2
  <1>6. CASE TrySendCommand(r)
    <2>0. /\ req[r].pc = "begun"
          /\ SetReq(r, "pc", "waiting") \/ \E x \in {"stopping", "busy"} : Finish(r, x)
          /\ \/ pendingCmds' = pendingCmds - 1 /\ UNCHANGED cmds
             \/ cmds = <<>> /\ cmds' = <<r>> /\ UNCHANGED pendingCmds
      BY Zenon, <1>6 DEF TrySendCommand
    <2>1. req'[r].pc \in {"waiting", "done"}
      <3>1. req \in [Requests -> Request] /\ {"stopping", "busy"} \subseteq Answers
        BY Zenon, <1>0 DEF RequestTypes, Answers
      <3> QED BY Zenon, <2>0, <3>1, SetReqShape, FinishShape
    <2>2. Begun /\ InFlight(r)
      BY Zenon, <2>0 DEF Begun, InFlight
    <2>3. ~Begun'
      <3>1. \A q \in Requests \ {r} : req'[q] = req[q] /\ ~InFlight(q)
        BY Zenon, <1>0, <2>2 DEF CommandInv, Untouched
      <3> QED BY Zenon, <2>1, <3>1 DEF Begun, InFlight
    <2>4. cmds \in Seq(S) /\ Len(cmds) <= 1 /\ pendingCmds \in Nat
      BY Zenon, <1>0 DEF RequestTypes, S
    <2>5. <<r>> \in Seq(S) /\ Len(<<r>>) = 1 /\ Len(<<>>) = 0
      BY DEF S
    <2>6. CASE pendingCmds' = pendingCmds - 1 /\ UNCHANGED cmds
      BY <1>0, <1>1, <1>2, <1>4, <2>2, <2>3, <2>4, <2>6
    <2>7. CASE cmds = <<>> /\ cmds' = <<r>> /\ UNCHANGED pendingCmds
      <3>1. Len(cmds) = 0 /\ Len(cmds') = 1 /\ cmds' \in Seq(S)
        BY Zenon, <2>5, <2>7
      <3> QED BY <1>1, <1>2, <1>4, <2>2, <2>3, <2>4, <2>7, <3>1
    <2> QED BY Zenon, <2>0, <2>6, <2>7
  <1>7. CASE UNCHANGED <<cmds, pendingCmds>> /\ InFlight(r)
             /\ (req[r].pc = "begun" <=> req'[r].pc = "begun")
    <2>1. Begun' => Begun
      BY Zenon, <1>0, <1>7 DEF Begun, Untouched
    <2>2. cmds \in Seq(S) /\ Len(cmds) <= 1 /\ pendingCmds \in Nat
      BY Zenon, <1>0 DEF RequestTypes, S
    <2> QED BY Zenon, <1>2, <1>4, <1>7, <2>1, <2>2
  <1> QED BY Zenon, <1>5, <1>6, <1>7, ControlShape

-----------------------------------------------------------------------------
(* The workers.                                                             *)

\* Every worker step leaves the session, the gate and the requests alone; the
\* publication generation is ServeBaseline's to change.
LEMMA WorkerKeepsRest ==
    ASSUME TypeOK, SessionInv, CommandInv, \A r \in Requests : RequestInv(r),
           WorkerFrame
    PROVE  /\ SessionInv' /\ CommandInv' /\ \A r \in Requests : RequestInv(r)'
           /\ SessionTypes' /\ RequestTypes'
  <1>1. UNCHANGED <<stop, gateVars, cmds, pendingCmds, connection, pubEnabled,
                    spc, sessionVars, req, dpc>>
    BY Zenon DEF WorkerFrame, cmdVars, statusVars
  <1>2. SessionInv' /\ \A r \in Requests : RequestInv(r)'
    BY Zenon, <1>1, SessionStays, RequestsStay
  <1>3. CommandInv'
    BY Zenon, <1>1 DEF CommandInv, InFlight
  <1>4. SessionTypes' /\ RequestTypes'
    BY Zenon, TypesByPart, SessionTypesStay, RequestTypesStay DEF WorkerFrame
  <1> QED BY Zenon, <1>2, <1>3, <1>4

\* A worker's own step never moves the publication generation, and answers the
\* session only to refuse it.
LEMMA WorkerKeepsGateAndIo ==
    ASSUME TypeOK, GateInv, IoInv, NEW w \in Workers, WorkerStep(w)
    PROVE  WorkerFrame /\ GateInv' /\ IoInv' /\ GateTypes'
  <1>1. /\ WorkerFrame /\ UNCHANGED ioPub
        /\ \/ UNCHANGED <<ioReq, ioResp>>
           \/ ioReq # "none" /\ ioReq' = "none" /\ ioResp' = "err"
    BY Zenon DEF WorkerStep, WorkerTest, Capture, SampleNothing, CheckGate, TrySend, ioVars
  <1>2. UNCHANGED <<stop, gateVars, spc, sessionVars, dpc, ioPub>>
    BY Zenon, <1>1 DEF WorkerFrame
  <1>3. GateInv'
    BY Zenon, <1>2, GateStays
  <1>4. UNCHANGED <<spc, nextGen>>
    BY Zenon, <1>2 DEF sessionVars
  <1>5. IoInv'
    <2>1. ioReq \in {"none", "baseline", "activate"}
      BY Zenon DEF TypeOK
    <2> QED BY Zenon, <1>1, <1>4, <2>1 DEF IoInv, Enabling, Open
  <1>6. GateTypes'
    BY Zenon, <1>1, <1>2, TypesByPart DEF GateTypes, gateVars
  <1> QED BY Zenon, <1>1, <1>3, <1>5, <1>6

\* A sample is marked with the generation captured before it was taken, and an
\* I/O sample of the current generation is relative to its own baseline.
LEMMA WorkerKeepsFlow ==
    ASSUME TypeOK, GateInv, FlowInv, NEW w \in Workers, WorkerStep(w)
    PROVE  FlowInv' /\ FlowTypes'
  <1> USE BoundsValid, WorkersValid
  <1>0. /\ FlowTypes /\ GateTypes /\ nextGen \in 0 .. MaxGen
        /\ captured \in [Workers -> 0 .. MaxGen]
        /\ wpc \in [Workers -> {"test", "capture", "check", "send", "done"}]
    BY Zenon, TypesByPart DEF SessionTypes, FlowTypes
  <1>1. UNCHANGED <<stop, pending, active, nextGen, ioPub>>
    BY Zenon DEF WorkerStep, WorkerTest, Capture, SampleNothing, CheckGate, TrySend, ioVars,
       WorkerFrame, sessionVars
  <1>2. PendingBelongsToSession'
    BY Zenon, <1>1 DEF FlowInv, PendingBelongsToSession
  <1>3. /\ wpc' \in [Workers -> {"test", "capture", "check", "send", "done"}]
        /\ captured' \in [Workers -> 0 .. MaxGen]
        /\ \A v \in Workers \ {w} : wpc'[v] = wpc[v] /\ captured'[v] = captured[v]
        /\ \/ wpc'[w] \notin {"check", "send"}
           \/ wpc[w] \in {"check", "send"} /\ captured'[w] = captured[w]
           \/ captured'[w] # 0 /\ (w # "workload" => captured'[w] = gateGen)
    <2>1. CASE WorkerTest(w)
      BY Zenon, <1>0, <2>1 DEF WorkerTest
    <2>2. CASE Capture(w)
      <3> DEFINE g == IF w = "workload" THEN gateWl ELSE gateGen
      <3>1. /\ captured' = [captured EXCEPT ![w] = g] /\ g \in 0 .. MaxGen
            /\ wpc' = [wpc EXCEPT ![w] = IF g = 0 THEN "test" ELSE "check"]
        BY Zenon, <1>0, <2>2 DEF Capture, GateTypes
      <3>2. w # "workload" => g = gateGen
        OBVIOUS
      <3> HIDE DEF g
      <3> QED BY Zenon, <1>0, <3>1, <3>2
    <2>3. CASE SampleNothing(w)
      BY <1>0, <2>3 DEF SampleNothing, Rest
    <2>4. CASE CheckGate(w)
      BY <1>0, <2>4 DEF CheckGate, Rest
    <2>5. CASE TrySend(w)
      <3>1. /\ wpc[w] = "send"
            /\ \/ Rest(w)
               \/ wpc' = [wpc EXCEPT ![w] = "check"] /\ UNCHANGED captured
        BY Zenon, <2>5 DEF TrySend
      <3>2. CASE Rest(w)
        BY <1>0, <3>2 DEF Rest
      <3> QED BY Zenon, <1>0, <3>1, <3>2
    <2> QED BY Zenon, <2>1, <2>2, <2>3, <2>4, <2>5 DEF WorkerStep
  <1>4. \A v \in Workers : wpc'[v] \in {"check", "send"} => captured'[v] # 0
    BY Zenon, <1>3 DEF FlowInv
  <1>5. wpc'["io"] \in {"check", "send"}
          => /\ captured'["io"] <= nextGen
             /\ captured'["io"] = nextGen => ioPub = nextGen
    <2>1. gateGen # 0 => gateGen = nextGen /\ ioPub = nextGen
      BY Zenon DEF GateInv
    <2>2. wpc["io"] \in {"check", "send"}
            => /\ captured["io"] <= nextGen
               /\ captured["io"] = nextGen => ioPub = nextGen
      BY Zenon DEF FlowInv
    <2>3. nextGen <= nextGen
      BY <1>0
    <2>4. CASE w = "io"
      BY Zenon, <1>3, <2>1, <2>2, <2>3, <2>4
    <2>5. CASE w # "io"
      BY Zenon, <1>3, <2>2, <2>5
    <2> QED BY Zenon, <2>4, <2>5
  <1>6. /\ queue' \in Seq(Envelope) /\ Len(queue') <= QueueCap
        /\ \A i \in 1 .. Len(queue') : Marked(queue'[i])
    <2>0. /\ queue \in Seq(Envelope) /\ Len(queue) \in Nat /\ Len(queue) <= QueueCap
          /\ \A i \in 1 .. Len(queue) : Marked(queue[i])
      BY <1>0 DEF FlowTypes, FlowInv
    <2>1. CASE queue' = queue
      BY Zenon, <2>0, <2>1
    <2>2. CASE TrySend(w)
      BY <2>2, Zenon, SentIsMarked
    <2> QED BY Zenon, <2>1, <2>2 DEF WorkerStep, WorkerTest, Capture, SampleNothing, CheckGate
  <1>7. (\A i \in 1 .. Len(queue) : Marked(queue[i]))'
    BY Zenon, <1>1, <1>6 DEF Marked
  <1>8. FlowInv'
    BY Zenon, <1>1, <1>2, <1>4, <1>5, <1>7 DEF FlowInv
  <1>9. FlowTypes'
    BY Zenon, <1>0, <1>1, <1>3, <1>6 DEF FlowTypes
  <1> QED BY Zenon, <1>8, <1>9

\* A baseline or an activation is served while the session waits for it, so the
\* publication generation only moves when the gate is closed.
LEMMA ServeKeepsInv ==
    ASSUME TypeOK, SessionInv, GateInv, IoInv, FlowInv, ServeBaseline
    PROVE  GateInv' /\ IoInv' /\ FlowInv' /\ GateTypes' /\ FlowTypes'
  <1> USE BoundsValid, WorkersValid
  <1>0. /\ FlowTypes /\ GateTypes /\ nextGen \in 0 .. MaxGen
        /\ attempt \in Attempt \cup {None}
        /\ UNCHANGED <<stop, gateGen, gateWl, spc, active, reconnect, attempt,
                       nextGen, pending, dpc, queue, captured>>
    BY Zenon, TypesByPart DEF SessionTypes, ServeBaseline, WorkerFrame, sessionVars, gateVars
  <1>1. \/ ioReq = "baseline" /\ spc = "baselineWait"
        \/ ioReq = "activate" /\ spc = "activateWait" /\ attempt.gen = nextGen
    BY Zenon, <1>0 DEF ServeBaseline, IoInv, SessionInv, Numbered, GateTypes
  <1>2. /\ ioReq' = "none" /\ ioResp' \in {"ok", "err"} /\ ioPub' \in 0 .. MaxGen
        /\ ioReq = "activate" => \/ ioResp' = "ok" /\ ioPub' = nextGen
                                 \/ ioResp' = "err" /\ ioPub' = ioPub
        /\ ioReq = "baseline" => ioPub' \in {ioPub, 0}
    <2>1. 0 \in 0 .. MaxGen /\ ioPub \in 0 .. MaxGen
      BY <1>0 DEF GateTypes
    <2> QED BY Zenon, <1>0, <1>1, <2>1 DEF ServeBaseline
  <1>3. gateGen = 0
    BY Zenon, <1>1 DEF GateInv, Establishing, Attempting, Open
  <1>4. GateInv'
    BY Zenon, <1>0, <1>3 DEF GateInv, GateMatchesSession
  <1>5. IoInv'
    BY Zenon, <1>0, <1>1, <1>2 DEF IoInv, Enabling, Open
  <1>6. GateTypes'
    BY Zenon, <1>0, <1>2 DEF GateTypes
  <1>7. /\ wpc' = [wpc EXCEPT !["io"] = "test"]
        /\ wpc \in [Workers -> {"test", "capture", "check", "send", "done"}]
    BY Zenon, <1>0 DEF ServeBaseline, FlowTypes
  <1>8. FlowTypes'
    BY Zenon, <1>0, <1>7 DEF FlowTypes
  <1>9. FlowInv'
    <2>1. \A v \in Workers : wpc'[v] \in {"check", "send"} => captured[v] # 0
      BY Zenon, <1>7 DEF FlowInv
    <2>2. wpc'["io"] \notin {"check", "send"}
      BY Zenon, <1>7
    <2>3. (\A i \in 1 .. Len(queue) : Marked(queue[i]))'
      BY Zenon, <1>0 DEF FlowInv, Marked
    <2>4. PendingBelongsToSession'
      BY Zenon, <1>0 DEF FlowInv, PendingBelongsToSession
    <2> QED BY Zenon, <1>0, <2>1, <2>2, <2>3, <2>4 DEF FlowInv
  <1> QED BY Zenon, <1>4, <1>5, <1>6, <1>8, <1>9

-----------------------------------------------------------------------------
(* Shutdown.                                                                *)

\* Shutdown closes the gate one word at a time and announces its command before
\* it sends it; stop is set first and never cleared.
LEMMA ShutdownKeepsRest ==
    ASSUME TypeOK, SessionInv, IoInv, FlowInv, \A r \in Requests : RequestInv(r),
           ShutdownStop \/ ShutdownStep
    PROVE  /\ SessionInv' /\ IoInv' /\ FlowInv' /\ \A r \in Requests : RequestInv(r)'
           /\ SessionTypes' /\ FlowTypes'
  <1>1. /\ UNCHANGED <<queue, spc, sessionVars, req, ioVars, workerVars, connection>>
        /\ (cmds' = cmds \/ cmds' = <<"shutdown">>)
        /\ pubEnabled' \in {pubEnabled, FALSE}
    BY Zenon DEF ShutdownStop, ShutdownStep, ShutdownGate, ShutdownStatus, ShutdownCommand,
       ShutdownJoin, ShutdownFrame, cmdVars, statusVars
  <1>2. stop => stop'
    BY Zenon DEF ShutdownStop, ShutdownStep, ShutdownGate, ShutdownStatus, ShutdownCommand,
       ShutdownJoin
  <1>3. \A r \in Requests : cmds' = cmds \/ cmds' # <<r>>
    BY <1>1, NamesDistinct
  <1>4. SessionInv' /\ IoInv'
    BY Zenon, <1>1, SessionStays, IoStays
  <1>5. FlowInv'
    BY Zenon, <1>1, <1>2, FlowStays
  <1>6. \A r \in Requests : RequestInv(r)'
    BY Zenon, <1>1, <1>3, RequestsStay
  <1>7. SessionTypes' /\ FlowTypes'
    BY Zenon, <1>1, TypesByPart DEF SessionTypes, FlowTypes, sessionVars, workerVars
  <1> QED BY Zenon, <1>4, <1>5, <1>6, <1>7

\* A shutdown sets stop first and then closes the gate.
LEMMA ShutdownKeepsGate ==
    ASSUME TypeOK, GateInv, ShutdownStop \/ ShutdownStep
    PROVE  GateInv' /\ GateTypes'
  <1> USE BoundsValid DEF GateTypes, ShutdownFrame, gateVars, sessionVars, ioVars
  <1>0. GateTypes /\ 0 \in 0 .. MaxGen
    BY TypesByPart
  <1> USE DEF GateInv, GateMatchesSession
  <1>1. CASE ShutdownStop
    BY Zenon, <1>0, <1>1 DEF ShutdownStop
  <1>2. CASE ShutdownGate
    BY Zenon, <1>0, <1>2 DEF ShutdownGate
  <1>3. CASE ShutdownStatus
    BY Zenon, <1>0, <1>3 DEF ShutdownStatus
  <1>4. CASE ShutdownCommand
    BY Zenon, <1>0, <1>4 DEF ShutdownCommand
  <1>5. CASE ShutdownJoin
    BY Zenon, <1>0, <1>5 DEF ShutdownJoin
  <1> QED BY Zenon, <1>1, <1>2, <1>3, <1>4, <1>5 DEF ShutdownStep

\* The Shutdown command is counted from its announcement to its receipt.
LEMMA ShutdownKeepsCommands ==
    ASSUME TypeOK, CommandInv, ShutdownStop \/ ShutdownStep
    PROVE  RequestTypes' /\ CommandInv'
  <1>0. /\ RequestTypes /\ Len(cmds) \in Nat /\ pendingCmds \in Nat
        /\ cmds \in Seq(Requests \cup {"shutdown"}) /\ Len(cmds) <= 1
    BY TypesByPart DEF RequestTypes
  <1>1. UNCHANGED req
    BY Zenon DEF ShutdownStop, ShutdownStep, ShutdownGate, ShutdownStatus, ShutdownCommand,
       ShutdownJoin, ShutdownFrame
  <1> DEFINE b == Count(\E r \in Requests : req[r].pc = "begun")
             S == Requests \cup {"shutdown"}
  <1>2. b \in 0 .. 1
    BY DEF Count
  <1>3. /\ pendingCmds >= Len(cmds) + b
        /\ dpc = "command" => pendingCmds >= Len(cmds) + 1 + b
    <2>1. pendingCmds >= Len(cmds) + Count(dpc = "command") + b
      BY Zenon DEF CommandInv
    <2> HIDE DEF b
    <2> QED BY <1>0, <1>2, <2>1 DEF Count
  <1>4. <<"shutdown">> \in Seq(S) /\ Len(<<"shutdown">>) = 1 /\ Len(<<>>) = 0
    OBVIOUS
  <1> HIDE DEF b
  <1>5. /\ cmds' \in Seq(S) /\ Len(cmds') <= 1 /\ pendingCmds' \in Nat
        /\ pendingCmds' >= Len(cmds') + Count(dpc' = "command") + b
    <2>1. CASE dpc' # "command" /\ UNCHANGED <<cmds, pendingCmds>>
      BY <1>0, <1>2, <1>3, <2>1 DEF Count
    <2>2. CASE ShutdownStatus
      <3>1. dpc' = "command" /\ pendingCmds' = pendingCmds + 1 /\ UNCHANGED cmds
        BY Zenon, <2>2 DEF ShutdownStatus
      <3> QED BY <1>0, <1>2, <1>3, <3>1 DEF Count
    <2>3. CASE ShutdownCommand
      <3>1. /\ dpc = "command" /\ dpc' = "join"
            /\ \/ pendingCmds' = pendingCmds - 1 /\ UNCHANGED cmds
               \/ cmds = <<>> /\ cmds' = <<"shutdown">> /\ UNCHANGED pendingCmds
        BY Zenon, <2>3 DEF ShutdownCommand
      <3>2. CASE pendingCmds' = pendingCmds - 1 /\ UNCHANGED cmds
        BY <1>0, <1>2, <1>3, <3>1, <3>2 DEF Count
      <3>3. CASE cmds = <<>> /\ cmds' = <<"shutdown">> /\ UNCHANGED pendingCmds
        <4>1. Len(cmds) = 0 /\ Len(cmds') = 1 /\ cmds' \in Seq(S)
          BY Zenon, <1>4, <3>3
        <4> HIDE DEF S
        <4> QED BY <1>0, <1>2, <1>3, <3>1, <3>3, <4>1 DEF Count
      <3> QED BY Zenon, <3>1, <3>2, <3>3
    <2> QED BY Zenon, <2>1, <2>2, <2>3 DEF ShutdownStop, ShutdownStep, ShutdownGate,
               ShutdownJoin, cmdVars
  <1>6. RequestTypes'
    BY Zenon, <1>0, <1>1, <1>5 DEF RequestTypes
  <1>7. CommandInv'
    BY Zenon, <1>1, <1>5 DEF CommandInv, InFlight, b
  <1> QED BY Zenon, <1>6, <1>7

-----------------------------------------------------------------------------
(* The theorems.                                                            *)

\* Every step of the session, of a caller, of a worker and of shutdown keeps the
\* inductive invariant.
LEMMA NextIInv == IInv /\ [Next]_vars => IInv'
  <1> SUFFICES ASSUME IInv, [Next]_vars PROVE IInv'
    OBVIOUS
  <1>0. /\ TypeOK /\ SessionInv /\ GateInv /\ CommandInv /\ IoInv /\ FlowInv
        /\ \A r \in Requests : RequestInv(r)
    BY Zenon DEF IInv
  <1> DEFINE Kept == /\ SessionTypes' /\ GateTypes' /\ FlowTypes' /\ RequestTypes'
                     /\ SessionInv' /\ GateInv' /\ CommandInv' /\ IoInv' /\ FlowInv'
                     /\ \A r \in Requests : RequestInv(r)'
  <1>1. SUFFICES Kept
    <2>1. TypeOK'
      BY Zenon, <1>1 DEF TypeOK, SessionTypes, GateTypes, FlowTypes, RequestTypes
    <2> QED BY Zenon, <1>1, <2>1 DEF IInv
  <1>2. CASE SessionStep
    BY Zenon, <1>0, <1>2, SessionKeepsSession, SessionKeepsGate, SessionKeepsIo,
       SessionKeepsFlow, SessionKeepsRequests, SessionKeepsCommands,
       SessionKeepsSessionTypes, SessionKeepsGateTypes, SessionKeepsFlowTypes
  <1>3. ASSUME NEW r \in Requests, Control(r) \/ Expire(r)
        PROVE  Kept
    <2>1. UNCHANGED <<stop, gateVars, queue, statusVars, spc, sessionVars, ioVars,
                      workerVars, dpc>>
      BY Zenon, <1>0, <1>3, ControlShape DEF ControlUnchanged
    <2>2. SessionInv' /\ GateInv' /\ IoInv'
      <3>1. UNCHANGED ioPub
        BY Zenon, <2>1 DEF ioVars
      <3> QED BY Zenon, <1>0, <2>1, <3>1, SessionStays, GateStays, IoStays
    <2>3. FlowInv'
      BY Zenon, <1>0, <2>1, FlowStays
    <2>4. SessionTypes' /\ GateTypes' /\ FlowTypes'
      <3>1. UNCHANGED pending
        BY Zenon, <2>1 DEF sessionVars
      <3> QED BY Zenon, <1>0, <2>1, <3>1, TypesByPart, SessionTypesStay, GateTypesStay,
                 FlowTypesStay
    <2>5. CommandInv' /\ RequestTypes'
      BY Zenon, <1>0, <1>3, ControlKeepsCommands
    <2>6. \A q \in Requests : RequestInv(q)'
      BY Zenon, <1>0, <1>3, ControlKeepsRequests
    <2> QED BY Zenon, <2>2, <2>3, <2>4, <2>5, <2>6
  <1>4. ASSUME NEW w \in Workers, WorkerStep(w)
        PROVE  Kept
    <2>1. WorkerFrame /\ GateInv' /\ IoInv' /\ GateTypes'
      BY Zenon, <1>0, <1>4, WorkerKeepsGateAndIo
    <2>2. FlowInv' /\ FlowTypes'
      BY Zenon, <1>0, <1>4, WorkerKeepsFlow
    <2> QED BY Zenon, <1>0, <2>1, <2>2, WorkerKeepsRest
  <1>5. CASE ServeBaseline
    <2>1. WorkerFrame
      BY Zenon, <1>5 DEF ServeBaseline
    <2> QED BY Zenon, <1>0, <1>5, <2>1, ServeKeepsInv, WorkerKeepsRest
  <1>6. CASE ShutdownStop \/ ShutdownStep
    BY Zenon, <1>0, <1>6, ShutdownKeepsRest, ShutdownKeepsGate, ShutdownKeepsCommands
  <1>7. CASE UNCHANGED vars
    <2>1. UNCHANGED <<stop, gateVars, queue, cmdVars, statusVars, spc, sessionVars, req,
                      ioVars, workerVars, dpc, cmds, pendingCmds, pending, ioPub>>
      BY Zenon, <1>7 DEF vars, cmdVars, sessionVars, ioVars
    <2>2. SessionInv' /\ GateInv' /\ IoInv' /\ \A r \in Requests : RequestInv(r)'
      BY Zenon, <1>0, <2>1, SessionStays, GateStays, IoStays, RequestsStay
    <2>3. FlowInv'
      BY Zenon, <1>0, <2>1, FlowStays
    <2>4. CommandInv'
      BY Zenon, <1>0, <2>1 DEF CommandInv, InFlight
    <2>5. SessionTypes' /\ GateTypes' /\ FlowTypes' /\ RequestTypes'
      BY Zenon, <1>0, <2>1, TypesByPart, SessionTypesStay, GateTypesStay, FlowTypesStay,
         RequestTypesStay
    <2> QED BY Zenon, <2>2, <2>3, <2>4, <2>5
  <1> QED BY Zenon, <1>2, <1>3, <1>4, <1>5, <1>6, <1>7 DEF Next

\* The inductive invariant holds in every reachable state.
LEMMA Inductive == Spec => []IInv
  BY InitIInv, NextIInv, PTL DEF Spec

\* Types and capacities hold for every set of requests, endpoints and workers
\* and every capacity: the command channel never holds two commands, and the
\* count of pending commands never falls below zero.
THEOREM TypeCorrect == Spec => []TypeOK
  <1>1. IInv => TypeOK
    BY Zenon DEF IInv
  <1> QED BY <1>1, Inductive, PTL

\* A batch only holds observations of the session it is sent on (owner.rs admit).
THEOREM BatchBelongs == Spec => []PendingBelongsToSession
  <1>1. IInv => PendingBelongsToSession
    BY Zenon DEF IInv, FlowInv
  <1> QED BY <1>1, Inductive, PTL

\* A request that was told it timed out never publishes a session (control.rs,
\* permit_commit and the caller's compare_exchange).
THEOREM TimeoutExclusive == Spec => []TimedOutNeverPublishes
  <1>1. IInv => TimedOutNeverPublishes
    <2> SUFFICES ASSUME IInv, NEW r \in Requests,
                        "timeout" \in {req[r].resp, req[r].result}
                 PROVE  /\ ~(active # None /\ active.req = r)
                        /\ ~(Publishing /\ attempt.req = r)
      BY Zenon DEF TimedOutNeverPublishes
    <2>1. RequestInv(r) /\ SessionInv
      BY Zenon DEF IInv
    <2>2. Publishing => attempt # None
      BY Zenon, <2>1 DEF SessionInv, Publishing, Attempting
    <2>3. req[r].completion # "committed"
      BY Zenon, <2>1 DEF RequestInv
    <2> QED BY Zenon, <2>1, <2>2, <2>3 DEF RequestInv
  <1> QED BY <1>1, Inductive, PTL

\* While the daemon runs the gate shows the generation of the session in place or
\* of the one being published, and after shutdown has closed it only the window
\* before publish_active's second look at stop holds it open (owner.rs).
THEOREM GateMatches == Spec => []GateMatchesSession
  <1>1. IInv => GateMatchesSession
    BY Zenon DEF IInv, GateInv
  <1> QED BY <1>1, Inductive, PTL

=============================================================================
