-------------------------- MODULE AlertForwarding --------------------------
(***************************************************************************)
(* The way of an alert out of actraild: the built-in forwarding plugin     *)
(* (crates/plugins/alert_forwarding), the link to actraild-alert-proxy     *)
(* (crates/apps/daemon/src/services/alert_forwarding) and the proxy's      *)
(* daemon ingress and broadcast queue (crates/apps/alert_proxy).           *)
(*                                                                         *)
(* The writer of the sandbox alert store publishes from a thread of its    *)
(* own and without a lock; so does the daemon thread when it drains the    *)
(* alert ingress, with fewer interleavings.  The daemon thread alone       *)
(* connects, reconfigures and shuts down.  Each connection has a           *)
(* generation, a bounded queue, a reader and a writer thread; at the proxy *)
(* a thread that must own the producer slot.                               *)
(*                                                                         *)
(* The category filter is a choice at every publication, a configuration   *)
(* is its enabled flag, and time is a choice: what has a deadline may miss *)
(* it in any state.  The configuration file is read by the next start      *)
(* only; a write of it that fails is an outcome.                           *)
(***************************************************************************)
EXTENDS Integers, Sequences

CONSTANTS
    Publishers,  \* the threads that publish
    MaxGen,      \* bound on the connections the daemon makes
    MaxAlerts,   \* bound on the publications
    MaxBeats,    \* bound on the heartbeats of a connection
    QueueCap,    \* queue_capacity of the link
    BroadcastCap \* broadcast_queue_capacity

ASSUME ForwardingBoundsValid ==
    {MaxGen, MaxAlerts, MaxBeats, QueueCap, BroadcastCap} \subseteq Nat \ {0}

VARIABLES
    \* AlertForwardingPluginInner: the generation that is active (active and
    \* active_generation, stored together and never read together), the
    \* flags, and the last generation given out
    active, requested, effective, latest,
    pub,         \* the publishing threads
    daemon,      \* the daemon thread in AlertForwardingService
    link,        \* the connections, with both of their ends
    proxy, slot, broadcast,
    \* history: publications begun, the newest generation activated, a publisher
    \* cleared effective behind an active link
    alerts, newest, late

pluginVars == <<active, requested, effective, latest>>
proxyVars == <<proxy, slot, broadcast>>
history == <<alerts, newest, late>>
vars == <<pluginVars, pub, daemon, link, proxyVars, history>>

Generations == 1 .. MaxGen
At(pc, goal, g) == [pc |-> pc, goal |-> goal, gen |-> g]
Idle == At("idle", "none", 0)
Stopped == At("stopped", "none", 0)
Quiet == [pc |-> "idle", gen |-> 0]
NotDialled ==
    [queue |-> <<>>, rx |-> FALSE, reader |-> "none", writer |-> "none",
     nonce |-> 0, next |-> 1, beating |-> FALSE,
     toProxy |-> <<>>, toDaemon |-> <<>>, conn |-> "none"]
Message(kind, n) == [kind |-> kind, nonce |-> n]
Hello == Message("hello", 0)
Welcome == Message("welcome", 0)
Reject == Message("reject", 0)
Alert == Message("alert", 0)

Listening == proxy \in {"up", "stopping"}
Stop == proxy = "stopping"
\* The stream of the daemon is closed once the last of its clones is dropped.
Hangup(g) == link[g].reader = "done" /\ link[g].writer = "done"
ConnClosed(g) == link[g].conn = "closed"

\* start(): an enabled configuration connects before anything else.
Init ==
    /\ requested \in BOOLEAN
    /\ effective = FALSE
    /\ active = 0 /\ latest = 0
    /\ pub = [p \in Publishers |-> Quiet]
    /\ daemon = IF requested THEN At("ensure", "start", 0) ELSE Idle
    /\ link = [g \in Generations |-> NotDialled]
    /\ proxy = "down" /\ slot = FALSE /\ broadcast = <<>>
    /\ alerts = 0 /\ newest = 0 /\ late = FALSE

-----------------------------------------------------------------------------
(* try_publish, which takes no lock.                                       *)

\* Disabled and filtered publications end here and change nothing.
PublishBegin(p) ==
    /\ pub[p].pc = "idle" /\ alerts < MaxAlerts
    /\ effective
    /\ alerts' = alerts + 1
    /\ pub' = [pub EXCEPT ![p].pc = "load"]
    /\ UNCHANGED <<pluginVars, daemon, link, proxyVars, newest, late>>

PublishLoad(p) ==
    /\ pub[p].pc = "load"
    /\ pub' = [pub EXCEPT ![p] = [pc |-> IF active = 0 THEN "clear" ELSE "send",
                                  gen |-> active]]
    /\ UNCHANGED <<pluginVars, daemon, link, proxyVars, history>>

\* try_send: the receiver may be gone, or the queue full.
PublishSend(p) ==
    LET g == pub[p].gen IN
    /\ pub[p].pc = "send"
    /\ pub' = [pub EXCEPT ![p] = IF link[g].rx THEN Quiet
                                    ELSE [pc |-> "check", gen |-> g]]
    /\ link' = IF link[g].rx /\ Len(link[g].queue) < QueueCap
               THEN [link EXCEPT ![g].queue = Append(@, g)] ELSE link
    /\ UNCHANGED <<pluginVars, daemon, proxyVars, history>>

PublishCheck(p) ==
    /\ pub[p].pc = "check"
    /\ pub' = [pub EXCEPT ![p] = IF active = @.gen
                                    THEN [pc |-> "clear", gen |-> 0] ELSE Quiet]
    /\ UNCHANGED <<pluginVars, daemon, link, proxyVars, history>>

\* The store that follows what was read earlier, whatever happened since.
PublishClear(p) ==
    /\ pub[p].pc = "clear"
    /\ effective' = FALSE
    /\ late' = (late \/ active # 0)
    /\ pub' = [pub EXCEPT ![p] = Quiet]
    /\ UNCHANGED <<active, requested, latest, daemon, link,
                   proxyVars, alerts, newest>>

Publish(p) ==
    \/ PublishBegin(p) \/ PublishLoad(p) \/ PublishSend(p)
    \/ PublishCheck(p) \/ PublishClear(p)

-----------------------------------------------------------------------------
(* What runs under connection_update: one step each.  Of the flags it       *)
(* stores a publisher reads one at a time, and the link threads read        *)
(* active alone, so what they do between two stores they can do before      *)
(* the first or after the last of them.                                     *)

\* What an end drops is forgotten: nothing reads it any more.
ReaderDone(l) ==
    [l EXCEPT !.reader = "done", !.toDaemon = <<>>,
              !.nonce = IF l.writer = "done" THEN 0 ELSE @]
WriterDone(l) ==
    [l EXCEPT !.writer = "done", !.rx = FALSE, !.queue = <<>>, !.next = 1,
              !.beating = FALSE, !.nonce = IF l.reader = "done" THEN 0 ELSE @]
Closed(l) == [l EXCEPT !.conn = "closed", !.toProxy = <<>>]

\* The thread that called disable_if_generation goes on: a link thread ends
\* and drops its stream, the writer also the receiver.
Ended(by, g) ==
    /\ link' = CASE by = "reader" -> [link EXCEPT ![g] = ReaderDone(@)]
                 [] by = "writer" -> [link EXCEPT ![g] = WriterDone(@)]
                 [] OTHER -> link
    /\ daemon' = IF by = "daemon"
                 THEN IF daemon.goal = "start" THEN Stopped ELSE Idle
                 ELSE daemon

Disabling(by, g) ==
    CASE by = "reader" -> link[g].reader = "disable"
      [] by = "writer" -> link[g].writer = "disable"
      [] OTHER -> daemon.pc = "failing" /\ daemon.gen = g

\* Mutant: whoever ends disables what is active.
DisableAny(by, g) ==
    /\ Disabling(by, g)
    /\ active' = 0 /\ effective' = FALSE /\ late' = FALSE
    /\ requested' = (requested /\ active = 0)
    /\ Ended(by, g)
    /\ UNCHANGED <<latest, pub, proxyVars, alerts, newest>>

\* With disable_requested_config_locked.
DisableIfGeneration(by, g) ==
    /\ Disabling(by, g)
    /\ \/ /\ active # g
          /\ UNCHANGED <<active, requested, effective, late>>
       \/ /\ active = g
          /\ active' = 0 /\ effective' = FALSE /\ requested' = FALSE
          /\ late' = FALSE
    /\ Ended(by, g)
    /\ UNCHANGED <<latest, pub, proxyVars, alerts, newest>>

\* The generation is the latest: the daemon thread alone takes them.
Activate ==
    /\ daemon.pc = "activate"
    /\ active' = daemon.gen /\ newest' = daemon.gen /\ late' = FALSE
    /\ effective' = requested
    /\ daemon' = [daemon EXCEPT !.pc = "startLink"]
    /\ UNCHANGED <<requested, latest, pub, link, proxyVars, alerts>>

Wanted == daemon.goal = "on"

\* Mutant: a configuration may be enabled without a connection.
ApplyUnconnected ==
    /\ daemon.pc = "apply"
    /\ requested' = Wanted
    /\ effective' = (active # 0 /\ Wanted)
    /\ late' = FALSE
    /\ daemon' = Idle
    /\ UNCHANGED <<active, latest, pub, link, proxyVars, alerts, newest>>

\* update_config of the plugin: it needs a connection to be enabled, and the
\* file is written first, which may fail.
Apply ==
    /\ daemon.pc = "apply"
    /\ \/ /\ Wanted => active # 0
          /\ requested' = Wanted /\ effective' = Wanted
          /\ late' = FALSE
       \/ UNCHANGED <<requested, effective, late>>
    /\ daemon' = Idle
    /\ UNCHANGED <<active, latest, pub, link, proxyVars, alerts, newest>>

-----------------------------------------------------------------------------
(* AlertForwardingService on the daemon thread.                            *)

\* update_config: an enabled configuration needs a connection first.
UpdateConfig(on) ==
    /\ daemon = Idle
    /\ on /\ active = 0 => latest < MaxGen
    /\ daemon' = At(IF on /\ active = 0 THEN "ensure" ELSE "apply",
                    IF on THEN "on" ELSE "off", 0)
    /\ UNCHANGED <<pluginVars, pub, link, proxyVars, history>>

Failed == daemon' = IF daemon.goal = "start" THEN Stopped ELSE Idle

\* connect, next_generation and the first half of handshake.
Dial ==
    /\ Listening
    /\ latest' = latest + 1
    /\ link' = [link EXCEPT ![latest + 1].rx = TRUE,
                            ![latest + 1].toProxy = <<Hello>>,
                            ![latest + 1].conn = "backlog"]
    /\ daemon' = [daemon EXCEPT !.pc = "handshake", !.gen = latest + 1]

\* A finished child is reaped, and the executable started unless a child
\* runs; it may fail to start.
EnsureConnected ==
    /\ daemon.pc = "ensure"
    /\ \/ Dial /\ UNCHANGED proxy
       \/ /\ ~Listening
          /\ proxy' = IF proxy = "down" THEN "booting" ELSE proxy
          /\ daemon' = [daemon EXCEPT !.pc = "waitProxy"]
          /\ UNCHANGED <<latest, link>>
       \/ /\ proxy = "down"
          /\ Failed
          /\ UNCHANGED <<latest, link, proxy>>
    /\ UNCHANGED <<active, requested, effective, pub, slot,
                   broadcast, history>>

\* wait_for_proxy: until it listens, has exited, or the deadline.
WaitForProxy ==
    /\ daemon.pc = "waitProxy"
    /\ \/ Dial
       \/ /\ Failed
          /\ UNCHANGED <<latest, link>>
    /\ UNCHANGED <<active, requested, effective, pub,
                   proxyVars, history>>

\* The second half of handshake: any answer but a welcome, the end of the
\* stream or the timeout drops the stream and the receiver.
Handshake ==
    LET g == daemon.gen IN
    /\ daemon.pc = "handshake"
    /\ \/ /\ link[g].toDaemon # <<>> /\ Head(link[g].toDaemon) = Welcome
          /\ link' = [link EXCEPT ![g].toDaemon = Tail(@)]
          /\ daemon' = [daemon EXCEPT !.pc = "activate"]
       \/ /\ link' = [link EXCEPT ![g] = WriterDone(ReaderDone(@))]
          /\ Failed
    /\ UNCHANGED <<pluginVars, pub, proxyVars, history>>

\* link.start: the clone, the reader or the writer may fail to come up.
StartLink ==
    LET g == daemon.gen IN
    /\ daemon.pc = "startLink"
    /\ \/ /\ link' = [link EXCEPT ![g].reader = "run", ![g].writer = "top"]
          /\ daemon' = IF daemon.goal = "start" THEN Idle
                       ELSE [daemon EXCEPT !.pc = "apply"]
       \/ /\ \E r \in {"done", "run"} :
                link' = [link EXCEPT ![g] = WriterDone([@ EXCEPT !.reader = r])]
          /\ daemon' = [daemon EXCEPT !.pc = "failing"]
    /\ UNCHANGED <<pluginVars, pub, proxyVars, history>>

\* shutdown: deactivate.
Shutdown ==
    /\ daemon = Idle
    /\ active' = 0 /\ effective' = FALSE /\ late' = FALSE
    /\ daemon' = Stopped
    /\ UNCHANGED <<requested, latest, pub, link, proxyVars, alerts, newest>>

DaemonStep ==
    \/ EnsureConnected \/ WaitForProxy \/ Handshake \/ Activate \/ StartLink
    \/ Apply \/ DisableIfGeneration("daemon", daemon.gen)

-----------------------------------------------------------------------------
(* The link threads of a connection.                                       *)

LinkOnly == UNCHANGED <<pluginVars, pub, daemon, proxyVars, history>>

ReaderReads(g) ==
    /\ link[g].reader = "run" /\ active = g
    /\ link[g].toDaemon # <<>>
    /\ LET match == Head(link[g].toDaemon).nonce = link[g].nonce IN
       link' = [link EXCEPT ![g].toDaemon = Tail(@),
                            ![g].reader = IF match THEN "run" ELSE "disable",
                            ![g].nonce = IF match THEN 0 ELSE @]
    /\ LinkOnly

\* Mutant: the end of the stream is taken for a timeout.
ReaderBreaksLate(g) ==
    /\ link[g].reader = "run"
    /\ active # g
    /\ link' = [link EXCEPT ![g].reader = "disable"]
    /\ LinkOnly

\* The generation is over, or the proxy has closed the stream.
ReaderBreaks(g) ==
    /\ link[g].reader = "run"
    /\ active # g \/ (ConnClosed(g) /\ link[g].toDaemon = <<>>)
    /\ link' = [link EXCEPT ![g].reader = "disable"]
    /\ LinkOnly

\* A write fails when the proxy has closed the stream, and may time out when
\* the proxy has not read what was written before.
WriteFails(g) == ConnClosed(g) \/ link[g].toProxy # <<>>

\* send_heartbeat: the nonce is stored before the message is written.
Beat(w, ok) ==
    [w EXCEPT !.nonce = w.next, !.next = @ + 1, !.beating = ok,
              !.writer = IF ok THEN "top" ELSE "disable",
              !.toProxy = IF ok THEN Append(@, Message("beat", w.next)) ELSE @]

\* Mutant: a heartbeat is sent without its nonce being stored.
WriterTopForgets(g) ==
    LET w == [link[g] EXCEPT !.beating = @ /\ link[g].nonce # 0] IN
    /\ w.writer = "top"
    /\ \/ /\ active # g \/ w.beating
          /\ link' = [link EXCEPT ![g] = [w EXCEPT !.writer = "disable"]]
       \/ /\ active = g
          /\ link' = [link EXCEPT ![g] = [w EXCEPT !.writer = "recv"]]
       \/ /\ active = g /\ ~w.beating /\ w.next <= MaxBeats
          /\ ~ConnClosed(g)
          /\ link' = [link EXCEPT ![g] =
                [Beat(w, TRUE) EXCEPT !.nonce = w.nonce]]
    /\ LinkOnly

\* The top of the writer's loop: the generation, then the heartbeat's state; it
\* may be due, or its answer overdue.
WriterTop(g) ==
    LET w == [link[g] EXCEPT !.beating = @ /\ link[g].nonce # 0] IN
    /\ w.writer = "top"
    /\ \/ /\ active # g \/ w.beating
          /\ link' = [link EXCEPT ![g] = [w EXCEPT !.writer = "disable"]]
       \/ /\ active = g
          /\ link' = [link EXCEPT ![g] = [w EXCEPT !.writer = "recv"]]
       \/ /\ active = g /\ ~w.beating /\ w.next <= MaxBeats
          /\ \/ ~ConnClosed(g) /\ link' = [link EXCEPT ![g] = Beat(w, TRUE)]
             \/ WriteFails(g) /\ link' = [link EXCEPT ![g] = Beat(w, FALSE)]
    /\ LinkOnly

\* recv_timeout: an item is written without another look at the generation;
\* one that cannot be encoded is dropped.
WriterReceives(g) ==
    /\ link[g].writer = "recv"
    /\ \/ /\ link[g].queue # <<>> /\ ~ConnClosed(g)
          /\ link' = [link EXCEPT ![g].writer = "top", ![g].queue = Tail(@),
                                  ![g].toProxy = Append(@, Alert)]
       \/ /\ link[g].queue # <<>> /\ WriteFails(g)
          /\ link' = [link EXCEPT ![g].writer = "disable", ![g].queue = Tail(@)]
       \/ /\ link[g].queue # <<>>
          /\ link' = [link EXCEPT ![g].writer = "top", ![g].queue = Tail(@)]
       \/ /\ link[g].queue = <<>>
          /\ link' = [link EXCEPT ![g].writer = "top"]
    /\ LinkOnly

Reader(g) ==
    \/ ReaderReads(g) \/ ReaderBreaks(g) \/ DisableIfGeneration("reader", g)
Writer(g) ==
    \/ WriterTop(g) \/ WriterReceives(g) \/ DisableIfGeneration("writer", g)

-----------------------------------------------------------------------------
(* The proxy: its life, the daemon ingress and the broadcaster.            *)

ProxyOnly == UNCHANGED <<pluginVars, pub, daemon, history>>
Workers == {g \in Generations : link[g].conn \in {"hello", "serve"}}

\* The ingress listens before the subscriber listener is up; producers wait
\* for that, which is a delay of ConnClaims.  A failed start and a shutdown
\* stop the ingress alike.
ProxyStarts ==
    /\ proxy' \in CASE proxy = "booting" -> {"up", "down"}
                    [] proxy = "up" -> {"stopping"}
                    [] OTHER -> {}
    /\ UNCHANGED <<slot, broadcast, link>>
    /\ ProxyOnly

\* Every stream the proxy holds is closed, and its queue is lost.
ProxyGone ==
    /\ proxy' = "down" /\ slot' = FALSE /\ broadcast' = <<>>
    /\ link' = [g \in Generations |->
                 IF link[g].conn = "none" THEN link[g] ELSE Closed(link[g])]

\* The accept owner has joined its workers and dropped the listener.
ProxyJoins ==
    /\ Stop /\ Workers = {}
    /\ ProxyGone /\ ProxyOnly

ProxyCrashes ==
    /\ proxy # "down"
    /\ ProxyGone /\ ProxyOnly

\* Over connection_limit, which is at least one, the stream is dropped.
Accept(g) ==
    /\ proxy = "up" /\ link[g].conn = "backlog"
    /\ \/ link' = [link EXCEPT ![g].conn = "hello"]
       \/ Workers # {} /\ link' = [link EXCEPT ![g] = Closed(@)]
    /\ UNCHANGED proxyVars /\ ProxyOnly

\* Writing to a stream that the daemon has closed fails.
Sent(l, m) ==
    IF l.reader = "done" THEN l ELSE [l EXCEPT !.toDaemon = Append(@, m)]
Welcomed(g) ==
    [Sent(link[g], Welcome) EXCEPT !.toProxy = Tail(@), !.conn = "serve"]
Rejected(g) == Closed(Sent(link[g], Reject))

\* Mutant: the slot is taken without a compare.
ConnClaimsBlindly(g) ==
    /\ link[g].conn = "hello"
    /\ \/ /\ proxy = "up"
          /\ slot' = TRUE
          /\ link' = [link EXCEPT ![g] = Welcomed(g)]
       \/ /\ Stop
          /\ link' = [link EXCEPT ![g] = Rejected(g)]
          /\ UNCHANGED slot
    /\ UNCHANGED <<proxy, broadcast>> /\ ProxyOnly

\* The hello came with the connection and names the daemon; once the proxy is
\* ready the compare_exchange of active_producer decides, and a stop rejects.
ConnClaims(g) ==
    /\ link[g].conn = "hello"
    /\ \/ /\ proxy = "up"
          /\ slot' = TRUE
          /\ link' = [link EXCEPT ![g] = IF slot THEN Rejected(g)
                                         ELSE Welcomed(g)]
       \/ /\ Stop
          /\ link' = [link EXCEPT ![g] = Rejected(g)]
          /\ UNCHANGED slot
    /\ UNCHANGED <<proxy, broadcast>> /\ ProxyOnly

\* handle_message: an alert is queued or dropped, a heartbeat acknowledged.
\* (A producer that hangs up before its welcome has sent nothing else.)
ConnServes(g) ==
    LET m == Head(link[g].toProxy) IN
    /\ link[g].conn = "serve" /\ link[g].toProxy # <<>>
    /\ \/ /\ m = Alert
          /\ link' = [link EXCEPT ![g].toProxy = Tail(@)]
          /\ broadcast' = IF Len(broadcast) < BroadcastCap
                          THEN Append(broadcast, g) ELSE broadcast
       \/ /\ m.kind = "beat" /\ ~Hangup(g)
          /\ link' = [link EXCEPT ![g] =
                [Sent(link[g], Message("ack", m.nonce)) EXCEPT !.toProxy = Tail(@)]]
          /\ UNCHANGED broadcast
    /\ UNCHANGED <<proxy, slot>> /\ ProxyOnly

\* The serve loop ends: stop, the end of the stream, an idle producer, or an
\* answer that cannot be written.  Drop gives the slot back, then the stream.
ConnEnds(g) ==
    /\ link[g].conn = "serve"
    /\ \/ Stop
       \/ link[g].toProxy = <<>>
       \/ /\ Hangup(g)
          /\ link[g].toProxy # <<>> /\ Head(link[g].toProxy).kind = "beat"
    /\ slot' = FALSE
    /\ link' = [link EXCEPT ![g] = Closed(@)]
    /\ UNCHANGED <<proxy, broadcast>> /\ ProxyOnly

Conn(g) ==
    \/ Accept(g) \/ ConnClaims(g) \/ ConnServes(g) \/ ConnEnds(g)

Broadcast ==
    /\ broadcast # <<>>
    /\ broadcast' = Tail(broadcast)
    /\ UNCHANGED <<proxy, slot, link>> /\ ProxyOnly

-----------------------------------------------------------------------------

Next ==
    \/ \E p \in Publishers : Publish(p)
    \/ DaemonStep \/ Shutdown
    \/ \E on \in BOOLEAN : UpdateConfig(on)
    \/ \E g \in Generations : Reader(g) \/ Writer(g) \/ Conn(g)
    \/ ProxyStarts \/ ProxyJoins \/ ProxyCrashes \/ Broadcast

\* A producer need not fall idle, but its end and a stop are seen.
ConnGoesOn(g) ==
    ConnServes(g) \/ ((Stop \/ Hangup(g)) /\ ConnEnds(g))

\* The link threads and the proxy's run.
Fairness ==
    \A g \in Generations :
        WF_vars(Reader(g)) /\ WF_vars(Writer(g)) /\ WF_vars(ConnGoesOn(g))

Spec == Init /\ [][Next]_vars /\ Fairness

-----------------------------------------------------------------------------

\* The threads and streams keep their types, and the queues their capacities.
TypeOK ==
    /\ {active, latest, newest} \subseteq 0 .. MaxGen
    /\ {requested, effective, slot, late} \subseteq BOOLEAN
    /\ \A g \in Generations : Len(link[g].queue) <= QueueCap
    /\ Len(broadcast) <= BroadcastCap

\* Whoever holds connection_update finds flags that tell one story: what takes
\* effect is requested, what is requested has a connection (but while start()
\* connects and after the shutdown), and what is requested and connected takes
\* effect - unless a publisher cleared effective on what it had read before
\* the connection came up, which lasts until the next update.
FlagsAgree ==
    /\ effective => requested /\ active # 0
    /\ requested /\ daemon.goal # "start" /\ daemon # Stopped => active # 0
    /\ requested /\ active # 0 /\ ~late => effective

\* "A late EOF or timeout of an old generation cannot overwrite the state of a
\* newer link": the newest connection is active as long as its threads run.
LateEndHarmless ==
    \A g \in Generations :
        /\ g = newest
        /\ link[g].reader = "run" /\ link[g].writer \in {"top", "recv"}
        => active = g \/ daemon = Stopped

\* A heartbeat is acknowledged at most once and in time: no acknowledgement
\* the reader finds makes it give up a link that works.
AcksMatch ==
    \A g \in Generations :
        link[g].reader = "run" /\ link[g].toDaemon # <<>>
            => Head(link[g].toDaemon) = Message("ack", link[g].nonce)

\* Once a connection is active no record of an older one enters the broadcast
\* queue, although an old writer may still write one.
OldLinkSilent ==
    [][Len(broadcast') > Len(broadcast)
          => broadcast'[Len(broadcast')] = newest]_vars

\* A link whose stream is closed or whose generation is over comes to its end:
\* it is not active, its threads are gone and the producer slot is free of it.
LinkEnds ==
    \A g \in Generations :
        link[g].reader = "run" /\ (ConnClosed(g) \/ active # g)
            ~> active # g /\ Hangup(g) /\ ConnClosed(g)

=============================================================================
