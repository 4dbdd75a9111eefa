---------------------- MODULE AlertForwarding_proofs -----------------------
(***************************************************************************)
(* AlertForwarding is correct for any number of publishers, generations,   *)
(* alerts and heartbeats and for every queue capacity.                     *)
(*                                                                         *)
(* The inductive invariant IInv says of one connection what its two ends   *)
(* and the messages between them can be (LinkOK: a heartbeat is in one     *)
(* place), of the daemon thread which connection it is dialling            *)
(* (DaemonInv, DialInv), of the proxy that one connection owns the         *)
(* producer slot (SlotInv), and of all connections but the newest that     *)
(* nothing they hold reaches the broadcast queue (SilentInv).              *)
(***************************************************************************)
EXTENDS AlertForwarding, SequenceTheorems, TLAPS

\* The daemon thread before it has dialled.
Dialling == {"ensure", "waitProxy"}

\* The daemon thread between dialling a connection and starting its threads.
Dialled == {"handshake", "activate", "startLink"}

\* Frames of either direction.
Messages ==
    [kind : {"hello", "welcome", "reject", "alert", "beat", "ack"},
     nonce : 0 .. MaxBeats]

\* A connection: its queue, its two threads, its heartbeat, its stream and the
\* proxy's side of it.
Links ==
    [queue : Seq(Generations), rx : BOOLEAN,
     reader : {"none", "run", "disable", "done"},
     writer : {"none", "top", "recv", "disable", "done"},
     nonce : 0 .. MaxBeats, next : 1 .. MaxBeats + 1, beating : BOOLEAN,
     toProxy : Seq(Messages), toDaemon : Seq(Messages),
     conn : {"none", "backlog", "hello", "serve", "closed"}]

\* What the daemon thread is doing, to what end, and for which generation.
Daemons ==
    [pc : {"idle", "stopped", "failing", "apply"} \cup Dialling \cup Dialled,
     goal : {"none", "start", "on", "off"}, gen : 0 .. MaxGen]

\* What a publisher is doing, with the generation it has loaded.
Publishing ==
    [pc : {"idle", "load", "send", "check", "clear"}, gen : 0 .. MaxGen]

\* No heartbeat is on its way to the proxy.
NoBeat(s) == \A i \in 1 .. Len(s) : s[i].kind # "beat"

\* At most one heartbeat is on its way, the one with nonce n.
OneBeat(s, n) ==
    \A i \in 1 .. Len(s) : s[i].kind = "beat" =>
        /\ s[i].nonce = n /\ n # 0
        /\ \A j \in 1 .. Len(s) : s[j].kind = "beat" => j = i

\* A heartbeat is in one place: on its way to the proxy, or its
\* acknowledgement on the way back.
Heartbeats(l) ==
    /\ OneBeat(l.toProxy, l.nonce)
    /\ l.toDaemon # <<>> => /\ l.toDaemon = <<Message("ack", l.nonce)>>
                            /\ l.nonce # 0 /\ NoBeat(l.toProxy)
    /\ l.writer \in {"top", "recv"} /\ ~l.beating => l.nonce = 0

\* Before its threads have been started a connection carries the handshake.
Handshaking(l) ==
    /\ l.nonce = 0 /\ l.next = 1 /\ ~l.beating
    /\ l.conn \in {"serve", "closed"} => l.toProxy = <<>>
    /\ l.toDaemon \in {<<>>, <<Welcome>>, <<Reject>>}

\* One connection with both of its ends.
LinkOK(l) ==
    /\ l \in Links /\ Len(l.queue) <= QueueCap
    /\ l.reader = "none" <=> l.writer = "none"
    /\ l.conn = "none" => l = NotDialled
    /\ l.conn \in {"backlog", "hello"} =>
          /\ l.toProxy = <<Hello>> /\ l.toDaemon = <<>>
          /\ l.reader \in {"none", "done"} /\ l.writer \in {"none", "done"}
    /\ l.conn = "closed" => l.toProxy = <<>>
    /\ l.reader = "none" => Handshaking(l)
    /\ l.reader \in {"run", "disable"} => Heartbeats(l)

\* The daemon thread and the flags.
DaemonInv ==
    /\ daemon.pc = "idle" => daemon = Idle
    /\ daemon.pc = "stopped" => daemon = Stopped
    /\ daemon.pc = "apply" => daemon.goal \in {"on", "off"}
    /\ daemon.pc \in Dialling \cup Dialled => daemon.goal # "none"
    /\ daemon.pc \in Dialling => latest < MaxGen
    /\ daemon.pc \in Dialling \cup {"handshake", "activate"} => active = 0
    /\ daemon.pc \in Dialled \cup {"failing"} => daemon.gen = latest /\ latest # 0
    /\ daemon.pc = "startLink" => active = latest
    /\ active \in {0, newest} /\ newest <= latest
    /\ \A p \in Publishers : pub[p].pc = "send" => pub[p].gen # 0
    /\ FlagsAgree

\* The connections that the daemon thread has dialled and not yet started.
DialInv ==
    /\ \A g \in Generations :
          /\ link[g].conn = "none" <=> g > latest
          /\ g <= latest => (link[g].reader = "none"
                                <=> daemon.pc \in Dialled /\ g = latest)
    /\ daemon.pc \in {"activate", "startLink"} =>
          link[latest].toDaemon = <<>> /\ link[latest].conn \in {"serve", "closed"}
    /\ daemon.pc = "failing" => link[latest].writer \notin {"top", "recv"}

\* One connection owns the producer slot.
SlotInv ==
    \A g, h \in Generations :
        link[g].conn = "serve" => slot /\ (link[h].conn = "serve" => h = g)

\* Connection g brings the proxy nothing any more.
Mute(g) ==
    /\ link[g].writer \in {"top", "recv"} => link[g].conn = "closed"
    /\ link[g].conn = "serve" => link[g].toProxy = <<>>

\* The proxy has welcomed the connection that the daemon thread has dialled.
Welcoming ==
    \/ daemon.pc = "activate"
    \/ daemon.pc = "handshake" /\ link[latest].toDaemon = <<Welcome>>

\* All connections are mute but the newest that is active; and once one has its
\* welcome, all others.
SilentInv ==
    /\ \A g \in Generations \ {newest} : Mute(g)
    /\ Welcoming => \A g \in Generations \ {latest} : Mute(g)

\* The types of what is not part of a connection.
Types ==
    /\ {active, latest, newest} \subseteq 0 .. MaxGen
    /\ {requested, effective, slot, late} \subseteq BOOLEAN
    /\ pub \in [Publishers -> Publishing] /\ daemon \in Daemons
    /\ proxy \in {"down", "booting", "up", "stopping"}
    /\ broadcast \in Seq(Generations) /\ Len(broadcast) <= BroadcastCap

\* Every connection is as it should be.
LinksOK == link \in [Generations -> Links] /\ \A g \in Generations : LinkOK(link[g])

\* The inductive invariant.
IInv ==
    /\ Types /\ LinksOK /\ DaemonInv /\ DialInv /\ LateEndHarmless
    /\ SlotInv /\ SilentInv

-----------------------------------------------------------------------------
(* Sequences.                                                              *)

\* The tail of a sequence.
LEMMA TailOf ==
    ASSUME NEW S, NEW s \in Seq(S), s # <<>>
    PROVE  /\ Head(s) \in S /\ Head(s) = s[1] /\ Tail(s) \in Seq(S)
           /\ Len(s) \in Nat \ {0} /\ Len(Tail(s)) = Len(s) - 1
           /\ \A i \in 1 .. Len(Tail(s)) : Tail(s)[i] = s[i + 1]
  BY HeadTailProperties

\* A sequence with one more element.
LEMMA Appended ==
    ASSUME NEW S, NEW s \in Seq(S), NEW e \in S
    PROVE  /\ Append(s, e) \in Seq(S) /\ Len(s) \in Nat
           /\ Len(Append(s, e)) = Len(s) + 1 /\ Append(s, e) # <<>>
           /\ \A i \in 1 .. Len(s) : Append(s, e)[i] = s[i]
           /\ Append(s, e)[Len(s) + 1] = e
  BY AppendProperties

\* A message alone in its stream.
LEMMA Alone ==
    ASSUME NEW m \in Messages
    PROVE  /\ <<m>> \in Seq(Messages) /\ <<m>> # <<>> /\ Len(<<m>>) = 1
           /\ Head(<<m>>) = m /\ Tail(<<m>>) = <<>> /\ <<m>>[1] = m
           /\ Append(<<>>, m) = <<m>>
  OBVIOUS

\* Nothing on the way.
LEMMA Nothing ==
    /\ <<>> \in Seq(Messages) /\ <<>> \in Seq(Generations) /\ Len(<<>>) = 0
    /\ NoBeat(<<>>) /\ \A n : OneBeat(<<>>, n)
  BY DEF NoBeat, OneBeat

\* The messages of the handshake, an alert and a heartbeat with its answer.
LEMMA MessageKinds ==
    /\ {Hello, Welcome, Reject, Alert} \subseteq Messages
    /\ \A n \in 0 .. MaxBeats :
          /\ Message("beat", n) \in Messages /\ Message("ack", n) \in Messages
          /\ Message("beat", n).kind = "beat" /\ Message("beat", n).nonce = n
          /\ Message("ack", n).nonce = n
    /\ Alert.kind # "beat" /\ Hello.kind # "beat"
    /\ Welcome # Reject
  BY ForwardingBoundsValid DEF Messages, Hello, Welcome, Reject, Alert, Message

\* No heartbeat with nonce zero is on its way.
LEMMA ZeroNoBeat ==
    ASSUME NEW s, OneBeat(s, 0) PROVE NoBeat(s)
  BY Zenon DEF OneBeat, NoBeat

\* The proxy reads one message.
LEMMA BeatRead ==
    ASSUME NEW s \in Seq(Messages), s # <<>>, NEW n, OneBeat(s, n)
    PROVE  /\ OneBeat(Tail(s), n)
           /\ NoBeat(s) => NoBeat(Tail(s))
           /\ Head(s).kind = "beat" => NoBeat(Tail(s)) /\ Head(s).nonce = n /\ n # 0
  <1>1. /\ Head(s) = s[1] /\ Len(s) \in Nat \ {0} /\ Len(Tail(s)) = Len(s) - 1
        /\ \A i \in 1 .. Len(Tail(s)) : Tail(s)[i] = s[i + 1]
    BY Zenon, TailOf
  <1>2. \A i \in 1 .. Len(Tail(s)) : i + 1 \in 1 .. Len(s) /\ i + 1 # 1
    BY <1>1
  <1>3. 1 \in 1 .. Len(s)
    BY <1>1
  <1>4. \A i, j \in 1 .. Len(Tail(s)) : i + 1 = j + 1 => i = j
    OBVIOUS
  <1>5. OneBeat(Tail(s), n)
    BY <1>1, <1>2, <1>4 DEF OneBeat
  <1>6. NoBeat(s) => NoBeat(Tail(s))
    BY Zenon, <1>1, <1>2 DEF NoBeat
  <1>7. Head(s).kind = "beat" => NoBeat(Tail(s)) /\ Head(s).nonce = n /\ n # 0
    BY Zenon, <1>1, <1>2, <1>3 DEF OneBeat, NoBeat
  <1> QED BY Zenon, <1>5, <1>6, <1>7

\* The writer writes an alert, or a heartbeat when there is none.
LEMMA BeatWritten ==
    ASSUME NEW s \in Seq(Messages), NEW m \in Messages, NEW n
    PROVE  /\ OneBeat(s, n) /\ m.kind # "beat" => OneBeat(Append(s, m), n)
           /\ NoBeat(s) /\ m.kind # "beat" => NoBeat(Append(s, m))
           /\ NoBeat(s) /\ m.nonce = n /\ n # 0 => OneBeat(Append(s, m), n)
  <1>1. /\ Len(s) \in Nat /\ Len(Append(s, m)) = Len(s) + 1
        /\ \A i \in 1 .. Len(s) : Append(s, m)[i] = s[i]
        /\ Append(s, m)[Len(s) + 1] = m
    BY Appended
  <1>2. \A i \in 1 .. Len(s) + 1 : i \in 1 .. Len(s) \/ i = Len(s) + 1
    BY <1>1
  <1> QED BY Zenon, <1>1, <1>2 DEF OneBeat, NoBeat

-----------------------------------------------------------------------------
(* What each operation makes of a connection.                              *)

\* m is l but for the fields named in S.
Same(l, m, S) ==
    /\ m \in Links
    /\ "queue" \notin S => m.queue = l.queue
    /\ "rx" \notin S => m.rx = l.rx
    /\ "reader" \notin S => m.reader = l.reader
    /\ "writer" \notin S => m.writer = l.writer
    /\ "nonce" \notin S => m.nonce = l.nonce
    /\ "next" \notin S => m.next = l.next
    /\ "beating" \notin S => m.beating = l.beating
    /\ "toProxy" \notin S => m.toProxy = l.toProxy
    /\ "toDaemon" \notin S => m.toDaemon = l.toDaemon
    /\ "conn" \notin S => m.conn = l.conn

\* The fields of a connection.
LEMMA LinkFields ==
    ASSUME NEW l \in Links
    PROVE  /\ l.queue \in Seq(Generations) /\ l.rx \in BOOLEAN
           /\ l.reader \in {"none", "run", "disable", "done"}
           /\ l.writer \in {"none", "top", "recv", "disable", "done"}
           /\ l.nonce \in 0 .. MaxBeats /\ l.next \in 1 .. MaxBeats + 1
           /\ l.beating \in BOOLEAN
           /\ l.toProxy \in Seq(Messages) /\ l.toDaemon \in Seq(Messages)
           /\ l.conn \in {"none", "backlog", "hello", "serve", "closed"}
  BY Zenon DEF Links

\* Nothing has been dialled.
LEMMA NotDialledOK == LinkOK(NotDialled)
  BY ForwardingBoundsValid, Nothing DEF LinkOK, NotDialled, Links, Handshaking

\* An alert joins the queue (try_publish).
Queued(l, q) == [l EXCEPT !.queue = q]

\* A queue within its capacity leaves the connection as it should be.
LEMMA QueuedOK ==
    ASSUME NEW l, LinkOK(l), NEW q \in Seq(Generations), Len(q) <= QueueCap,
           l.conn # "none"
    PROVE  LET m == Queued(l, q) IN LinkOK(m) /\ Same(l, m, {"queue"})
  <1> DEFINE m == Queued(l, q)
  <1>1. Same(l, m, {"queue"}) /\ m.queue = q
    BY Zenon DEF LinkOK, Links, Same, Queued
  <1> HIDE DEF m
  <1>2. LinkOK(m)
    BY Zenon, <1>1 DEF LinkOK, Same, Handshaking, Heartbeats
  <1> QED BY Zenon, <1>1, <1>2 DEF m

\* The reader ends.
LEMMA ReaderDoneOK ==
    ASSUME NEW l, LinkOK(l)
    PROVE  LET m == ReaderDone(l) IN
           /\ Same(l, m, {"reader", "toDaemon", "nonce"})
           /\ m.reader = "done" /\ m.toDaemon = <<>>
           /\ l.reader # "none" => LinkOK(m)
  <1> DEFINE m == ReaderDone(l)
             n == IF l.writer = "done" THEN 0 ELSE l.nonce
  <1>0. l \in Links /\ n \in 0 .. MaxBeats /\ <<>> \in Seq(Messages)
        /\ m = [l EXCEPT !.reader = "done", !.toDaemon = <<>>, !.nonce = n]
    BY LinkFields, Nothing, ForwardingBoundsValid DEF LinkOK, ReaderDone
  <1> HIDE DEF n, m
  <1>1. /\ Same(l, m, {"reader", "toDaemon", "nonce"})
        /\ m.reader = "done" /\ m.toDaemon = <<>>
    BY Zenon, <1>0 DEF Links, Same
  <1>2. l.reader # "none" => LinkOK(m)
    BY <1>1 DEF LinkOK, Same, Handshaking, Heartbeats, NotDialled
  <1> QED BY Zenon, <1>1, <1>2 DEF m

\* The writer ends and drops the receiver; before, link.start may have got as far
\* as the reader.
LEMMA WriterDoneOK ==
    ASSUME NEW l, l \in Links
    PROVE  LET m == WriterDone(l) IN
           /\ Same(l, m, {"writer", "rx", "queue", "next", "beating", "nonce"})
           /\ m.writer = "done" /\ m.queue = <<>>
           /\ l.reader # "done" => m.nonce = l.nonce
           /\ LinkOK(l) /\ l.writer # "none" => LinkOK(m)
  <1> DEFINE m == WriterDone(l)
             n == IF l.reader = "done" THEN 0 ELSE l.nonce
  <1>0. /\ n \in 0 .. MaxBeats /\ <<>> \in Seq(Generations) /\ 1 \in 1 .. MaxBeats + 1
        /\ m = [l EXCEPT !.writer = "done", !.rx = FALSE, !.queue = <<>>, !.next = 1,
                         !.beating = FALSE, !.nonce = n]
        /\ l.reader # "done" => n = l.nonce
    BY LinkFields, Nothing, ForwardingBoundsValid DEF WriterDone
  <1> HIDE DEF n, m
  <1>1. /\ Same(l, m, {"writer", "rx", "queue", "next", "beating", "nonce"})
        /\ m.writer = "done" /\ m.queue = <<>> /\ m.nonce = n
    BY Zenon, <1>0 DEF Links, Same
  <1>2. LinkOK(l) /\ l.writer # "none" => LinkOK(m)
    BY <1>0, <1>1, Nothing, ForwardingBoundsValid
       DEF LinkOK, Same, Handshaking, Heartbeats, NotDialled
  <1> QED BY Zenon, <1>0, <1>1, <1>2 DEF m

\* The proxy closes the stream.
LEMMA ClosedOK ==
    ASSUME NEW l, LinkOK(l), l.conn # "none"
    PROVE  LET m == Closed(l) IN
           /\ Same(l, m, {"conn", "toProxy"})
           /\ m.conn = "closed" /\ m.toProxy = <<>> /\ LinkOK(m)
  <1> DEFINE m == Closed(l)
  <1>1. /\ Same(l, m, {"conn", "toProxy"}) /\ m.conn = "closed" /\ m.toProxy = <<>>
    BY Zenon, Nothing DEF LinkOK, Links, Same, Closed
  <1> HIDE DEF m
  <1>2. LinkOK(m)
    BY Zenon, <1>1, Nothing DEF LinkOK, Same, Handshaking, Heartbeats
  <1> QED BY Zenon, <1>1, <1>2 DEF m

\* The daemon connects and sends its hello.
LEMMA DialOK ==
    ASSUME NEW l, l = NotDialled
    PROVE  LET m == [l EXCEPT !.rx = TRUE, !.toProxy = <<Hello>>, !.conn = "backlog"] IN
           /\ Same(l, m, {"rx", "toProxy", "conn"}) /\ m.conn = "backlog" /\ LinkOK(m)
  <1> DEFINE s == <<Hello>>
             m == [l EXCEPT !.rx = TRUE, !.toProxy = s, !.conn = "backlog"]
  <1>0. s \in Seq(Messages) /\ l \in Links
    BY Zenon, NotDialledOK, MessageKinds, Alone DEF LinkOK
  <1> HIDE DEF s
  <1>1. Same(l, m, {"rx", "toProxy", "conn"}) /\ m.conn = "backlog" /\ m.toProxy = s
    BY Zenon, <1>0 DEF Links, Same
  <1> HIDE DEF m
  <1>2. /\ l.queue = <<>> /\ l.toDaemon = <<>> /\ l.reader = "none" /\ l.writer = "none"
        /\ l.nonce = 0 /\ l.next = 1 /\ l.beating = FALSE
    BY Zenon DEF NotDialled
  <1>3. LinkOK(m)
    BY <1>1, <1>2, Nothing, ForwardingBoundsValid DEF LinkOK, Same, Handshaking, s
  <1> QED BY Zenon, <1>1, <1>3 DEF m, s

\* The daemon reads its welcome.
LEMMA WelcomeReadOK ==
    ASSUME NEW l, LinkOK(l), l.reader = "none", l.toDaemon # <<>>,
           Head(l.toDaemon) = Welcome
    PROVE  LET m == [l EXCEPT !.toDaemon = Tail(@)] IN
           /\ Same(l, m, {"toDaemon"}) /\ m.toDaemon = <<>> /\ LinkOK(m)
           /\ l.toDaemon = <<Welcome>> /\ l.conn \in {"serve", "closed"}
  <1> DEFINE m == [l EXCEPT !.toDaemon = Tail(@)]
  <1>0. /\ l.toDaemon = <<Welcome>> /\ Tail(l.toDaemon) = <<>> /\ <<>> \in Seq(Messages)
        /\ l.conn \in {"serve", "closed"}
    <2>1. l.toDaemon \in {<<Welcome>>, <<Reject>>} /\ l.conn \notin {"backlog", "hello"}
      BY Zenon DEF LinkOK, Handshaking
    <2>2. /\ Head(<<Reject>>) = Reject /\ Tail(<<Welcome>>) = <<>> /\ Welcome # Reject
          /\ <<>> \in Seq(Messages)
      BY Zenon, MessageKinds, Alone, Nothing
    <2>3. l.toDaemon = <<Welcome>>
      BY Zenon, <2>1, <2>2
    <2>4. l.conn # "none"
      BY DEF LinkOK, NotDialled
    <2> QED BY Zenon, <2>1, <2>2, <2>3, <2>4, LinkFields DEF LinkOK
  <1>1. Same(l, m, {"toDaemon"}) /\ m.toDaemon = <<>>
    BY Zenon, <1>0 DEF LinkOK, Links, Same
  <1> HIDE DEF m
  <1>2. LinkOK(m)
    BY Zenon, <1>0, <1>1 DEF LinkOK, Same, Handshaking
  <1> QED BY Zenon, <1>0, <1>1, <1>2 DEF m

\* The threads of the link are started.
LEMMA StartedOK ==
    ASSUME NEW l, LinkOK(l), l.reader = "none", l.toDaemon = <<>>,
           l.conn \in {"serve", "closed"}
    PROVE  LET m == [l EXCEPT !.reader = "run", !.writer = "top"] IN
           /\ Same(l, m, {"reader", "writer"})
           /\ m.reader = "run" /\ m.writer = "top" /\ LinkOK(m)
  <1> DEFINE m == [l EXCEPT !.reader = "run", !.writer = "top"]
  <1>1. Same(l, m, {"reader", "writer"}) /\ m.reader = "run" /\ m.writer = "top"
    BY Zenon DEF LinkOK, Links, Same
  <1> HIDE DEF m
  <1>2. LinkOK(m)
    BY Zenon, <1>1, Nothing DEF LinkOK, Same, Handshaking, Heartbeats
  <1> QED BY Zenon, <1>1, <1>2 DEF m

\* The reader is up but the writer is not, or neither.
LEMMA HalfStartedOK ==
    ASSUME NEW l, LinkOK(l), l.reader = "none", l.toDaemon = <<>>,
           l.conn \in {"serve", "closed"}, NEW r \in {"done", "run"}
    PROVE  LET m == WriterDone([l EXCEPT !.reader = r]) IN
           /\ Same(l, m, {"reader", "writer", "rx", "queue", "next", "beating", "nonce"})
           /\ m.reader = r /\ m.writer = "done" /\ LinkOK(m)
  <1> DEFINE k == [l EXCEPT !.reader = r]
             m == WriterDone(k)
  <1>1. Same(l, k, {"reader"}) /\ k.reader = r
    BY Zenon DEF LinkOK, Links, Same
  <1> HIDE DEF k
  <1>2. /\ Same(k, m, {"writer", "rx", "queue", "next", "beating", "nonce"})
        /\ m.writer = "done" /\ m.queue = <<>>
    BY Zenon, <1>1, WriterDoneOK DEF Same
  <1> HIDE DEF m
  <1>3. /\ Same(l, m, {"reader", "writer", "rx", "queue", "next", "beating", "nonce"})
        /\ m.reader = r
    BY Zenon, <1>1, <1>2 DEF Same
  <1>4. LinkOK(m)
    BY <1>2, <1>3, Nothing, ForwardingBoundsValid DEF LinkOK, Same, Handshaking, Heartbeats
  <1> QED BY Zenon, <1>2, <1>3, <1>4 DEF m, k

\* Both halves are dropped: the handshake failed.
LEMMA DroppedOK ==
    ASSUME NEW l, LinkOK(l), l.conn # "none"
    PROVE  LET m == WriterDone(ReaderDone(l)) IN
           /\ Same(l, m, {"reader", "toDaemon", "nonce", "writer", "rx", "queue", "next",
                           "beating"})
           /\ m.reader = "done" /\ m.writer = "done" /\ LinkOK(m)
  <1> DEFINE k == ReaderDone(l)
             m == WriterDone(k)
  <1>1. Same(l, k, {"reader", "toDaemon", "nonce"}) /\ k.reader = "done" /\ k.toDaemon = <<>>
    BY Zenon, ReaderDoneOK
  <1> HIDE DEF k
  <1>2. /\ Same(k, m, {"writer", "rx", "queue", "next", "beating", "nonce"})
        /\ m.writer = "done" /\ m.queue = <<>>
    BY Zenon, <1>1, WriterDoneOK DEF Same
  <1> HIDE DEF m
  <1>3. /\ Same(l, m, {"reader", "toDaemon", "nonce", "writer", "rx", "queue", "next",
                        "beating"})
        /\ m.reader = "done" /\ m.toDaemon = <<>>
    BY Zenon, <1>1, <1>2 DEF Same
  <1>4. LinkOK(m)
    BY <1>2, <1>3, Nothing, ForwardingBoundsValid DEF LinkOK, Same
  <1> QED BY Zenon, <1>2, <1>3, <1>4 DEF m, k

\* The reader takes an acknowledgement, which matches.
LEMMA AckReadOK ==
    ASSUME NEW l, LinkOK(l), l.reader = "run", l.toDaemon # <<>>
    PROVE  LET match == Head(l.toDaemon).nonce = l.nonce
               m == [l EXCEPT !.toDaemon = Tail(@),
                              !.reader = IF match THEN "run" ELSE "disable",
                              !.nonce = IF match THEN 0 ELSE @] IN
           Same(l, m, {"toDaemon", "nonce"}) /\ LinkOK(m)
  <1> DEFINE match == Head(l.toDaemon).nonce = l.nonce
             t == Tail(l.toDaemon)
             r == IF match THEN "run" ELSE "disable"
             n == IF match THEN 0 ELSE l.nonce
             m == [l EXCEPT !.toDaemon = t, !.reader = r, !.nonce = n]
  <1>0. /\ l.toDaemon = <<Message("ack", l.nonce)>> /\ l.nonce \in 0 .. MaxBeats
        /\ l \in Links /\ NoBeat(l.toProxy) /\ <<>> \in Seq(Messages)
    BY Zenon, LinkFields, Nothing DEF LinkOK, Heartbeats
  <1>1. match /\ Tail(l.toDaemon) = <<>>
    <2> DEFINE a == Message("ack", l.nonce)
    <2>1. a \in Messages /\ a.nonce = l.nonce
      BY Zenon, <1>0, MessageKinds
    <2> HIDE DEF a
    <2>2. Head(<<a>>) = a /\ Tail(<<a>>) = <<>>
      BY Zenon, <2>1, Alone
    <2> QED BY Zenon, <1>0, <2>1, <2>2 DEF a
  <1>2. t = <<>> /\ r = "run" /\ n = 0
    BY Zenon, <1>1
  <1>6. /\ l \in Links /\ l.reader = r /\ r \in {"none", "run", "disable", "done"}
        /\ t \in Seq(Messages) /\ n \in 0 .. MaxBeats
    BY <1>0, <1>2, ForwardingBoundsValid
  <1>7. l.conn # "none"
    BY DEF LinkOK, NotDialled
  <1> HIDE DEF t, r, n
  <1>3. /\ Same(l, m, {"toDaemon", "nonce"}) /\ m.nonce = n /\ m.toDaemon = t
    BY Zenon, <1>6 DEF Links, Same
  <1> HIDE DEF m
  <1>4. OneBeat(l.toProxy, 0)
    BY Zenon, <1>0 DEF NoBeat, OneBeat
  <1>5. LinkOK(m)
    BY Zenon, <1>2, <1>3, <1>4, <1>7 DEF LinkOK, Same, Heartbeats
  <1> QED BY Zenon, <1>3, <1>5 DEF m, t, r, n

\* The reader breaks off.
LEMMA BrokenOK ==
    ASSUME NEW l, LinkOK(l), l.reader = "run"
    PROVE  LET m == [l EXCEPT !.reader = "disable"] IN
           Same(l, m, {"reader"}) /\ m.reader = "disable" /\ LinkOK(m)
  <1> DEFINE m == [l EXCEPT !.reader = "disable"]
  <1>0. l.conn # "none"
    BY DEF LinkOK, NotDialled
  <1>1. Same(l, m, {"reader"}) /\ m.reader = "disable"
    BY Zenon DEF LinkOK, Links, Same
  <1> HIDE DEF m
  <1>2. LinkOK(m)
    BY Zenon, <1>0, <1>1 DEF LinkOK, Same, Heartbeats
  <1> QED BY Zenon, <1>1, <1>2 DEF m

\* A loaded generation other than 0 is that of a connection.
LEMMA IsGeneration == \A g \in 0 .. MaxGen : g # 0 => g \in Generations
  BY ForwardingBoundsValid DEF Generations

\* A connection that has not been dialled.
LEMMA Undialled ==
    ASSUME NEW l, LinkOK(l), l.conn = "none"
    PROVE  l.reader = "none" /\ ~l.rx
  BY DEF LinkOK, NotDialled

\* A connection with a running writer.
LEMMA WriterRuns ==
    ASSUME NEW l, LinkOK(l), l.writer \in {"top", "recv"}
    PROVE  /\ l \in Links /\ l.reader # "none"
           /\ l.conn \in {"serve", "closed"} /\ l.toProxy \in Seq(Messages)
           /\ l.next \in 1 .. MaxBeats + 1 /\ l.queue \in Seq(Generations)
  <1>1. l \in Links /\ l.reader # "none" /\ l.conn \notin {"none", "backlog", "hello"}
    BY DEF LinkOK, NotDialled
  <1> QED BY Zenon, <1>1, LinkFields

\* The writer goes on, or gives up.
LEMMA MovedOK ==
    ASSUME NEW l, LinkOK(l), l.writer \in {"top", "recv"},
           NEW x \in {"top", "recv", "disable"}
    PROVE  LET m == [l EXCEPT !.writer = x] IN
           Same(l, m, {"writer"}) /\ m.writer = x /\ LinkOK(m)
  <1> DEFINE m == [l EXCEPT !.writer = x]
  <1>1. Same(l, m, {"writer"}) /\ m.writer = x
    BY Zenon DEF LinkOK, Links, Same
  <1> HIDE DEF m
  <1>2. LinkOK(m)
    BY Zenon, <1>1, WriterRuns DEF LinkOK, Same, Heartbeats
  <1> QED BY Zenon, <1>1, <1>2 DEF m

\* The writer learns that its heartbeat was acknowledged.
LEMMA CheckedOK ==
    ASSUME NEW l, LinkOK(l), l.writer = "top"
    PROVE  LET w == [l EXCEPT !.beating = @ /\ l.nonce # 0] IN
           Same(l, w, {"beating"}) /\ LinkOK(w)
  <1> DEFINE b == l.beating /\ l.nonce # 0
             w == [l EXCEPT !.beating = b]
  <1>0. l \in Links /\ b \in BOOLEAN
    BY Zenon DEF LinkOK
  <1>1. l.reader \in {"run", "disable"} /\ ~b => l.nonce = 0
    BY Zenon DEF LinkOK, Heartbeats
  <1> HIDE DEF b
  <1>2. Same(l, w, {"beating"}) /\ w.beating = b
    BY Zenon, <1>0 DEF Links, Same
  <1> HIDE DEF w
  <1>3. LinkOK(w)
    BY Zenon, <1>1, <1>2, WriterRuns DEF LinkOK, Same, Heartbeats
  <1> QED BY Zenon, <1>2, <1>3 DEF w, b

\* A heartbeat is written when none is on its way.
LEMMA BeatSentOK ==
    ASSUME NEW w, LinkOK(w), w.writer = "top", ~w.beating, w.next <= MaxBeats,
           w.conn # "closed"
    PROVE  LET m == Beat(w, TRUE) IN
           /\ Same(w, m, {"nonce", "next", "beating", "writer", "toProxy"})
           /\ m.writer = "top" /\ LinkOK(m)
  <1> DEFINE b == Message("beat", w.next)
             s == Append(w.toProxy, b)
             n == w.next + 1
             m == [w EXCEPT !.nonce = w.next, !.next = n, !.beating = TRUE,
                            !.writer = "top", !.toProxy = s]
  <1>0. /\ w \in Links /\ w.next \in 1 .. MaxBeats /\ w.next \in 0 .. MaxBeats
        /\ w.next # 0 /\ w.conn = "serve" /\ w.reader # "none"
        /\ w.toProxy \in Seq(Messages) /\ n \in 1 .. MaxBeats + 1
    BY WriterRuns, ForwardingBoundsValid
  <1>1. b \in Messages /\ b.nonce = w.next
    BY Zenon, <1>0, MessageKinds
  <1> HIDE DEF b
  <1>2. s \in Seq(Messages)
    BY Zenon, <1>0, <1>1, Appended
  <1>3. w.reader \in {"run", "disable"} => OneBeat(s, w.next) /\ w.toDaemon = <<>>
    <2>1. SUFFICES ASSUME w.reader \in {"run", "disable"}
                   PROVE  OneBeat(s, w.next) /\ w.toDaemon = <<>>
      OBVIOUS
    <2>2. OneBeat(w.toProxy, 0) /\ w.toDaemon = <<>>
      BY Zenon, <2>1 DEF LinkOK, Heartbeats
    <2> QED BY Zenon, <1>0, <1>1, <2>2, ZeroNoBeat, BeatWritten
  <1> HIDE DEF s, n
  <1>4. /\ Same(w, m, {"nonce", "next", "beating", "writer", "toProxy"})
        /\ m.nonce = w.next /\ m.beating = TRUE /\ m.writer = "top" /\ m.toProxy = s
    BY Zenon, <1>0, <1>2 DEF Links, Same
  <1>5. m = Beat(w, TRUE)
    BY Zenon DEF Beat, s, n, b
  <1> HIDE DEF m
  <1>6. LinkOK(m)
    BY Zenon, <1>0, <1>3, <1>4 DEF LinkOK, Same, Heartbeats
  <1> QED BY Zenon, <1>4, <1>5, <1>6

\* A heartbeat cannot be written: its nonce is stored all the same.
LEMMA BeatFailsOK ==
    ASSUME NEW w, LinkOK(w), w.writer = "top", ~w.beating, w.next <= MaxBeats
    PROVE  LET m == Beat(w, FALSE) IN
           /\ Same(w, m, {"nonce", "next", "beating", "writer"})
           /\ m.writer = "disable" /\ LinkOK(m)
  <1> DEFINE n == w.next + 1
             m == [w EXCEPT !.nonce = w.next, !.next = n, !.beating = FALSE,
                            !.writer = "disable", !.toProxy = w.toProxy]
  <1>0. /\ w \in Links /\ w.next \in 0 .. MaxBeats /\ w.toProxy \in Seq(Messages)
        /\ w.conn \in {"serve", "closed"} /\ w.reader # "none"
        /\ n \in 1 .. MaxBeats + 1
    BY WriterRuns, ForwardingBoundsValid
  <1>3. w.reader \in {"run", "disable"} => OneBeat(w.toProxy, w.next) /\ w.toDaemon = <<>>
    <2>1. SUFFICES ASSUME w.reader \in {"run", "disable"}
                   PROVE  OneBeat(w.toProxy, w.next) /\ w.toDaemon = <<>>
      OBVIOUS
    <2>2. OneBeat(w.toProxy, 0) /\ w.toDaemon = <<>>
      BY Zenon, <2>1 DEF LinkOK, Heartbeats
    <2> QED BY Zenon, <2>2 DEF OneBeat
  <1> HIDE DEF n
  <1>4. /\ Same(w, m, {"nonce", "next", "beating", "writer"})
        /\ m.nonce = w.next /\ m.writer = "disable"
    BY Zenon, <1>0 DEF Links, Same
  <1>5. m = Beat(w, FALSE)
    BY Zenon DEF Beat, n
  <1> HIDE DEF m
  <1>6. LinkOK(m)
    BY Zenon, <1>0, <1>3, <1>4 DEF LinkOK, Same, Heartbeats
  <1> QED BY Zenon, <1>4, <1>5, <1>6

\* The writer takes an alert from its queue, and loses it.
LEMMA TakenOK ==
    ASSUME NEW l, LinkOK(l), l.writer = "recv", l.queue # <<>>,
           NEW x \in {"top", "disable"}
    PROVE  LET m == [l EXCEPT !.writer = x, !.queue = Tail(@)] IN
           Same(l, m, {"writer", "queue"}) /\ m.writer = x /\ LinkOK(m)
  <1> DEFINE q == Tail(l.queue)
             m == [l EXCEPT !.writer = x, !.queue = q]
  <1>0. /\ l \in Links /\ l.reader # "none" /\ l.conn \in {"serve", "closed"}
        /\ l.queue \in Seq(Generations)
    BY Zenon, WriterRuns
  <1>1. q \in Seq(Generations) /\ Len(q) = Len(l.queue) - 1 /\ Len(l.queue) \in Nat
    BY Zenon, <1>0, TailOf
  <1>2. Len(q) <= QueueCap
    BY <1>1, ForwardingBoundsValid DEF LinkOK
  <1> HIDE DEF q
  <1>3. Same(l, m, {"writer", "queue"}) /\ m.writer = x /\ m.queue = q
    BY Zenon, <1>0, <1>1 DEF Links, Same
  <1> HIDE DEF m
  <1>4. LinkOK(m)
    BY Zenon, <1>0, <1>2, <1>3 DEF LinkOK, Same, Heartbeats
  <1> QED BY Zenon, <1>3, <1>4 DEF m, q

\* The writer writes an alert.
LEMMA WrittenOK ==
    ASSUME NEW l, LinkOK(l), l.writer = "recv", l.queue # <<>>, l.conn # "closed"
    PROVE  LET m == [l EXCEPT !.writer = "top", !.queue = Tail(@),
                              !.toProxy = Append(@, Alert)] IN
           /\ Same(l, m, {"writer", "queue", "toProxy"})
           /\ m.writer = "top" /\ LinkOK(m)
  <1> DEFINE q == Tail(l.queue)
             s == Append(l.toProxy, Alert)
             m == [l EXCEPT !.writer = "top", !.queue = q, !.toProxy = s]
  <1>0. /\ l \in Links /\ l.reader # "none" /\ l.conn = "serve"
        /\ l.queue \in Seq(Generations) /\ l.toProxy \in Seq(Messages)
        /\ Alert \in Messages /\ Alert.kind # "beat"
    BY Zenon, WriterRuns, MessageKinds
  <1>1. q \in Seq(Generations) /\ Len(q) = Len(l.queue) - 1 /\ Len(l.queue) \in Nat
    BY Zenon, <1>0, TailOf
  <1>2. Len(q) <= QueueCap
    BY <1>1, ForwardingBoundsValid DEF LinkOK
  <1>3. s \in Seq(Messages)
    BY Zenon, <1>0, Appended
  <1>4. /\ OneBeat(l.toProxy, l.nonce) => OneBeat(s, l.nonce)
        /\ NoBeat(l.toProxy) => NoBeat(s)
    BY Zenon, <1>0, BeatWritten
  <1> HIDE DEF q, s
  <1>5. /\ Same(l, m, {"writer", "queue", "toProxy"})
        /\ m.writer = "top" /\ m.queue = q /\ m.toProxy = s
    BY Zenon, <1>0, <1>1, <1>3 DEF Links, Same
  <1> HIDE DEF m
  <1>6. LinkOK(m)
    BY Zenon, <1>0, <1>2, <1>4, <1>5 DEF LinkOK, Same, Heartbeats
  <1> QED BY Zenon, <1>5, <1>6 DEF m, q, s

\* The proxy accepts the connection.
LEMMA AcceptedOK ==
    ASSUME NEW l, LinkOK(l), l.conn = "backlog"
    PROVE  LET m == [l EXCEPT !.conn = "hello"] IN
           Same(l, m, {"conn"}) /\ m.conn = "hello" /\ LinkOK(m)
  <1> DEFINE m == [l EXCEPT !.conn = "hello"]
  <1>1. Same(l, m, {"conn"}) /\ m.conn = "hello"
    BY Zenon DEF LinkOK, Links, Same
  <1> HIDE DEF m
  <1>2. LinkOK(m)
    BY Zenon, <1>1 DEF LinkOK, Same, Handshaking
  <1> QED BY Zenon, <1>1, <1>2 DEF m

\* The proxy sends a message to a daemon that may have gone.
LEMMA SentFields ==
    ASSUME NEW l \in Links, NEW x \in Messages
    PROVE  /\ Same(l, Sent(l, x), {"toDaemon"})
           /\ l.reader = "done" => Sent(l, x) = l
           /\ l.reader # "done" => Sent(l, x).toDaemon = Append(l.toDaemon, x)
  <1>1. CASE l.reader = "done"
    BY Zenon, <1>1 DEF Sent, Same
  <1>2. CASE l.reader # "done"
    <2> DEFINE s == Append(l.toDaemon, x)
    <2>1. s \in Seq(Messages)
      BY Zenon, LinkFields, Appended
    <2> HIDE DEF s
    <2>2. Sent(l, x) = [l EXCEPT !.toDaemon = s]
      BY Zenon, <1>2 DEF Sent, s
    <2>3. Same(l, Sent(l, x), {"toDaemon"}) /\ Sent(l, x).toDaemon = s
      BY Zenon, <2>1, <2>2 DEF Links, Same
    <2> QED BY Zenon, <1>2, <2>3 DEF s
  <1> QED BY Zenon, <1>1, <1>2

\* A connection whose hello has been read.
LEMMA HelloRead ==
    ASSUME NEW l, LinkOK(l), l.conn = "hello"
    PROVE  /\ l \in Links /\ l.toProxy = <<Hello>> /\ Tail(l.toProxy) = <<>>
           /\ l.toDaemon = <<>> /\ l.reader \in {"none", "done"}
           /\ l.reader = "none" => l.writer = "none" /\ Handshaking(l)
           /\ l.reader = "done" => l.writer = "done"
           /\ \A x \in Messages : Append(l.toDaemon, x) = <<x>>
  <1>1. l.toProxy = <<Hello>> /\ l.toDaemon = <<>>
    BY Zenon DEF LinkOK
  <1>2. Tail(<<Hello>>) = <<>> /\ \A x \in Messages : Append(<<>>, x) = <<x>>
    BY Zenon, MessageKinds, Alone
  <1> QED BY Zenon, <1>1, <1>2 DEF LinkOK

\* The proxy gives the connection the slot, and a welcome.
LEMMA WelcomedOK ==
    ASSUME NEW l, LinkOK(l), l.conn = "hello"
    PROVE  LET m == [Sent(l, Welcome) EXCEPT !.toProxy = Tail(@), !.conn = "serve"] IN
           /\ Same(l, m, {"toDaemon", "toProxy", "conn"})
           /\ m.toProxy = <<>> /\ m.conn = "serve" /\ LinkOK(m)
           /\ m.toDaemon = IF l.reader = "done" THEN <<>> ELSE <<Welcome>>
  <1> DEFINE k == Sent(l, Welcome)
             s == Tail(k.toProxy)
             m == [k EXCEPT !.toProxy = s, !.conn = "serve"]
  <1>1. Welcome \in Messages
    BY Zenon, MessageKinds
  <1>2. /\ Same(l, k, {"toDaemon"})
        /\ k.toDaemon = IF l.reader = "done" THEN <<>> ELSE <<Welcome>>
    BY Zenon, <1>1, HelloRead, SentFields
  <1> HIDE DEF k
  <1>3. k \in Links /\ s = <<>> /\ s \in Seq(Messages)
    BY Zenon, <1>2, HelloRead, Nothing DEF Same
  <1> HIDE DEF s
  <1>4. Same(k, m, {"toProxy", "conn"}) /\ m.toProxy = s /\ m.conn = "serve"
    BY Zenon, <1>3 DEF Links, Same
  <1> HIDE DEF m
  <1>5. /\ Same(l, m, {"toDaemon", "toProxy", "conn"}) /\ m.toProxy = <<>>
        /\ m.conn = "serve" /\ m.toDaemon = k.toDaemon
    BY Zenon, <1>2, <1>3, <1>4 DEF Same
  <1>6. LinkOK(m)
    BY Zenon, <1>2, <1>5, HelloRead DEF LinkOK, Same, Handshaking
  <1> QED BY Zenon, <1>2, <1>5, <1>6 DEF m, s, k

\* The proxy rejects the connection and closes it.
LEMMA RejectedOK ==
    ASSUME NEW l, LinkOK(l), l.conn = "hello"
    PROVE  LET m == Closed(Sent(l, Reject)) IN
           /\ Same(l, m, {"toDaemon", "toProxy", "conn"})
           /\ m.toProxy = <<>> /\ m.conn = "closed" /\ LinkOK(m)
           /\ m.toDaemon \in {<<>>, <<Reject>>}
  <1> DEFINE k == Sent(l, Reject)
             m == [k EXCEPT !.conn = "closed", !.toProxy = <<>>]
  <1>1. Reject \in Messages
    BY Zenon, MessageKinds
  <1>2. /\ Same(l, k, {"toDaemon"})
        /\ k.toDaemon = IF l.reader = "done" THEN <<>> ELSE <<Reject>>
    BY Zenon, <1>1, HelloRead, SentFields
  <1> HIDE DEF k
  <1>4. Same(k, m, {"toProxy", "conn"}) /\ m.toProxy = <<>> /\ m.conn = "closed"
    BY Zenon, <1>2, Nothing DEF Links, Same
  <1> HIDE DEF m
  <1>5. /\ Same(l, m, {"toDaemon", "toProxy", "conn"}) /\ m.toDaemon = k.toDaemon
    BY Zenon, <1>2, <1>4 DEF Same
  <1>6. LinkOK(m)
    BY Zenon, <1>2, <1>4, <1>5, HelloRead DEF LinkOK, Same, Handshaking
  <1> QED BY Zenon, <1>2, <1>4, <1>5, <1>6 DEF m, k, Closed

\* The proxy reads an alert.
LEMMA AlertServedOK ==
    ASSUME NEW l, LinkOK(l), l.conn = "serve", l.toProxy # <<>>
    PROVE  LET m == [l EXCEPT !.toProxy = Tail(@)] IN
           Same(l, m, {"toProxy"}) /\ l.reader # "none" /\ LinkOK(m)
  <1> DEFINE s == Tail(l.toProxy)
             m == [l EXCEPT !.toProxy = s]
  <1>0. l \in Links /\ l.reader # "none" /\ l.toProxy \in Seq(Messages)
    BY Zenon, LinkFields DEF LinkOK, Handshaking
  <1>1. s \in Seq(Messages)
    BY Zenon, <1>0, TailOf
  <1>2. \A n : OneBeat(l.toProxy, n) =>
           OneBeat(s, n) /\ (NoBeat(l.toProxy) => NoBeat(s))
    BY Zenon, <1>0, BeatRead
  <1> HIDE DEF s
  <1>3. Same(l, m, {"toProxy"}) /\ m.toProxy = s
    BY Zenon, <1>0, <1>1 DEF Links, Same
  <1> HIDE DEF m
  <1>4. LinkOK(m)
    BY Zenon, <1>0, <1>2, <1>3 DEF LinkOK, Same, Heartbeats
  <1> QED BY Zenon, <1>0, <1>3, <1>4 DEF m, s

\* The proxy acknowledges a heartbeat.
LEMMA BeatServedOK ==
    ASSUME NEW l, LinkOK(l), l.conn = "serve", l.toProxy # <<>>,
           Head(l.toProxy).kind = "beat"
    PROVE  LET x == Message("ack", Head(l.toProxy).nonce)
               m == [Sent(l, x) EXCEPT !.toProxy = Tail(@)] IN
           /\ Same(l, m, {"toProxy", "toDaemon"}) /\ l.reader # "none" /\ LinkOK(m)
  <1> DEFINE x == Message("ack", Head(l.toProxy).nonce)
             k == Sent(l, x)
             s == Tail(k.toProxy)
             m == [k EXCEPT !.toProxy = s]
  <1>0. l \in Links /\ l.reader # "none" /\ l.toProxy \in Seq(Messages)
    BY Zenon, LinkFields DEF LinkOK, Handshaking
  <1>1. /\ Head(l.toProxy).nonce \in 0 .. MaxBeats /\ x \in Messages
        /\ Tail(l.toProxy) \in Seq(Messages)
    <2>1. Head(l.toProxy) \in Messages /\ Tail(l.toProxy) \in Seq(Messages)
      BY Zenon, <1>0, TailOf
    <2>2. Head(l.toProxy).nonce \in 0 .. MaxBeats
      BY Zenon, <2>1 DEF Messages
    <2> QED BY Zenon, <2>1, <2>2, MessageKinds
  <1>2. l.reader \in {"run", "disable"} =>
          /\ OneBeat(Tail(l.toProxy), l.nonce) /\ NoBeat(Tail(l.toProxy))
          /\ x = Message("ack", l.nonce) /\ l.nonce # 0
          /\ l.toDaemon = <<>>
    <2>1. SUFFICES ASSUME l.reader \in {"run", "disable"} PROVE
             /\ OneBeat(Tail(l.toProxy), l.nonce) /\ NoBeat(Tail(l.toProxy))
             /\ Head(l.toProxy).nonce = l.nonce /\ l.nonce # 0
             /\ l.toDaemon = <<>>
      OBVIOUS
    <2>2. Heartbeats(l)
      BY Zenon, <2>1 DEF LinkOK
    <2>3. /\ OneBeat(Tail(l.toProxy), l.nonce) /\ NoBeat(Tail(l.toProxy))
          /\ Head(l.toProxy).nonce = l.nonce /\ l.nonce # 0
      BY Zenon, <1>0, <2>2, BeatRead DEF Heartbeats
    <2>4. ~NoBeat(l.toProxy)
      <3>1. Head(l.toProxy) = l.toProxy[1] /\ 1 \in 1 .. Len(l.toProxy)
        BY <1>0, TailOf
      <3> QED BY Zenon, <3>1 DEF NoBeat
    <2> QED BY Zenon, <2>2, <2>3, <2>4 DEF Heartbeats
  <1>3. \A y \in Messages : Append(<<>>, y) = <<y>>
    BY Zenon, Alone
  <1> HIDE DEF x
  <1>4. /\ Same(l, k, {"toDaemon"})
        /\ l.reader \in {"run", "disable"} => k.toDaemon = <<x>>
    BY Zenon, <1>0, <1>1, <1>2, <1>3, SentFields
  <1> HIDE DEF k
  <1>5. k \in Links /\ s = Tail(l.toProxy)
    BY Zenon, <1>4 DEF Same
  <1> HIDE DEF s
  <1>6. Same(k, m, {"toProxy"}) /\ m.toProxy = s
    BY Zenon, <1>1, <1>5 DEF Links, Same
  <1> HIDE DEF m
  <1>7. /\ Same(l, m, {"toProxy", "toDaemon"}) /\ m.toProxy = Tail(l.toProxy)
        /\ m.toDaemon = k.toDaemon
    BY Zenon, <1>4, <1>5, <1>6 DEF Same
  <1>8. LinkOK(m)
    BY Zenon, <1>0, <1>2, <1>4, <1>7 DEF LinkOK, Same, Heartbeats
  <1> QED BY Zenon, <1>0, <1>7, <1>8 DEF m, s, k, x

-----------------------------------------------------------------------------
(* The threads of a link and the publishers.                               *)

\* One connection changes.
LEMMA OneLink ==
    ASSUME LinksOK, NEW g \in Generations, NEW m, LinkOK(m),
           link' = [link EXCEPT ![g] = m]
    PROVE  /\ LinksOK' /\ LinkOK(link[g])
           /\ link'[g] = m /\ \A h \in Generations \ {g} : link'[h] = link[h]
  <1>1. link'[g] = m /\ \A h \in Generations \ {g} : link'[h] = link[h]
    BY Zenon DEF LinksOK
  <1>2. link' \in [Generations -> Links]
    BY Zenon DEF LinksOK, LinkOK
  <1>3. \A h \in Generations : LinkOK(link'[h])
    BY Zenon, <1>1 DEF LinksOK
  <1> QED BY Zenon, <1>1, <1>2, <1>3 DEF LinksOK

\* What a link thread or a publisher may do to its connection: it starts
\* nothing, does not touch the proxy's end, and writes only while the proxy has
\* not closed.
Quietly(l, m) ==
    /\ m.conn = l.conn
    /\ m.reader = "none" <=> l.reader = "none"
    /\ m.reader = "run" => l.reader = "run"
    /\ m.writer \in {"top", "recv"} => l.writer \in {"top", "recv"}
    /\ l.reader = "none" => m.toDaemon = l.toDaemon
    /\ m.toProxy = l.toProxy \/ (l.writer \in {"top", "recv"} /\ l.conn # "closed")

\* The connection that is being dialled is the latest, and has no threads yet.
LEMMA LatestDialled ==
    ASSUME Types, DaemonInv, DialInv, daemon.pc \in Dialled
    PROVE  /\ latest \in Generations /\ daemon.gen = latest
           /\ link[latest].reader = "none" /\ link[latest].conn # "none"
  <1>1. latest \in Generations /\ daemon.gen = latest /\ latest <= latest /\ ~(latest > latest)
    BY DEF Types, DaemonInv, Generations
  <1> QED BY Zenon, <1>1 DEF DialInv

\* Such a step keeps what relates the connections to each other.
LEMMA ThreadKeeps ==
    ASSUME IInv,
           NEW g \in Generations, NEW m, LinkOK(m), link' = [link EXCEPT ![g] = m],
           Quietly(link[g], m), UNCHANGED <<latest, newest, daemon, slot>>
    PROVE  /\ LinksOK' /\ DialInv' /\ SlotInv' /\ SilentInv'
           /\ active' = active => LateEndHarmless'
  <1> USE DEF IInv
  <1>1. /\ LinksOK' /\ link'[g] = m
        /\ \A h \in Generations \ {g} : link'[h] = link[h]
    BY Zenon, OneLink
  <1>2. \A h \in Generations : Quietly(link[h], link'[h])
    BY Zenon, <1>1 DEF Quietly
  <1> HIDE DEF Quietly
  <1>3. daemon.pc \in Dialled =>
          latest \in Generations /\ link'[latest].toDaemon = link[latest].toDaemon
    BY Zenon, <1>2, LatestDialled DEF Quietly
  <1>4. DialInv'
    <2>1. \A h \in Generations : /\ link'[h].conn = link[h].conn
                                 /\ link'[h].reader = "none" <=> link[h].reader = "none"
      BY Zenon, <1>2 DEF Quietly
    <2>2. daemon.pc \in {"activate", "startLink"} => daemon.pc \in Dialled
      BY Zenon DEF Dialled
    <2>3. daemon.pc = "failing" =>
            latest \in Generations /\ link'[latest].writer \notin {"top", "recv"}
      <3>1. daemon.pc = "failing" => latest \in Generations
        BY DEF DaemonInv, Types, Generations
      <3> QED BY Zenon, <1>2, <3>1 DEF Quietly, DialInv
    <2> QED BY Zenon, <1>3, <2>1, <2>2, <2>3 DEF DialInv
  <1>5. active' = active => LateEndHarmless'
    BY Zenon, <1>2 DEF LateEndHarmless, Quietly
  <1>6. SlotInv'
    BY <1>2 DEF SlotInv, Quietly
  <1>7. \A h \in Generations : Mute(h) => Mute(h)'
    BY Zenon, <1>2 DEF Mute, Quietly
  <1>8. Welcoming' => Welcoming
    BY Zenon, <1>3 DEF Welcoming, Dialled
  <1>9. SilentInv'
    BY Zenon, <1>7, <1>8 DEF SilentInv
  <1> QED BY Zenon, <1>1, <1>4, <1>5, <1>6, <1>9

\* A step that leaves flags, publishers, the daemon thread and the proxy alone.
LEMMA StateStays ==
    ASSUME Types, DaemonInv,
           UNCHANGED <<active, requested, effective, latest, pub, daemon>>,
           UNCHANGED <<proxy, slot, broadcast, newest, late>>
    PROVE  Types' /\ DaemonInv'
  <1>1. Types'
    BY Zenon DEF Types
  <1>2. FlagsAgree'
    BY Zenon DEF DaemonInv, FlagsAgree
  <1>3. DaemonInv'
    BY Zenon, <1>2 DEF DaemonInv
  <1> QED BY Zenon, <1>1, <1>3

\* A step of a link thread keeps the invariant.
LEMMA LinkOnlyKeeps ==
    ASSUME IInv, NEW g \in Generations, NEW m, LinkOK(m),
           link' = [link EXCEPT ![g] = m], Quietly(link[g], m), LinkOnly
    PROVE  IInv'
  <1> USE DEF IInv
  <1>1. /\ UNCHANGED <<active, requested, effective, latest, pub, daemon>>
        /\ UNCHANGED <<proxy, slot, broadcast, newest, late>>
    BY Zenon DEF LinkOnly, pluginVars, proxyVars, history
  <1>2. Types' /\ DaemonInv'
    BY Zenon, <1>1, StateStays
  <1>3. LinksOK' /\ DialInv' /\ LateEndHarmless' /\ SlotInv' /\ SilentInv'
    BY Zenon, <1>1, ThreadKeeps
  <1> QED BY Zenon, <1>2, <1>3

\* The reader's steps keep it: every acknowledgement it finds matches.
LEMMA ReaderKeeps ==
    ASSUME IInv, NEW g \in Generations, ReaderReads(g) \/ ReaderBreaks(g)
    PROVE  IInv'
  <1> DEFINE l == link[g]
  <1>0. LinkOK(l) /\ l.reader = "run" /\ LinkOnly
    BY Zenon DEF IInv, LinksOK, ReaderReads, ReaderBreaks
  <1>1. CASE ReaderReads(g)
    <2> DEFINE match == Head(l.toDaemon).nonce = l.nonce
               m == [l EXCEPT !.toDaemon = Tail(@),
                              !.reader = IF match THEN "run" ELSE "disable",
                              !.nonce = IF match THEN 0 ELSE @]
    <2>1. link' = [link EXCEPT ![g] = m] /\ l.toDaemon # <<>>
      BY <1>1, Zenon DEF ReaderReads
    <2>2. Same(l, m, {"toDaemon", "nonce"}) /\ LinkOK(m)
      BY Zenon, <1>0, <2>1, AckReadOK
    <2> HIDE DEF m
    <2>3. Quietly(l, m)
      BY Zenon, <1>0, <2>2 DEF Quietly, Same
    <2> QED BY Zenon, <1>0, <2>1, <2>2, <2>3, LinkOnlyKeeps
  <1>2. CASE ReaderBreaks(g)
    <2> DEFINE m == [l EXCEPT !.reader = "disable"]
    <2>1. link' = [link EXCEPT ![g] = m]
      BY <1>2, Zenon DEF ReaderBreaks
    <2>2. Same(l, m, {"reader"}) /\ m.reader = "disable" /\ LinkOK(m)
      BY Zenon, <1>0, BrokenOK
    <2> HIDE DEF m
    <2>3. Quietly(l, m)
      BY Zenon, <1>0, <2>2 DEF Quietly, Same
    <2> QED BY Zenon, <1>0, <2>1, <2>2, <2>3, LinkOnlyKeeps
  <1> QED BY Zenon, <1>1, <1>2

\* The top of the writer's loop keeps it.
LEMMA WriterTopKeeps ==
    ASSUME IInv, NEW g \in Generations, WriterTop(g)
    PROVE  IInv'
  <1> DEFINE l == link[g]
             w == [l EXCEPT !.beating = @ /\ l.nonce # 0]
  <1>0. LinkOK(l) /\ LinkOnly /\ w.writer = "top"
    BY Zenon DEF IInv, LinksOK, WriterTop
  <1>1. l.writer = "top"
    BY Zenon, <1>0 DEF LinkOK, Links
  <1>2. Same(l, w, {"beating"}) /\ LinkOK(w)
    BY Zenon, <1>0, <1>1, CheckedOK
  <1>3. \/ \E x \in {"disable", "recv"} : link' = [link EXCEPT ![g] = [w EXCEPT !.writer = x]]
        \/ /\ ~w.beating /\ w.next <= MaxBeats
           /\ \/ l.conn # "closed" /\ link' = [link EXCEPT ![g] = Beat(w, TRUE)]
              \/ link' = [link EXCEPT ![g] = Beat(w, FALSE)]
    BY Zenon DEF WriterTop, ConnClosed
  <1> HIDE DEF w
  <1>4. CASE \E x \in {"disable", "recv"} : link' = [link EXCEPT ![g] = [w EXCEPT !.writer = x]]
    <2>1. PICK x \in {"disable", "recv"} : link' = [link EXCEPT ![g] = [w EXCEPT !.writer = x]]
      BY Zenon, <1>4
    <2> DEFINE m == [w EXCEPT !.writer = x]
    <2>2. Same(w, m, {"writer"}) /\ LinkOK(m)
      BY Zenon, <1>0, <1>2, MovedOK
    <2> HIDE DEF m
    <2>3. Quietly(l, m)
      BY Zenon, <1>1, <1>2, <2>2 DEF Quietly, Same
    <2>4. link' = [link EXCEPT ![g] = m]
      BY Zenon, <2>1 DEF m
    <2> QED BY Zenon, <1>0, <2>2, <2>3, <2>4, LinkOnlyKeeps
  <1>5. CASE /\ ~w.beating /\ w.next <= MaxBeats /\ l.conn # "closed"
             /\ link' = [link EXCEPT ![g] = Beat(w, TRUE)]
    <2> DEFINE m == Beat(w, TRUE)
    <2>1. w.conn # "closed"
      BY Zenon, <1>2, <1>5 DEF Same
    <2>2. /\ Same(w, m, {"nonce", "next", "beating", "writer", "toProxy"})
          /\ m.writer = "top" /\ LinkOK(m)
      BY Zenon, <1>0, <1>2, <1>5, <2>1, BeatSentOK
    <2> HIDE DEF m
    <2>3. Quietly(l, m)
      BY Zenon, <1>1, <1>2, <1>5, <2>2 DEF Quietly, Same
    <2>4. link' = [link EXCEPT ![g] = m]
      BY Zenon, <1>5 DEF m
    <2> QED BY Zenon, <1>0, <2>2, <2>3, <2>4, LinkOnlyKeeps
  <1>6. CASE /\ ~w.beating /\ w.next <= MaxBeats
             /\ link' = [link EXCEPT ![g] = Beat(w, FALSE)]
    <2> DEFINE m == Beat(w, FALSE)
    <2>2. Same(w, m, {"nonce", "next", "beating", "writer"}) /\ LinkOK(m)
      BY Zenon, <1>0, <1>2, <1>6, BeatFailsOK
    <2> HIDE DEF m
    <2>3. Quietly(l, m)
      BY Zenon, <1>1, <1>2, <2>2 DEF Quietly, Same
    <2>4. link' = [link EXCEPT ![g] = m]
      BY Zenon, <1>6 DEF m
    <2> QED BY Zenon, <1>0, <2>2, <2>3, <2>4, LinkOnlyKeeps
  <1> QED BY Zenon, <1>3, <1>4, <1>5, <1>6

\* recv_timeout of the writer keeps it.
LEMMA WriterReceivesKeeps ==
    ASSUME IInv, NEW g \in Generations, WriterReceives(g)
    PROVE  IInv'
  <1> DEFINE l == link[g]
  <1>0. LinkOK(l) /\ LinkOnly /\ l.writer = "recv"
    BY Zenon DEF IInv, LinksOK, WriterReceives
  <1>1. \/ /\ l.queue # <<>> /\ l.conn # "closed"
           /\ link' = [link EXCEPT ![g] = [l EXCEPT !.writer = "top", !.queue = Tail(@),
                                                    !.toProxy = Append(@, Alert)]]
        \/ /\ l.queue # <<>>
           /\ \E x \in {"top", "disable"} :
                 link' = [link EXCEPT ![g] = [l EXCEPT !.writer = x, !.queue = Tail(@)]]
        \/ link' = [link EXCEPT ![g] = [l EXCEPT !.writer = "top"]]
    BY Zenon DEF WriterReceives, ConnClosed
  <1>2. CASE /\ l.queue # <<>> /\ l.conn # "closed"
             /\ link' = [link EXCEPT ![g] = [l EXCEPT !.writer = "top", !.queue = Tail(@),
                                                      !.toProxy = Append(@, Alert)]]
    <2> DEFINE m == [l EXCEPT !.writer = "top", !.queue = Tail(@),
                              !.toProxy = Append(@, Alert)]
    <2>1. Same(l, m, {"writer", "queue", "toProxy"}) /\ LinkOK(m)
      BY Zenon, <1>0, <1>2, WrittenOK
    <2> HIDE DEF m
    <2>2. Quietly(l, m)
      BY Zenon, <1>0, <1>2, <2>1 DEF Quietly, Same
    <2>3. link' = [link EXCEPT ![g] = m]
      BY Zenon, <1>2 DEF m
    <2> QED BY Zenon, <1>0, <2>1, <2>2, <2>3, LinkOnlyKeeps
  <1>3. CASE /\ l.queue # <<>>
             /\ \E x \in {"top", "disable"} :
                   link' = [link EXCEPT ![g] = [l EXCEPT !.writer = x, !.queue = Tail(@)]]
    <2>0. PICK x \in {"top", "disable"} :
             link' = [link EXCEPT ![g] = [l EXCEPT !.writer = x, !.queue = Tail(@)]]
      BY Zenon, <1>3
    <2> DEFINE m == [l EXCEPT !.writer = x, !.queue = Tail(@)]
    <2>1. Same(l, m, {"writer", "queue"}) /\ LinkOK(m)
      BY Zenon, <1>0, <1>3, TakenOK
    <2> HIDE DEF m
    <2>2. Quietly(l, m)
      BY Zenon, <1>0, <2>1 DEF Quietly, Same
    <2>3. link' = [link EXCEPT ![g] = m]
      BY Zenon, <2>0 DEF m
    <2> QED BY Zenon, <1>0, <2>1, <2>2, <2>3, LinkOnlyKeeps
  <1>4. CASE link' = [link EXCEPT ![g] = [l EXCEPT !.writer = "top"]]
    <2> DEFINE m == [l EXCEPT !.writer = "top"]
    <2>1. Same(l, m, {"writer"}) /\ LinkOK(m)
      BY Zenon, <1>0, MovedOK
    <2> HIDE DEF m
    <2>2. Quietly(l, m)
      BY Zenon, <1>0, <2>1 DEF Quietly, Same
    <2>3. link' = [link EXCEPT ![g] = m]
      BY Zenon, <1>4 DEF m
    <2> QED BY Zenon, <1>0, <2>1, <2>2, <2>3, LinkOnlyKeeps
  <1> QED BY Zenon, <1>1, <1>2, <1>3, <1>4

\* What relates the connections stays when none of it changes.
LEMMA LinksStay ==
    ASSUME IInv, UNCHANGED <<link, active, latest, newest, daemon, slot>>
    PROVE  LinksOK' /\ DialInv' /\ LateEndHarmless' /\ SlotInv' /\ SilentInv'
  BY Zenon DEF IInv, LinksOK, DialInv, LateEndHarmless, SlotInv, SilentInv, Mute, Welcoming

\* What try_publish does to the publisher itself.
LEMMA PublisherMoves ==
    ASSUME Types, DaemonInv, NEW p \in Publishers,
           NEW x \in Publishing, x.pc = "send" => x.gen # 0, pub' = [pub EXCEPT ![p] = x]
    PROVE  /\ pub' \in [Publishers -> Publishing]
           /\ \A q \in Publishers : pub'[q].pc = "send" => pub'[q].gen # 0
  BY Zenon DEF Types, DaemonInv

\* try_publish keeps the invariant: what it clears late is counted as late.
LEMMA PublishKeeps ==
    ASSUME IInv, NEW p \in Publishers, Publish(p)
    PROVE  IInv'
  <1> USE DEF IInv
  <1>0. /\ pub[p] \in Publishing /\ active \in 0 .. MaxGen
        /\ pub[p].pc \in {"send", "check"} => pub[p].gen \in 0 .. MaxGen
        /\ Quiet \in Publishing /\ Quiet.pc = "idle"
    BY ForwardingBoundsValid DEF Types, Publishing, Quiet
  <1>1. \E x : /\ x \in Publishing /\ (x.pc = "send" => x.gen # 0)
               /\ pub' = [pub EXCEPT ![p] = x]
    <2>1. CASE PublishBegin(p)
      <3> DEFINE x == [pub[p] EXCEPT !.pc = "load"]
      <3>1. x \in Publishing /\ x.pc # "send"
        BY Zenon, <1>0 DEF Publishing
      <3>2. pub' = [pub EXCEPT ![p] = x]
        BY <2>1, Zenon DEF PublishBegin
      <3> QED BY Zenon, <3>1, <3>2
    <2>2. CASE PublishLoad(p)
      <3> DEFINE x == [pc |-> IF active = 0 THEN "clear" ELSE "send", gen |-> active]
      <3>1. x \in Publishing /\ x.pc = "send" => x.gen # 0
        BY Zenon, <1>0 DEF Publishing
      <3>2. pub' = [pub EXCEPT ![p] = x]
        BY <2>2, Zenon DEF PublishLoad
      <3>3. x \in Publishing
        BY Zenon, <1>0 DEF Publishing
      <3> QED BY Zenon, <3>1, <3>2, <3>3
    <2>3. CASE PublishSend(p)
      <3> DEFINE y == [pc |-> "check", gen |-> pub[p].gen]
                 x == IF link[pub[p].gen].rx THEN Quiet ELSE y
      <3>1. pub' = [pub EXCEPT ![p] = x]
        BY <2>3, Zenon DEF PublishSend
      <3>2. y \in Publishing /\ y.pc # "send"
        BY Zenon, <1>0, <2>3 DEF PublishSend, Publishing
      <3> HIDE DEF y
      <3>3. x \in Publishing /\ x.pc # "send"
        BY Zenon, <1>0, <3>2
      <3> QED BY Zenon, <3>1, <3>3
    <2>4. CASE PublishCheck(p)
      <3> DEFINE y == [pc |-> "clear", gen |-> 0]
                 x == IF active = pub[p].gen THEN y ELSE Quiet
      <3>1. pub' = [pub EXCEPT ![p] = x]
        BY <2>4, Zenon DEF PublishCheck
      <3>2. y \in Publishing /\ y.pc # "send"
        BY ForwardingBoundsValid DEF Publishing
      <3> HIDE DEF y
      <3>3. x \in Publishing /\ x.pc # "send"
        BY Zenon, <1>0, <3>2
      <3> QED BY Zenon, <3>1, <3>3
    <2>5. CASE PublishClear(p)
      <3>1. pub' = [pub EXCEPT ![p] = Quiet]
        BY <2>5, Zenon DEF PublishClear
      <3> QED BY Zenon, <1>0, <3>1
    <2> QED BY Zenon, <2>1, <2>2, <2>3, <2>4, <2>5 DEF Publish
  <1>2. /\ pub' \in [Publishers -> Publishing]
        /\ \A q \in Publishers : pub'[q].pc = "send" => pub'[q].gen # 0
    BY Zenon, <1>1, PublisherMoves
  <1>3. /\ UNCHANGED <<active, requested, latest, daemon, newest, slot, proxy, broadcast>>
        /\ \/ UNCHANGED <<effective, late>>
           \/ effective' = FALSE /\ late' = (late \/ active # 0)
    BY Zenon DEF Publish, PublishBegin, PublishLoad, PublishSend, PublishCheck, PublishClear,
       pluginVars, proxyVars, history
  <1>4. Types'
    BY Zenon, <1>2, <1>3 DEF Types
  <1>5. FlagsAgree'
    <2>1. FlagsAgree /\ effective \in BOOLEAN /\ late \in BOOLEAN /\ requested \in BOOLEAN
      BY Zenon DEF DaemonInv, Types
    <2>3. CASE UNCHANGED <<effective, late>>
      BY Zenon, <1>3, <2>1, <2>3 DEF FlagsAgree
    <2>4. CASE effective' = FALSE /\ late' = (late \/ active # 0)
      BY Zenon, <1>3, <2>1, <2>4 DEF FlagsAgree
    <2> QED BY Zenon, <1>3, <2>3, <2>4
  <1>6. DaemonInv'
    BY Zenon, <1>2, <1>3, <1>5 DEF DaemonInv, Idle, Stopped, At
  <1>7. LinksOK' /\ DialInv' /\ LateEndHarmless' /\ SlotInv' /\ SilentInv'
    <2>1. CASE UNCHANGED link
      BY Zenon, <1>3, <2>1, LinksStay
    <2>2. CASE PublishSend(p) /\ link' # link
      <3> DEFINE g == pub[p].gen
                 l == link[g]
                 q == Append(l.queue, g)
                 m == Queued(l, q)
      <3>1. /\ g \in Generations /\ l.rx /\ Len(l.queue) < QueueCap
            /\ link' = [link EXCEPT ![g] = m]
        <4>1. l.rx /\ Len(l.queue) < QueueCap /\ link' = [link EXCEPT ![g] = m]
          BY <2>2, Zenon DEF PublishSend, Queued
        <4>2. g # 0 /\ g \in 0 .. MaxGen
          <5>1. pub[p].pc = "send"
            BY Zenon, <2>2 DEF PublishSend
          <5> QED BY Zenon, <1>0, <5>1 DEF DaemonInv
        <4> QED BY Zenon, <4>1, <4>2, IsGeneration
      <3>2. LinkOK(l) /\ l \in Links /\ l.conn # "none"
        <4>1. LinkOK(l)
          BY Zenon, <3>1 DEF LinksOK
        <4>2. l \in Links
          BY Zenon, <4>1 DEF LinkOK
        <4> QED BY Zenon, <3>1, <4>1, <4>2, Undialled
      <3>3. q \in Seq(Generations) /\ Len(q) <= QueueCap
        <4>1. l.queue \in Seq(Generations)
          BY Zenon, <3>2, LinkFields
        <4>2. q \in Seq(Generations) /\ Len(q) = Len(l.queue) + 1 /\ Len(l.queue) \in Nat
          BY <3>1, <4>1, Appended
        <4> QED BY <3>1, <4>2, ForwardingBoundsValid
      <3> HIDE DEF q
      <3>4. LinkOK(m) /\ Same(l, m, {"queue"})
        BY Zenon, <3>2, <3>3, QueuedOK
      <3> HIDE DEF m
      <3>5. Quietly(l, m)
        BY Zenon, <3>4 DEF Quietly, Same
      <3> QED BY Zenon, <1>3, <3>1, <3>4, <3>5, ThreadKeeps
    <2> QED BY Zenon, <2>1, <2>2
          DEF Publish, PublishBegin, PublishLoad, PublishSend, PublishCheck, PublishClear
  <1> QED BY Zenon, <1>4, <1>6, <1>7

\* What disable_if_generation does to the flags, whoever calls it.
LEMMA DisableFlags ==
    ASSUME Types, DaemonInv, NEW g \in Generations, NEW by,
           DisableIfGeneration(by, g), daemon.pc = "startLink" => active # g,
           daemon' = daemon \/ (daemon.pc = "failing" /\ Failed)
    PROVE  Types' /\ DaemonInv'
  <1>0. /\ UNCHANGED <<latest, newest, pub, slot, proxy, broadcast>>
        /\ \/ UNCHANGED <<active, requested, effective, late>>
           \/ /\ active = g /\ active' = 0 /\ effective' = FALSE /\ requested' = FALSE
              /\ late' = FALSE
    BY Zenon DEF DisableIfGeneration, proxyVars
  <1>1. /\ Idle \in Daemons /\ Idle.pc = "idle" /\ Idle.goal = "none"
        /\ Stopped \in Daemons /\ Stopped.pc = "stopped" /\ Stopped.goal = "none"
    BY ForwardingBoundsValid DEF Idle, Stopped, At, Daemons
  <1>2. \/ daemon' = daemon
        \/ /\ daemon.pc = "failing"
           /\ daemon' = Stopped \/ (daemon' = Idle /\ daemon.goal # "start")
    BY Zenon DEF Failed
  <1>3. Types'
    <2>1. daemon' \in Daemons
      BY Zenon, <1>1, <1>2 DEF Types
    <2>2. 0 \in 0 .. MaxGen
      BY ForwardingBoundsValid
    <2>3. {active', latest', newest'} \subseteq 0 .. MaxGen
      BY Zenon, <1>0, <2>2 DEF Types
    <2>4. {requested', effective', slot', late'} \subseteq BOOLEAN
      BY Zenon, <1>0 DEF Types
    <2> QED BY Zenon, <1>0, <2>1, <2>3, <2>4 DEF Types
  <1>4. daemon.pc = "failing" => daemon # Stopped
    BY Zenon, <1>1
  <1>5. FlagsAgree'
    BY <1>0, <1>1, <1>2, <1>4 DEF Types, DaemonInv, FlagsAgree
  <1>6. DaemonInv'
    <2>1. CASE daemon' = daemon
      BY Zenon, <1>0, <1>5, <2>1 DEF DaemonInv
    <2>2. CASE daemon' \in {Stopped, Idle}
      BY Zenon, <1>0, <1>1, <1>5, <2>2 DEF DaemonInv, Dialling, Dialled
    <2> QED BY Zenon, <1>2, <2>1, <2>2
  <1> QED BY Zenon, <1>3, <1>6

\* disable_if_generation of a link thread: its end costs the link that is active
\* only when that is its own.
LEMMA LinkDisableKeeps ==
    ASSUME IInv, NEW g \in Generations, NEW by \in {"reader", "writer"},
           DisableIfGeneration(by, g)
    PROVE  IInv'
  <1> USE DEF IInv
  <1> DEFINE l == link[g]
             m == IF by = "reader" THEN ReaderDone(l) ELSE WriterDone(l)
  <1>0. LinkOK(l) /\ l \in Links
    BY Zenon DEF LinksOK, LinkOK
  <1>1. /\ daemon' = daemon /\ UNCHANGED <<latest, newest, slot>>
        /\ link' = [link EXCEPT ![g] = m]
        /\ IF by = "reader" THEN l.reader = "disable" ELSE l.writer = "disable"
        /\ active' = active \/ active = g
    <2>1. CASE by = "reader"
      BY <2>1, Zenon DEF DisableIfGeneration, Disabling, Ended, proxyVars
    <2>2. CASE by = "writer"
      BY <2>2, Zenon DEF DisableIfGeneration, Disabling, Ended, proxyVars
    <2> QED BY Zenon, <2>1, <2>2
  <1>2. l.reader # "none" /\ l.writer # "none"
    BY Zenon, <1>0, <1>1 DEF LinkOK
  <1>3. LinkOK(m) /\ Quietly(l, m) /\ (m.reader = "done" \/ m.writer = "done")
    <2>1. CASE by = "reader"
      <3>1. /\ Same(l, m, {"reader", "toDaemon", "nonce"})
            /\ m.reader = "done" /\ LinkOK(m)
        BY Zenon, <1>0, <1>2, <2>1, ReaderDoneOK
      <3> HIDE DEF m
      <3> QED BY Zenon, <1>2, <3>1 DEF Quietly, Same
    <2>2. CASE by = "writer"
      <3>1. /\ Same(l, m, {"writer", "rx", "queue", "next", "beating", "nonce"})
            /\ m.writer = "done" /\ LinkOK(m)
        BY Zenon, <1>0, <1>2, <2>2, WriterDoneOK
      <3> HIDE DEF m
      <3> QED BY Zenon, <1>2, <3>1 DEF Quietly, Same
    <2> QED BY Zenon, <2>1, <2>2
  <1> HIDE DEF m
  <1>4. /\ LinksOK' /\ DialInv' /\ SlotInv' /\ SilentInv'
        /\ active' = active => LateEndHarmless'
    BY Zenon, <1>1, <1>3, ThreadKeeps
  <1>5. LateEndHarmless'
    <2>1. CASE active' = active
      BY Zenon, <1>4, <2>1
    <2>2. CASE active = g
      <3>1. g = newest
        BY <2>2 DEF DaemonInv, Generations
      <3>2. link'[g] = m
        BY Zenon, <1>1, <1>3, OneLink
      <3> QED BY Zenon, <1>1, <1>3, <3>1, <3>2 DEF LateEndHarmless
    <2> QED BY Zenon, <1>1, <2>1, <2>2
  <1>6. daemon.pc = "startLink" => active # g
    BY Zenon, <1>2, LatestDialled DEF DaemonInv, Dialled
  <1> QED BY Zenon, <1>1, <1>4, <1>5, <1>6, DisableFlags

\* disable_if_generation of the daemon thread, after a link that did not start.
LEMMA DaemonDisableKeeps ==
    ASSUME IInv, DisableIfGeneration("daemon", daemon.gen)
    PROVE  IInv'
  <1> USE DEF IInv
  <1> DEFINE g == daemon.gen
  <1>1. /\ daemon.pc = "failing" /\ Failed /\ UNCHANGED <<link, latest, newest, slot>>
        /\ active' = active \/ active = g
    BY Zenon DEF DisableIfGeneration, Disabling, Ended, Failed, proxyVars
  <1>2. g = latest /\ g \in Generations
    BY <1>1 DEF DaemonInv, Types, Generations
  <1>3. Types' /\ DaemonInv'
    BY Zenon, <1>1, <1>2, DisableFlags
  <1>4. daemon'.pc \in {"idle", "stopped"}
    BY Zenon, <1>1 DEF Failed, Idle, Stopped, At
  <1>5. DialInv'
    BY Zenon, <1>1, <1>4 DEF DialInv, Dialled
  <1>6. LateEndHarmless'
    <2>1. daemon # Stopped
      BY <1>1 DEF Stopped, At
    <2>2. CASE active' = active
      BY Zenon, <1>1, <2>1, <2>2 DEF LateEndHarmless
    <2>3. CASE active = g
      BY Zenon, <1>1, <1>2, <2>3 DEF LateEndHarmless, DialInv, DaemonInv, Generations
    <2> QED BY Zenon, <1>1, <2>2, <2>3
  <1>7. LinksOK' /\ SlotInv' /\ SilentInv'
    BY Zenon, <1>1, <1>4 DEF LinksOK, SlotInv, SilentInv, Mute, Welcoming
  <1> QED BY Zenon, <1>3, <1>5, <1>6, <1>7

-----------------------------------------------------------------------------
(* The daemon thread.                                                      *)

\* The daemon thread at rest and stopped.
LEMMA DaemonRests ==
    /\ Idle \in Daemons /\ Idle.pc = "idle" /\ Idle.goal = "none"
    /\ Stopped \in Daemons /\ Stopped.pc = "stopped" /\ Stopped.goal = "none"
    /\ Idle # Stopped
  BY ForwardingBoundsValid DEF Idle, Stopped, At, Daemons

\* The daemon thread goes on to another step with the same goal.
LEMMA DaemonGoesOn ==
    ASSUME daemon \in Daemons,
           NEW x \in {"failing", "apply"} \cup Dialling \cup Dialled
    PROVE  LET d == [daemon EXCEPT !.pc = x] IN
           /\ d \in Daemons /\ d.pc = x /\ d.goal = daemon.goal /\ d.gen = daemon.gen
           /\ d # Idle /\ d # Stopped
  BY Zenon, DaemonRests DEF Daemons, Dialling, Dialled

\* Connections and slot stay, and the daemon thread is not at a connection: what
\* relates the connections stays.
LEMMA AwayFromLinks ==
    ASSUME IInv, UNCHANGED <<link, latest, newest, slot, active>>,
           daemon.pc \notin Dialled, daemon'.pc \notin Dialled \cup {"failing"},
           daemon # Stopped
    PROVE  LinksOK' /\ DialInv' /\ LateEndHarmless' /\ SlotInv' /\ SilentInv'
  <1> USE DEF IInv
  <1>1. LinksOK' /\ SlotInv' /\ LateEndHarmless'
    BY Zenon DEF LinksOK, SlotInv, LateEndHarmless
  <1>2. DialInv'
    BY Zenon DEF DialInv, Dialled
  <1>3. SilentInv'
    BY Zenon DEF SilentInv, Mute, Welcoming, Dialled
  <1> QED BY Zenon, <1>1, <1>2, <1>3

\* update_config keeps the invariant.
LEMMA UpdateConfigKeeps ==
    ASSUME IInv, NEW on \in BOOLEAN, UpdateConfig(on)
    PROVE  IInv'
  <1> USE DEF IInv
  <1> DEFINE d == At(IF on /\ active = 0 THEN "ensure" ELSE "apply",
                     IF on THEN "on" ELSE "off", 0)
  <1>0. /\ daemon = Idle /\ daemon' = d /\ (on /\ active = 0 => latest < MaxGen)
        /\ UNCHANGED <<active, requested, effective, latest, pub, link>>
        /\ UNCHANGED <<proxy, slot, broadcast, newest, late>>
    BY Zenon DEF UpdateConfig, pluginVars, proxyVars, history
  <1>1. /\ d \in Daemons /\ d.goal \in {"on", "off"}
        /\ d.pc = IF on /\ active = 0 THEN "ensure" ELSE "apply"
        /\ d # Stopped
    BY ForwardingBoundsValid, DaemonRests DEF At, Daemons, Dialling
  <1> HIDE DEF d
  <1>2. Types'
    BY Zenon, <1>0, <1>1 DEF Types
  <1>3. FlagsAgree'
    BY Zenon, <1>0, <1>1, DaemonRests DEF DaemonInv, FlagsAgree
  <1>4. DaemonInv'
    BY Zenon, <1>0, <1>1, <1>3, DaemonRests DEF DaemonInv, Dialling, Dialled
  <1>5. LinksOK' /\ DialInv' /\ LateEndHarmless' /\ SlotInv' /\ SilentInv'
    BY Zenon, <1>0, <1>1, DaemonRests, AwayFromLinks DEF Dialled
  <1> QED BY Zenon, <1>2, <1>4, <1>5

\* Applying a configuration keeps it.
LEMMA ApplyKeeps ==
    ASSUME IInv, Apply
    PROVE  IInv'
  <1> USE DEF IInv
  <1>0. /\ daemon.pc = "apply" /\ daemon' = Idle
        /\ \/ /\ Wanted => active # 0
              /\ requested' = Wanted /\ effective' = Wanted /\ late' = FALSE
           \/ UNCHANGED <<requested, effective, late>>
        /\ UNCHANGED <<active, latest, pub, link, proxy, slot, broadcast, newest>>
    BY Zenon DEF Apply, proxyVars
  <1>1. daemon.goal \in {"on", "off"} /\ daemon # Stopped /\ Wanted \in BOOLEAN
    BY Zenon, <1>0, DaemonRests DEF DaemonInv, Wanted
  <1>2. Types'
    BY Zenon, <1>0, <1>1, DaemonRests DEF Types
  <1>3. FlagsAgree'
    <2>1. FlagsAgree /\ {requested, effective, late} \subseteq BOOLEAN
      BY Zenon DEF DaemonInv, Types
    <2> QED BY <1>0, <1>1, <2>1, DaemonRests DEF FlagsAgree
  <1>4. DaemonInv'
    BY Zenon, <1>0, <1>3, DaemonRests DEF DaemonInv, Dialling, Dialled
  <1>5. LinksOK' /\ DialInv' /\ LateEndHarmless' /\ SlotInv' /\ SilentInv'
    BY Zenon, <1>0, <1>1, DaemonRests, AwayFromLinks DEF Dialled
  <1> QED BY Zenon, <1>2, <1>4, <1>5

\* shutdown keeps it.
LEMMA ShutdownKeeps ==
    ASSUME IInv, Shutdown
    PROVE  IInv'
  <1> USE DEF IInv
  <1>0. /\ daemon = Idle /\ daemon' = Stopped
        /\ active' = 0 /\ effective' = FALSE /\ late' = FALSE
        /\ UNCHANGED <<requested, latest, pub, link, proxy, slot, broadcast, newest>>
    BY Zenon DEF Shutdown, proxyVars
  <1>1. 0 \in 0 .. MaxGen
    BY ForwardingBoundsValid
  <1>2. Types'
    BY Zenon, <1>0, <1>1, DaemonRests DEF Types
  <1>3. DaemonInv'
    BY Zenon, <1>0, DaemonRests DEF DaemonInv, FlagsAgree, Dialling, Dialled
  <1>4. LinksOK' /\ SlotInv' /\ LateEndHarmless'
    BY Zenon, <1>0 DEF LinksOK, SlotInv, LateEndHarmless
  <1>5. DialInv' /\ SilentInv'
    BY Zenon, <1>0, DaemonRests DEF DialInv, SilentInv, Mute, Welcoming, Dialled
  <1> QED BY Zenon, <1>2, <1>3, <1>4, <1>5

\* Activation keeps it: the old connections are mute by then.
LEMMA ActivateKeeps ==
    ASSUME IInv, Activate
    PROVE  IInv'
  <1> USE DEF IInv
  <1> DEFINE d == [daemon EXCEPT !.pc = "startLink"]
  <1>0. /\ daemon.pc = "activate" /\ daemon' = d
        /\ active' = daemon.gen /\ newest' = daemon.gen /\ late' = FALSE
        /\ effective' = requested
        /\ UNCHANGED <<requested, latest, pub, link, proxy, slot, broadcast>>
    BY Zenon DEF Activate, proxyVars
  <1>1. /\ d \in Daemons /\ d.pc = "startLink" /\ d.goal = daemon.goal
        /\ d.gen = daemon.gen /\ d # Stopped
    BY Zenon, DaemonGoesOn DEF Types, Dialled
  <1> HIDE DEF d
  <1>2. /\ latest \in Generations /\ daemon.gen = latest /\ latest # 0
        /\ link[latest].reader = "none"
    BY Zenon, <1>0, LatestDialled DEF Dialled, DaemonInv
  <1>3. Types'
    BY Zenon, <1>0, <1>1, <1>2 DEF Types
  <1>4. FlagsAgree'
    BY Zenon, <1>0, <1>2 DEF FlagsAgree
  <1>5. DaemonInv'
    <2>1. latest <= latest
      BY <1>2 DEF Generations
    <2> QED BY Zenon, <1>0, <1>1, <1>2, <1>4, <2>1 DEF DaemonInv, Dialling, Dialled
  <1>6. LinksOK' /\ SlotInv' /\ LateEndHarmless'
    BY Zenon, <1>0, <1>2 DEF LinksOK, SlotInv, LateEndHarmless
  <1>7. DialInv'
    BY Zenon, <1>0, <1>1 DEF DialInv, Dialled
  <1>8. SilentInv'
    BY Zenon, <1>0, <1>1, <1>2 DEF SilentInv, Mute, Welcoming
  <1> QED BY Zenon, <1>3, <1>5, <1>6, <1>7, <1>8

\* The daemon thread gives up connecting: at the start it stops, and otherwise
\* the flags are as they were.
LEMMA FailedKeeps ==
    ASSUME Types, DaemonInv, daemon.pc \in Dialling \cup {"handshake"}, Failed,
           UNCHANGED <<active, requested, effective, latest, pub, newest, late>>
    PROVE  /\ DaemonInv' /\ daemon' \in Daemons /\ daemon # Stopped
           /\ daemon'.pc \in {"idle", "stopped"}
  <1>1. daemon' = Stopped \/ (daemon' = Idle /\ daemon.goal # "start")
    BY Zenon DEF Failed
  <1>2. daemon # Stopped
    BY Zenon, DaemonRests DEF Dialling
  <1>3. FlagsAgree'
    BY Zenon, <1>1, <1>2, DaemonRests DEF DaemonInv, FlagsAgree
  <1>4. DaemonInv'
    BY Zenon, <1>1, <1>3, DaemonRests DEF DaemonInv, Dialling, Dialled
  <1> QED BY Zenon, <1>1, <1>2, <1>4, DaemonRests

\* connect takes the next generation, and its connection is a fresh one.
LEMMA DialKeeps ==
    ASSUME IInv, Dial, daemon.pc \in Dialling,
           UNCHANGED <<active, requested, effective, pub, slot, proxy, broadcast, newest, late>>
    PROVE  IInv'
  <1> USE DEF IInv
  <1> DEFINE g == latest + 1
             m == [link[g] EXCEPT !.rx = TRUE, !.toProxy = <<Hello>>, !.conn = "backlog"]
             d == [daemon EXCEPT !.pc = "handshake", !.gen = g]
  <1>0. /\ latest < MaxGen /\ latest \in 0 .. MaxGen /\ active = 0 /\ newest <= latest
        /\ newest \in 0 .. MaxGen
    BY Zenon DEF DaemonInv, Types
  <1>1. g \in Generations /\ g # 0 /\ g \in 0 .. MaxGen /\ g > latest /\ newest <= g
        /\ newest # g
    BY <1>0, ForwardingBoundsValid DEF Generations
  <1>2. latest' = g /\ daemon' = d /\ link' = [link EXCEPT ![g] = m]
    BY Zenon DEF Dial
  <1>3. link[g].conn = "none" /\ link[g] = NotDialled
    BY Zenon, <1>1 DEF DialInv, LinksOK, LinkOK
  <1>4. Same(link[g], m, {"rx", "toProxy", "conn"}) /\ m.conn = "backlog" /\ LinkOK(m)
    BY Zenon, <1>3, DialOK
  <1>5. m.reader = "none" /\ m.writer = "none" /\ m.toDaemon = <<>>
    BY <1>3, <1>4 DEF Same, NotDialled
  <1>6. /\ d \in Daemons /\ d.pc = "handshake" /\ d.gen = g /\ d.goal = daemon.goal
        /\ daemon # Stopped /\ d # Stopped
    BY Zenon, <1>1, DaemonRests DEF Types, Daemons, Dialling, Dialled
  <1> HIDE DEF m, d
  <1>7. LinksOK' /\ link'[g] = m /\ \A h \in Generations \ {g} : link'[h] = link[h]
    BY Zenon, <1>1, <1>2, <1>4, OneLink
  <1>8. \A h \in Generations : (h <= g <=> h <= latest \/ h = g) /\ (h > g <=> h > latest /\ h # g)
    BY <1>0, <1>1 DEF Generations
  <1> HIDE DEF g
  <1>9. Types'
    BY Zenon, <1>1, <1>2, <1>6 DEF Types
  <1>10. FlagsAgree'
    BY Zenon, <1>2, <1>6 DEF DaemonInv, FlagsAgree
  <1>11. DaemonInv'
    BY Zenon, <1>0, <1>1, <1>2, <1>6, <1>10 DEF DaemonInv, Dialling, Dialled, Idle, At
  <1>12. DialInv'
    <2>1. daemon.pc \notin Dialled
      BY Zenon DEF Dialling, Dialled
    <2>2. \A h \in Generations : h > latest => link[h].reader = "none" /\ link[h].conn = "none"
      BY Zenon, Undialled DEF DialInv, LinksOK
    <2>3. \A h \in Generations :
             /\ link'[h].conn = "none" <=> h > g
             /\ h <= g => (link'[h].reader = "none" <=> h = g)
      BY Zenon, <1>4, <1>5, <1>7, <1>8, <2>1 DEF DialInv
    <2> QED BY Zenon, <1>2, <1>6, <2>3 DEF DialInv, Dialled
  <1>13. LateEndHarmless'
    BY Zenon, <1>2, <1>5, <1>6, <1>7 DEF LateEndHarmless
  <1>14. SlotInv'
    BY Zenon, <1>4, <1>7 DEF SlotInv
  <1>15. SilentInv'
    <2>1. \A h \in Generations : (h = g \/ Mute(h)) => Mute(h)'
      BY Zenon, <1>4, <1>5, <1>7 DEF Mute
    <2>2. ~Welcoming'
      <3>1. <<Welcome>> # <<>>
        OBVIOUS
      <3> QED BY Zenon, <1>1, <1>2, <1>5, <1>6, <1>7, <3>1 DEF Welcoming
    <2> QED BY Zenon, <2>1, <2>2 DEF SilentInv
  <1> QED BY Zenon, <1>7, <1>9, <1>11, <1>12, <1>13, <1>14, <1>15

\* ensure_connected and wait_for_proxy keep the invariant.
LEMMA ConnectKeeps ==
    ASSUME IInv, EnsureConnected \/ WaitForProxy
    PROVE  IInv'
  <1> USE DEF IInv
  <1>0. /\ daemon.pc \in Dialling /\ daemon.pc \notin Dialled /\ daemon # Stopped
        /\ UNCHANGED <<active, requested, effective, pub, slot, broadcast, newest, late>>
        /\ proxy' = proxy \/ (proxy = "down" /\ proxy' = "booting")
        /\ \/ Dial /\ UNCHANGED proxy
           \/ daemon' = [daemon EXCEPT !.pc = "waitProxy"] /\ UNCHANGED <<latest, link>>
           \/ Failed /\ UNCHANGED <<latest, link>>
    BY Zenon, DaemonRests DEF EnsureConnected, WaitForProxy, proxyVars, history, Dialling, Dialled
  <1>1. CASE Dial /\ UNCHANGED proxy
    BY Zenon, <1>0, <1>1, DialKeeps
  <1>2. CASE daemon' = [daemon EXCEPT !.pc = "waitProxy"] /\ UNCHANGED <<latest, link>>
    <2> DEFINE d == [daemon EXCEPT !.pc = "waitProxy"]
    <2>1. /\ d \in Daemons /\ d.pc = "waitProxy" /\ d.goal = daemon.goal
          /\ d # Stopped
      BY Zenon, DaemonGoesOn DEF Types, Dialling
    <2>2. daemon' = d
      BY Zenon, <1>2
    <2> HIDE DEF d
    <2>3. Types'
      BY Zenon, <1>0, <1>2, <2>1, <2>2 DEF Types
    <2>4. FlagsAgree'
      BY Zenon, <1>0, <1>2, <2>1, <2>2 DEF DaemonInv, FlagsAgree
    <2>5. DaemonInv'
      BY Zenon, <1>0, <1>2, <2>1, <2>2, <2>4 DEF DaemonInv, Dialling, Dialled
    <2>6. LinksOK' /\ DialInv' /\ LateEndHarmless' /\ SlotInv' /\ SilentInv'
      BY Zenon, <1>0, <1>2, <2>1, <2>2, AwayFromLinks DEF Dialled
    <2> QED BY Zenon, <2>3, <2>5, <2>6
  <1>3. CASE Failed /\ UNCHANGED <<latest, link>>
    <2>1. /\ DaemonInv' /\ daemon' \in Daemons
          /\ daemon'.pc \in {"idle", "stopped"}
      BY Zenon, <1>0, <1>3, FailedKeeps
    <2>2. Types'
      BY Zenon, <1>0, <1>3, <2>1 DEF Types
    <2>3. LinksOK' /\ DialInv' /\ LateEndHarmless' /\ SlotInv' /\ SilentInv'
      BY Zenon, <1>0, <1>3, <2>1, AwayFromLinks DEF Dialled
    <2> QED BY Zenon, <2>1, <2>2, <2>3
  <1> QED BY Zenon, <1>0, <1>1, <1>2, <1>3

\* The answer to the hello keeps it: with its welcome a connection has the slot,
\* and the threads of all others have lost their streams.
LEMMA HandshakeKeeps ==
    ASSUME IInv, Handshake
    PROVE  IInv'
  <1> USE DEF IInv
  <1> DEFINE g == daemon.gen
             l == link[g]
  <1>0. /\ daemon.pc = "handshake"
        /\ UNCHANGED <<active, requested, effective, latest, pub, newest, late>>
        /\ UNCHANGED <<proxy, slot, broadcast>>
        /\ \/ /\ l.toDaemon # <<>> /\ Head(l.toDaemon) = Welcome
              /\ link' = [link EXCEPT ![g] = [l EXCEPT !.toDaemon = Tail(@)]]
              /\ daemon' = [daemon EXCEPT !.pc = "activate"]
           \/ link' = [link EXCEPT ![g] = WriterDone(ReaderDone(l))] /\ Failed
    BY Zenon DEF Handshake, pluginVars, proxyVars, history
  <1>1. /\ g \in Generations /\ g = latest /\ l.reader = "none" /\ l.conn # "none"
        /\ LinkOK(l) /\ g <= latest
    BY <1>0, LatestDialled DEF Dialled, LinksOK, Generations
  <1>2. l.writer = "none"
    BY Zenon, <1>1 DEF LinkOK
  <1>3. daemon # Stopped
    BY Zenon, <1>0, DaemonRests
  <1>4. CASE /\ l.toDaemon # <<>> /\ Head(l.toDaemon) = Welcome
             /\ link' = [link EXCEPT ![g] = [l EXCEPT !.toDaemon = Tail(@)]]
             /\ daemon' = [daemon EXCEPT !.pc = "activate"]
    <2> DEFINE m == [l EXCEPT !.toDaemon = Tail(@)]
               d == [daemon EXCEPT !.pc = "activate"]
    <2>1. /\ Same(l, m, {"toDaemon"}) /\ m.toDaemon = <<>> /\ LinkOK(m)
          /\ l.toDaemon = <<Welcome>> /\ l.conn \in {"serve", "closed"}
      BY Zenon, <1>1, <1>4, WelcomeReadOK
    <2>2. /\ d \in Daemons /\ d.pc = "activate" /\ d.goal = daemon.goal
          /\ d.gen = daemon.gen /\ d # Stopped
      BY Zenon, DaemonGoesOn DEF Types, Dialled
    <2>3. daemon' = d /\ link' = [link EXCEPT ![g] = m]
      BY Zenon, <1>4
    <2> HIDE DEF m, d
    <2>4. LinksOK' /\ link'[g] = m /\ \A h \in Generations \ {g} : link'[h] = link[h]
      BY Zenon, <1>1, <2>1, <2>3, OneLink
    <2>5. \A h \in Generations :
             /\ link'[h].conn = link[h].conn /\ link'[h].reader = link[h].reader
             /\ link'[h].writer = link[h].writer /\ link'[h].toProxy = link[h].toProxy
      BY Zenon, <2>1, <2>4 DEF Same
    <2>6. Types'
      BY Zenon, <1>0, <2>2, <2>3 DEF Types
    <2>7. FlagsAgree'
      BY Zenon, <1>0, <1>3, <2>2, <2>3 DEF DaemonInv, FlagsAgree
    <2>8. DaemonInv'
      BY Zenon, <1>0, <2>2, <2>3, <2>7 DEF DaemonInv, Dialling, Dialled
    <2>9. DialInv'
      BY <1>0, <1>1, <2>1, <2>2, <2>3, <2>4, <2>5 DEF DialInv, Dialled
    <2>10. LateEndHarmless' /\ SlotInv'
      BY <1>0, <1>3, <2>5 DEF LateEndHarmless, SlotInv
    <2>11. SilentInv'
      <3>1. \A h \in Generations : Mute(h) => Mute(h)'
        BY Zenon, <2>5 DEF Mute
      <3>2. Welcoming
        BY Zenon, <1>0, <1>1, <2>1 DEF Welcoming
      <3> QED BY Zenon, <1>0, <3>1, <3>2 DEF SilentInv
    <2> QED BY Zenon, <2>4, <2>6, <2>8, <2>9, <2>10, <2>11
  <1>5. CASE link' = [link EXCEPT ![g] = WriterDone(ReaderDone(l))] /\ Failed
    <2> DEFINE m == WriterDone(ReaderDone(l))
    <2>1. /\ Same(l, m, {"reader", "toDaemon", "nonce", "writer", "rx", "queue", "next",
                          "beating"})
          /\ m.reader = "done" /\ m.writer = "done" /\ LinkOK(m)
      BY Zenon, <1>1, DroppedOK
    <2>2. link' = [link EXCEPT ![g] = m]
      BY Zenon, <1>5
    <2> HIDE DEF m
    <2>3. LinksOK' /\ link'[g] = m /\ \A h \in Generations \ {g} : link'[h] = link[h]
      BY Zenon, <1>1, <2>1, <2>2, OneLink
    <2>4. /\ DaemonInv' /\ daemon' \in Daemons
          /\ daemon'.pc \in {"idle", "stopped"}
      BY Zenon, <1>0, <1>5, FailedKeeps
    <2>5. Types'
      BY Zenon, <1>0, <2>4 DEF Types
    <2>6. m.conn = l.conn /\ m.toProxy = l.toProxy
      BY Zenon, <2>1 DEF Same
    <2>7. DialInv'
      <3>1. \A h \in Generations : link'[h].conn = link[h].conn
        BY Zenon, <2>3, <2>6
      <3>2. \A h \in Generations : h <= latest => link'[h].reader # "none"
        BY Zenon, <1>1, <2>1, <2>3 DEF DialInv
      <3> QED BY Zenon, <1>0, <2>4, <3>1, <3>2 DEF DialInv, Dialled
    <2>8. LateEndHarmless' /\ SlotInv'
      BY <1>0, <1>3, <2>1, <2>3, <2>6 DEF LateEndHarmless, SlotInv
    <2>9. SilentInv'
      <3>1. \A h \in Generations : Mute(h) => Mute(h)'
        BY Zenon, <2>1, <2>3, <2>6 DEF Mute
      <3> QED BY Zenon, <1>0, <2>4, <3>1 DEF SilentInv, Welcoming
    <2> QED BY Zenon, <2>3, <2>4, <2>5, <2>7, <2>8, <2>9
  <1> QED BY Zenon, <1>0, <1>4, <1>5

\* link.start keeps it.
LEMMA StartLinkKeeps ==
    ASSUME IInv, StartLink
    PROVE  IInv'
  <1> USE DEF IInv
  <1> DEFINE g == daemon.gen
             l == link[g]
  <1>0. /\ daemon.pc = "startLink"
        /\ UNCHANGED <<active, requested, effective, latest, pub, newest, late>>
        /\ UNCHANGED <<proxy, slot, broadcast>>
        /\ \/ /\ link' = [link EXCEPT ![g] = [l EXCEPT !.reader = "run", !.writer = "top"]]
              /\ daemon' = IF daemon.goal = "start" THEN Idle
                           ELSE [daemon EXCEPT !.pc = "apply"]
           \/ /\ \E r \in {"done", "run"} :
                    link' = [link EXCEPT ![g] = WriterDone([l EXCEPT !.reader = r])]
              /\ daemon' = [daemon EXCEPT !.pc = "failing"]
    BY Zenon DEF StartLink, pluginVars, proxyVars, history
  <1>1. /\ g \in Generations /\ g = latest /\ l.reader = "none" /\ l.conn # "none"
        /\ LinkOK(l) /\ g <= latest /\ g # 0
    BY <1>0, LatestDialled DEF Dialled, LinksOK, Generations
  <1>2. /\ active = g /\ newest = g /\ daemon # Stopped
        /\ l.toDaemon = <<>> /\ l.conn \in {"serve", "closed"}
    BY Zenon, <1>0, <1>1, DaemonRests DEF DaemonInv, DialInv
  <1>3. l.toProxy = <<>>
    BY Zenon, <1>1, <1>2 DEF LinkOK, Handshaking
  <1>4. \E m, d :
           /\ LinkOK(m) /\ m.conn = l.conn /\ m.toProxy = <<>> /\ m.reader # "none"
           /\ link' = [link EXCEPT ![g] = m]
           /\ daemon' = d /\ d \in Daemons
           /\ \/ d = Idle
              \/ /\ d.goal = daemon.goal /\ d.pc = "apply" /\ d.goal # "start"
                 /\ d # Stopped
              \/ /\ d.goal = daemon.goal /\ d.gen = g /\ d.pc = "failing"
                 /\ m.writer = "done" /\ d # Stopped
    <2>1. CASE /\ link' = [link EXCEPT ![g] = [l EXCEPT !.reader = "run", !.writer = "top"]]
               /\ daemon' = IF daemon.goal = "start" THEN Idle
                            ELSE [daemon EXCEPT !.pc = "apply"]
      <3> DEFINE m == [l EXCEPT !.reader = "run", !.writer = "top"]
                 e == [daemon EXCEPT !.pc = "apply"]
                 d == IF daemon.goal = "start" THEN Idle ELSE e
      <3>1. Same(l, m, {"reader", "writer"}) /\ m.reader = "run" /\ LinkOK(m)
        BY Zenon, <1>1, <1>2, StartedOK
      <3>2. link' = [link EXCEPT ![g] = m] /\ daemon' = d
        BY Zenon, <2>1
      <3> HIDE DEF m
      <3>3. m.conn = l.conn /\ m.toProxy = <<>>
        BY Zenon, <1>3, <3>1 DEF Same
      <3>4. e \in Daemons /\ e.pc = "apply" /\ e.goal = daemon.goal /\ e # Stopped
        BY Zenon, DaemonGoesOn DEF Types
      <3> HIDE DEF e
      <3>5. d \in Daemons /\ (d = Idle \/ (d = e /\ daemon.goal # "start"))
        BY Zenon, <3>4, DaemonRests
      <3> HIDE DEF d
      <3> QED BY Zenon, <3>1, <3>2, <3>3, <3>4, <3>5
    <2>2. CASE /\ \E r \in {"done", "run"} :
                    link' = [link EXCEPT ![g] = WriterDone([l EXCEPT !.reader = r])]
               /\ daemon' = [daemon EXCEPT !.pc = "failing"]
      <3>0. PICK r \in {"done", "run"} :
               link' = [link EXCEPT ![g] = WriterDone([l EXCEPT !.reader = r])]
        BY Zenon, <2>2
      <3> DEFINE m == WriterDone([l EXCEPT !.reader = r])
                 d == [daemon EXCEPT !.pc = "failing"]
      <3>1. /\ Same(l, m, {"reader", "writer", "rx", "queue", "next", "beating", "nonce"})
            /\ m.reader = r /\ m.writer = "done" /\ LinkOK(m)
        BY Zenon, <1>1, <1>2, HalfStartedOK
      <3>2. link' = [link EXCEPT ![g] = m] /\ daemon' = d
        BY Zenon, <2>2, <3>0
      <3> HIDE DEF m
      <3>3. m.conn = l.conn /\ m.toProxy = <<>>
        BY Zenon, <1>3, <3>1 DEF Same
      <3>4. /\ d \in Daemons /\ d.pc = "failing" /\ d.goal = daemon.goal /\ d # Stopped
            /\ d.gen = g
        BY Zenon, DaemonGoesOn DEF Types
      <3> HIDE DEF d
      <3> QED BY Zenon, <3>1, <3>2, <3>3, <3>4
    <2> QED BY Zenon, <1>0, <2>1, <2>2
  <1>5. PICK m, d :
           /\ LinkOK(m) /\ m.conn = l.conn /\ m.toProxy = <<>> /\ m.reader # "none"
           /\ link' = [link EXCEPT ![g] = m]
           /\ daemon' = d /\ d \in Daemons
           /\ \/ d = Idle
              \/ /\ d.goal = daemon.goal /\ d.pc = "apply" /\ d.goal # "start"
                 /\ d # Stopped
              \/ /\ d.goal = daemon.goal /\ d.gen = g /\ d.pc = "failing"
                 /\ m.writer = "done" /\ d # Stopped
    BY Zenon, <1>4
  <1>6. LinksOK' /\ link'[g] = m /\ \A h \in Generations \ {g} : link'[h] = link[h]
    BY Zenon, <1>1, <1>5, OneLink
  <1>7. Types'
    BY Zenon, <1>0, <1>5 DEF Types
  <1>8. FlagsAgree'
    BY Zenon, <1>0, <1>1, <1>2, <1>5, DaemonRests DEF DaemonInv, FlagsAgree
  <1>9. /\ d.pc \in {"idle", "apply", "failing"}
        /\ d.pc = "idle" => d = Idle
        /\ d.pc = "apply" => d.goal \in {"on", "off"}
        /\ d.pc = "failing" => d.gen = latest /\ m.writer = "done"
    <2>1. daemon.goal # "none"
      BY Zenon, <1>0 DEF DaemonInv, Dialled
    <2> QED BY Zenon, <1>1, <1>5, <2>1, DaemonRests DEF Daemons
  <1>10. DaemonInv'
    BY Zenon, <1>0, <1>1, <1>5, <1>8, <1>9 DEF DaemonInv, Dialling, Dialled
  <1>11. DialInv'
    <2>1. \A h \in Generations : link'[h].conn = link[h].conn
      BY Zenon, <1>5, <1>6
    <2>2. \A h \in Generations : h <= latest => link'[h].reader # "none"
      BY Zenon, <1>1, <1>5, <1>6 DEF DialInv
    <2> QED BY <1>0, <1>1, <1>5, <1>6, <1>9, <2>1, <2>2 DEF DialInv, Dialled
  <1>12. LateEndHarmless' /\ SlotInv'
    BY <1>0, <1>2, <1>5, <1>6 DEF LateEndHarmless, SlotInv
  <1>13. SilentInv'
    <2>1. \A h \in Generations \ {g} : Mute(h) => Mute(h)'
      BY Zenon, <1>6 DEF Mute
    <2>2. ~Welcoming'
      BY Zenon, <1>5, <1>9 DEF Welcoming
    <2> QED BY Zenon, <1>0, <1>2, <2>1, <2>2 DEF SilentInv
  <1> QED BY Zenon, <1>6, <1>7, <1>10, <1>11, <1>12, <1>13

-----------------------------------------------------------------------------
(* The proxy.                                                              *)

\* The proxy does not touch the flags or the daemon's threads.
LEMMA ProxyOnlyKeeps ==
    ASSUME Types, DaemonInv, ProxyOnly
    PROVE  /\ UNCHANGED <<active, requested, effective, latest, pub, daemon, newest, late>>
           /\ DaemonInv'
           /\ proxy' \in {"down", "booting", "up", "stopping"} /\ slot' \in BOOLEAN
              /\ broadcast' \in Seq(Generations) /\ Len(broadcast') <= BroadcastCap
              => Types'
  <1>1. UNCHANGED <<active, requested, effective, latest, pub, daemon, newest, late>>
    BY Zenon DEF ProxyOnly, pluginVars, history
  <1>2. DaemonInv'
    BY <1>1 DEF DaemonInv, FlagsAgree
  <1> QED BY Zenon, <1>1, <1>2 DEF Types

\* The proxy goes on with its life.
LEMMA ProxyStartsKeeps ==
    ASSUME IInv, ProxyStarts
    PROVE  IInv'
  <1> USE DEF IInv
  <1>1. /\ UNCHANGED <<slot, broadcast, link>> /\ ProxyOnly
        /\ proxy' \in {"down", "booting", "up", "stopping"}
    BY Zenon DEF ProxyStarts
  <1>2. Types' /\ DaemonInv' /\ UNCHANGED <<active, latest, newest, daemon>>
    BY Zenon, <1>1, ProxyOnlyKeeps DEF Types
  <1>3. LinksOK' /\ DialInv' /\ LateEndHarmless' /\ SlotInv' /\ SilentInv'
    BY Zenon, <1>1, <1>2, LinksStay
  <1> QED BY Zenon, <1>2, <1>3

\* The broadcaster takes a record from its queue.
LEMMA BroadcastKeeps ==
    ASSUME IInv, Broadcast
    PROVE  IInv'
  <1> USE DEF IInv
  <1>1. /\ UNCHANGED <<proxy, slot, link>> /\ ProxyOnly
        /\ broadcast # <<>> /\ broadcast' = Tail(broadcast)
    BY Zenon DEF Broadcast
  <1>2. broadcast' \in Seq(Generations) /\ Len(broadcast') <= BroadcastCap
    <2>1. broadcast \in Seq(Generations) /\ Len(broadcast) <= BroadcastCap
      BY Zenon DEF Types
    <2>2. /\ broadcast' \in Seq(Generations) /\ Len(broadcast') = Len(broadcast) - 1
          /\ Len(broadcast) \in Nat
      BY Zenon, <1>1, <2>1, TailOf
    <2> QED BY <2>1, <2>2, ForwardingBoundsValid
  <1>3. Types' /\ DaemonInv' /\ UNCHANGED <<active, latest, newest, daemon>>
    BY Zenon, <1>1, <1>2, ProxyOnlyKeeps DEF Types
  <1>4. LinksOK' /\ DialInv' /\ LateEndHarmless' /\ SlotInv' /\ SilentInv'
    BY Zenon, <1>1, <1>3, LinksStay
  <1> QED BY Zenon, <1>3, <1>4

\* What the proxy may do to a connection: the daemon's threads go on, it is
\* not opened again, and the answer to its hello is sent once.
Served(l, m) ==
    /\ m.reader = l.reader /\ m.writer = l.writer
    /\ l.conn \notin {"none", "closed"} /\ m.conn # "none"
    /\ l.conn = "serve" => m.conn \in {"serve", "closed"}
    /\ l.reader = "none" => m.toDaemon = l.toDaemon \/ l.conn = "hello"
    /\ m.conn = "serve" => m.toProxy = <<>> \/ (l.conn = "serve" /\ l.toProxy # <<>>)

\* Only the threads of the newest connection matter to a late end.
LEMMA SameThreads ==
    ASSUME LateEndHarmless, UNCHANGED <<active, newest, daemon>>,
           \A h \in Generations :
              link'[h].reader = link[h].reader /\ link'[h].writer = link[h].writer
    PROVE  LateEndHarmless'
  <1> SUFFICES ASSUME NEW h \in Generations, h = newest',
                      link'[h].reader = "run", link'[h].writer \in {"top", "recv"}
               PROVE  active' = h \/ daemon' = Stopped
    BY Zenon DEF LateEndHarmless
  <1>1. h = newest /\ link[h].reader = "run" /\ link[h].writer \in {"top", "recv"}
    BY Zenon
  <1>2. active = h \/ daemon = Stopped
    BY Zenon, <1>1 DEF LateEndHarmless
  <1> QED BY Zenon, <1>2

\* What the daemon thread relies on when it dials survives a step that leaves the
\* threads and the set of connections alone.
LEMMA SameDial ==
    ASSUME DialInv, UNCHANGED <<latest, daemon>>,
           \A h \in Generations :
              /\ link'[h].reader = link[h].reader
              /\ link'[h].conn = "none" <=> link[h].conn = "none",
           daemon.pc \in {"activate", "startLink"} =>
              link'[latest].toDaemon = <<>> /\ link'[latest].conn \in {"serve", "closed"},
           daemon.pc = "failing" => link'[latest].writer \notin {"top", "recv"}
    PROVE  DialInv'
  <1>1. ASSUME NEW h \in Generations
        PROVE  /\ link'[h].conn = "none" <=> h > latest
               /\ h <= latest => (link'[h].reader = "none"
                                     <=> daemon.pc \in Dialled /\ h = latest)
    <2>1. /\ link[h].conn = "none" <=> h > latest
          /\ h <= latest => (link[h].reader = "none"
                                <=> daemon.pc \in Dialled /\ h = latest)
      BY Zenon DEF DialInv
    <2>2. link'[h].reader = link[h].reader /\ (link'[h].conn = "none" <=> link[h].conn = "none")
      BY Zenon
    <2> QED BY Zenon, <2>1, <2>2
  <1>2. latest' = latest /\ daemon' = daemon
    BY Zenon
  <1> QED BY Zenon, <1>1, <1>2 DEF DialInv

\* Such a step keeps what relates the connections to each other.
LEMMA ConnKeeps ==
    ASSUME IInv, NEW g \in Generations, NEW m, LinkOK(m), link' = [link EXCEPT ![g] = m],
           Served(link[g], m), UNCHANGED <<active, latest, newest, daemon>>
    PROVE  /\ LinksOK' /\ DialInv' /\ LateEndHarmless'
           /\ link'[g] = m /\ \A h \in Generations \ {g} : link'[h] = link[h]
           /\ \A h \in Generations : Mute(h) => Mute(h)'
           /\ link[g].conn # "hello" => SilentInv'
  <1> USE DEF IInv
  <1>1. /\ LinksOK' /\ link'[g] = m /\ \A h \in Generations \ {g} : link'[h] = link[h]
    BY Zenon, OneLink
  <1>2. \A h \in Generations :
           /\ link'[h].reader = link[h].reader /\ link'[h].writer = link[h].writer
           /\ link'[h].conn = "none" <=> link[h].conn = "none"
    BY Zenon, <1>1 DEF Served
  <1>3. daemon.pc \in Dialled =>
          /\ latest \in Generations /\ link[latest].reader = "none"
          /\ \/ link'[latest].toDaemon = link[latest].toDaemon
             \/ g = latest /\ link[g].conn = "hello"
          /\ link[latest].conn \in {"serve", "closed"} =>
                link'[latest].conn \in {"serve", "closed"}
    BY Zenon, <1>1, LatestDialled DEF Served
  <1>4. DialInv'
    <2>1. daemon.pc \in {"activate", "startLink"} =>
            link'[latest].toDaemon = <<>> /\ link'[latest].conn \in {"serve", "closed"}
      BY Zenon, <1>3 DEF DialInv, Dialled
    <2>2. daemon.pc = "failing" =>
            latest \in Generations /\ link'[latest].writer \notin {"top", "recv"}
      <3>1. daemon.pc = "failing" => latest \in Generations
        BY DEF DaemonInv, Types, Generations
      <3> QED BY Zenon, <1>2, <3>1 DEF DialInv
    <2> QED BY Zenon, <1>2, <2>1, <2>2, SameDial
  <1>5. LateEndHarmless'
    BY Zenon, <1>2, SameThreads
  <1>6. \A h \in Generations : Mute(h) => Mute(h)'
    BY Zenon, <1>1 DEF Mute, Served
  <1>7. link[g].conn # "hello" => (Welcoming' => Welcoming)
    BY Zenon, <1>3 DEF Welcoming, Dialled
  <1>8. link[g].conn # "hello" => SilentInv'
    BY Zenon, <1>6, <1>7 DEF SilentInv
  <1> QED BY Zenon, <1>1, <1>4, <1>5, <1>6, <1>8

\* The proxy accepts a connection, or drops it over its limit.
LEMMA AcceptKeeps ==
    ASSUME IInv, NEW g \in Generations, Accept(g)
    PROVE  IInv'
  <1> USE DEF IInv
  <1> DEFINE l == link[g]
  <1>0. /\ l.conn = "backlog" /\ LinkOK(l) /\ UNCHANGED <<proxy, slot, broadcast>> /\ ProxyOnly
        /\ \/ link' = [link EXCEPT ![g] = [l EXCEPT !.conn = "hello"]]
           \/ link' = [link EXCEPT ![g] = Closed(l)]
    BY Zenon DEF Accept, LinksOK, proxyVars
  <1>1. Types' /\ DaemonInv' /\ UNCHANGED <<active, latest, newest, daemon>>
    BY Zenon, <1>0, ProxyOnlyKeeps DEF Types
  <1>2. \E m : /\ LinkOK(m) /\ Served(l, m) /\ link' = [link EXCEPT ![g] = m]
               /\ m.conn \in {"hello", "closed"}
    <2>1. CASE link' = [link EXCEPT ![g] = [l EXCEPT !.conn = "hello"]]
      <3> DEFINE m == [l EXCEPT !.conn = "hello"]
      <3>1. Same(l, m, {"conn"}) /\ m.conn = "hello" /\ LinkOK(m)
        BY Zenon, <1>0, AcceptedOK
      <3> HIDE DEF m
      <3>2. Served(l, m)
        BY Zenon, <1>0, <3>1 DEF Same, Served
      <3>3. link' = [link EXCEPT ![g] = m]
        BY Zenon, <2>1 DEF m
      <3> QED BY Zenon, <3>1, <3>2, <3>3
    <2>2. CASE link' = [link EXCEPT ![g] = Closed(l)]
      <3> DEFINE m == Closed(l)
      <3>1. Same(l, m, {"conn", "toProxy"}) /\ m.conn = "closed" /\ LinkOK(m)
        BY Zenon, <1>0, ClosedOK
      <3> HIDE DEF m
      <3>2. Served(l, m)
        BY Zenon, <1>0, <3>1 DEF Same, Served
      <3>3. link' = [link EXCEPT ![g] = m]
        BY Zenon, <2>2 DEF m
      <3> QED BY Zenon, <3>1, <3>2, <3>3
    <2> QED BY Zenon, <1>0, <2>1, <2>2
  <1>3. PICK m : /\ LinkOK(m) /\ Served(l, m) /\ link' = [link EXCEPT ![g] = m]
                 /\ m.conn \in {"hello", "closed"}
    BY Zenon, <1>2
  <1>4. /\ LinksOK' /\ DialInv' /\ LateEndHarmless' /\ SilentInv'
        /\ link'[g] = m /\ \A h \in Generations \ {g} : link'[h] = link[h]
    BY Zenon, <1>0, <1>1, <1>3, ConnKeeps
  <1>5. SlotInv'
    BY <1>0, <1>3, <1>4 DEF SlotInv
  <1> QED BY Zenon, <1>1, <1>4, <1>5

\* The slot decides whether a connection is welcomed or rejected: with the welcome
\* every other connection is mute.
LEMMA ClaimKeeps ==
    ASSUME IInv, NEW g \in Generations, ConnClaims(g)
    PROVE  IInv'
  <1> USE DEF IInv
  <1> DEFINE l == link[g]
  <1>0. /\ l.conn = "hello" /\ LinkOK(l) /\ UNCHANGED <<proxy, broadcast>> /\ ProxyOnly
        /\ \/ ~slot /\ slot' = TRUE /\ link' = [link EXCEPT ![g] = Welcomed(g)]
           \/ (slot' = TRUE \/ slot' = slot) /\ link' = [link EXCEPT ![g] = Rejected(g)]
    BY Zenon DEF ConnClaims, LinksOK, Types
  <1>1. Types' /\ DaemonInv' /\ UNCHANGED <<active, latest, newest, daemon>>
    BY Zenon, <1>0, ProxyOnlyKeeps DEF Types
  <1>2. CASE ~slot /\ slot' = TRUE /\ link' = [link EXCEPT ![g] = Welcomed(g)]
    <2> DEFINE m == Welcomed(g)
    <2>1. /\ Same(l, m, {"toDaemon", "toProxy", "conn"})
          /\ m.toProxy = <<>> /\ m.conn = "serve" /\ LinkOK(m)
          /\ m.toDaemon = IF l.reader = "done" THEN <<>> ELSE <<Welcome>>
      BY Zenon, <1>0, WelcomedOK DEF Welcomed
    <2> HIDE DEF m
    <2>2. Served(l, m)
      BY Zenon, <1>0, <2>1 DEF Same, Served
    <2>3. link' = [link EXCEPT ![g] = m]
      BY Zenon, <1>2 DEF m
    <2>4. /\ LinksOK' /\ DialInv' /\ LateEndHarmless'
          /\ link'[g] = m /\ \A h \in Generations \ {g} : link'[h] = link[h]
          /\ \A h \in Generations : Mute(h) => Mute(h)'
      BY Zenon, <1>0, <1>1, <2>1, <2>2, <2>3, ConnKeeps
    <2>5. \A h \in Generations : link[h].conn # "serve"
      BY Zenon, <1>2 DEF SlotInv
    <2>6. SlotInv'
      BY Zenon, <1>2, <2>1, <2>4, <2>5 DEF SlotInv
    <2>7. \A h \in Generations : Mute(h)
      BY Zenon, <2>5, WriterRuns DEF Mute, LinksOK
    <2>8. SilentInv'
      BY Zenon, <2>4, <2>7 DEF SilentInv
    <2> QED BY Zenon, <1>1, <2>4, <2>6, <2>8
  <1>3. CASE (slot' = TRUE \/ slot' = slot) /\ link' = [link EXCEPT ![g] = Rejected(g)]
    <2> DEFINE m == Rejected(g)
    <2>1. /\ Same(l, m, {"toDaemon", "toProxy", "conn"})
          /\ m.toProxy = <<>> /\ m.conn = "closed" /\ LinkOK(m)
          /\ m.toDaemon \in {<<>>, <<Reject>>}
      BY Zenon, <1>0, RejectedOK DEF Rejected
    <2> HIDE DEF m
    <2>2. Served(l, m)
      BY Zenon, <1>0, <2>1 DEF Same, Served
    <2>3. link' = [link EXCEPT ![g] = m]
      BY Zenon, <1>3 DEF m
    <2>4. /\ LinksOK' /\ DialInv' /\ LateEndHarmless'
          /\ link'[g] = m /\ \A h \in Generations \ {g} : link'[h] = link[h]
          /\ \A h \in Generations : Mute(h) => Mute(h)'
      BY Zenon, <1>0, <1>1, <2>1, <2>2, <2>3, ConnKeeps
    <2>5. SlotInv'
      <3>1. \A h \in Generations : link'[h].conn = "serve" => link[h].conn = "serve"
        BY Zenon, <2>1, <2>4
      <3>2. slot => slot'
        BY Zenon, <1>3
      <3> QED BY Zenon, <3>1, <3>2 DEF SlotInv
    <2>6. Welcoming' => Welcoming
      <3>1. <<Reject>> # <<Welcome>> /\ <<>> # <<Welcome>>
        BY Zenon, MessageKinds, Alone
      <3>2. daemon.pc \in Dialled => latest \in Generations
        BY Zenon, LatestDialled
      <3> QED BY Zenon, <1>1, <2>1, <2>4, <3>1, <3>2 DEF Welcoming, Dialled
    <2>7. SilentInv'
      BY Zenon, <1>1, <2>4, <2>6 DEF SilentInv
    <2> QED BY Zenon, <1>1, <2>4, <2>5, <2>7
  <1> QED BY Zenon, <1>0, <1>2, <1>3

\* The proxy serves a message, and what it broadcasts came from the newest
\* connection.
LEMMA ServeKeeps ==
    ASSUME IInv, NEW g \in Generations, ConnServes(g)
    PROVE  IInv' /\ g = newest
  <1> USE DEF IInv
  <1> DEFINE l == link[g]
             x == Message("ack", Head(l.toProxy).nonce)
  <1>0. /\ l.conn = "serve" /\ l.toProxy # <<>> /\ LinkOK(l)
        /\ UNCHANGED <<proxy, slot>> /\ ProxyOnly
        /\ \/ /\ link' = [link EXCEPT ![g] = [l EXCEPT !.toProxy = Tail(@)]]
              /\ broadcast' = IF Len(broadcast) < BroadcastCap
                              THEN Append(broadcast, g) ELSE broadcast
           \/ /\ Head(l.toProxy).kind = "beat" /\ UNCHANGED broadcast
              /\ link' = [link EXCEPT ![g] = [Sent(l, x) EXCEPT !.toProxy = Tail(@)]]
    <2>1. LinkOK(l)
      BY Zenon DEF LinksOK
    <2>2. [link EXCEPT ![g].toProxy = Tail(@)]
            = [link EXCEPT ![g] = [l EXCEPT !.toProxy = Tail(@)]]
      OBVIOUS
    <2> QED BY <2>1, <2>2, Zenon DEF ConnServes
  <1>1. g = newest
    BY Zenon, <1>0 DEF SilentInv, Mute
  <1>2. broadcast' \in Seq(Generations) /\ Len(broadcast') <= BroadcastCap
    <2>1. broadcast \in Seq(Generations) /\ Len(broadcast) <= BroadcastCap
      BY Zenon DEF Types
    <2>2. CASE broadcast' = broadcast
      BY Zenon, <2>1, <2>2
    <2>3. CASE Len(broadcast) < BroadcastCap /\ broadcast' = Append(broadcast, g)
      <3>1. /\ broadcast' \in Seq(Generations) /\ Len(broadcast') = Len(broadcast) + 1
            /\ Len(broadcast) \in Nat
        BY Zenon, <2>1, <2>3, Appended
      <3> QED BY <2>3, <3>1, ForwardingBoundsValid
    <2> QED BY Zenon, <1>0, <2>2, <2>3
  <1>3. Types' /\ DaemonInv' /\ UNCHANGED <<active, latest, newest, daemon>>
    BY Zenon, <1>0, <1>2, ProxyOnlyKeeps DEF Types
  <1>4. \E m : /\ LinkOK(m) /\ Served(l, m) /\ link' = [link EXCEPT ![g] = m]
               /\ m.conn = "serve"
    <2>1. CASE link' = [link EXCEPT ![g] = [l EXCEPT !.toProxy = Tail(@)]]
      <3> DEFINE m == [l EXCEPT !.toProxy = Tail(@)]
      <3>1. Same(l, m, {"toProxy"}) /\ l.reader # "none" /\ LinkOK(m)
        BY Zenon, <1>0, AlertServedOK
      <3> HIDE DEF m
      <3>2. Served(l, m) /\ m.conn = "serve"
        BY Zenon, <1>0, <3>1 DEF Same, Served
      <3>3. link' = [link EXCEPT ![g] = m]
        BY Zenon, <2>1 DEF m
      <3> QED BY Zenon, <3>1, <3>2, <3>3
    <2>2. CASE /\ Head(l.toProxy).kind = "beat"
               /\ link' = [link EXCEPT ![g] = [Sent(l, x) EXCEPT !.toProxy = Tail(@)]]
      <3> DEFINE m == [Sent(l, x) EXCEPT !.toProxy = Tail(@)]
      <3>1. Same(l, m, {"toProxy", "toDaemon"}) /\ l.reader # "none" /\ LinkOK(m)
        BY Zenon, <1>0, <2>2, BeatServedOK
      <3> HIDE DEF m
      <3>2. Served(l, m) /\ m.conn = "serve"
        BY Zenon, <1>0, <3>1 DEF Same, Served
      <3>3. link' = [link EXCEPT ![g] = m]
        BY Zenon, <2>2 DEF m
      <3> QED BY Zenon, <3>1, <3>2, <3>3
    <2> QED BY Zenon, <1>0, <2>1, <2>2
  <1>5. PICK m : /\ LinkOK(m) /\ Served(l, m) /\ link' = [link EXCEPT ![g] = m]
                 /\ m.conn = "serve"
    BY Zenon, <1>4
  <1>6. /\ LinksOK' /\ DialInv' /\ LateEndHarmless' /\ SilentInv'
        /\ link'[g] = m /\ \A h \in Generations \ {g} : link'[h] = link[h]
    BY Zenon, <1>0, <1>3, <1>5, ConnKeeps
  <1>7. SlotInv'
    <2>1. \A h \in Generations : link'[h].conn = "serve" => link[h].conn = "serve"
      BY Zenon, <1>0, <1>6
    <2> QED BY Zenon, <1>0, <2>1 DEF SlotInv
  <1> QED BY Zenon, <1>1, <1>3, <1>6, <1>7

\* The serve loop ends and gives the slot back.
LEMMA EndKeeps ==
    ASSUME IInv, NEW g \in Generations, ConnEnds(g)
    PROVE  IInv'
  <1> USE DEF IInv
  <1> DEFINE l == link[g]
             m == Closed(l)
  <1>0. /\ l.conn = "serve" /\ LinkOK(l) /\ UNCHANGED <<proxy, broadcast>> /\ ProxyOnly
        /\ slot' = FALSE /\ link' = [link EXCEPT ![g] = m]
    BY Zenon DEF ConnEnds, LinksOK
  <1>1. Types' /\ DaemonInv' /\ UNCHANGED <<active, latest, newest, daemon>>
    BY Zenon, <1>0, ProxyOnlyKeeps DEF Types
  <1>2. Same(l, m, {"conn", "toProxy"}) /\ m.conn = "closed" /\ LinkOK(m)
    BY Zenon, <1>0, ClosedOK
  <1> HIDE DEF m
  <1>3. Served(l, m)
    BY Zenon, <1>0, <1>2 DEF Same, Served
  <1>4. /\ LinksOK' /\ DialInv' /\ LateEndHarmless' /\ SilentInv'
        /\ link'[g] = m /\ \A h \in Generations \ {g} : link'[h] = link[h]
    BY Zenon, <1>0, <1>1, <1>2, <1>3, ConnKeeps
  <1>5. SlotInv'
    BY Zenon, <1>0, <1>2, <1>4 DEF SlotInv
  <1> QED BY Zenon, <1>1, <1>4, <1>5

\* The end of the proxy, by itself or in a crash, closes every connection.
LEMMA ProxyEndKeeps ==
    ASSUME IInv, ProxyJoins \/ ProxyCrashes
    PROVE  IInv'
  <1> USE DEF IInv
  <1>0. /\ proxy' = "down" /\ slot' = FALSE /\ broadcast' = <<>> /\ ProxyOnly
        /\ link' = [g \in Generations |->
                      IF link[g].conn = "none" THEN link[g] ELSE Closed(link[g])]
    BY Zenon DEF ProxyJoins, ProxyCrashes, ProxyGone
  <1>1. Types' /\ DaemonInv' /\ UNCHANGED <<active, latest, newest, daemon>>
    <2>1. broadcast' \in Seq(Generations) /\ Len(broadcast') <= BroadcastCap
      BY <1>0, Nothing, ForwardingBoundsValid
    <2> QED BY Zenon, <1>0, <2>1, ProxyOnlyKeeps
  <1>2. \A g \in Generations :
           /\ LinkOK(link'[g]) /\ link'[g].conn \in {"none", "closed"}
           /\ link'[g].reader = link[g].reader /\ link'[g].writer = link[g].writer
           /\ link'[g].toDaemon = link[g].toDaemon
           /\ link'[g].conn = "none" <=> link[g].conn = "none"
    <2>1. SUFFICES ASSUME NEW g \in Generations
                   PROVE  /\ LinkOK(link'[g]) /\ link'[g].conn \in {"none", "closed"}
                          /\ link'[g].reader = link[g].reader
                          /\ link'[g].writer = link[g].writer
                          /\ link'[g].toDaemon = link[g].toDaemon
                          /\ link'[g].conn = "none" <=> link[g].conn = "none"
      OBVIOUS
    <2>2. LinkOK(link[g])
      BY Zenon DEF LinksOK
    <2>3. CASE link[g].conn = "none"
      <3>1. link'[g] = link[g]
        BY Zenon, <1>0, <2>3
      <3> QED BY Zenon, <2>2, <2>3, <3>1
    <2>4. CASE link[g].conn # "none"
      <3> DEFINE m == Closed(link[g])
      <3>1. link'[g] = m
        BY Zenon, <1>0, <2>4
      <3>2. Same(link[g], m, {"conn", "toProxy"}) /\ m.conn = "closed" /\ LinkOK(m)
        BY Zenon, <2>2, <2>4, ClosedOK
      <3> HIDE DEF m
      <3> QED BY Zenon, <2>4, <3>1, <3>2 DEF Same
    <2> QED BY Zenon, <2>3, <2>4
  <1>3. LinksOK'
    <2>1. link' \in [Generations -> Links]
      <3>1. DOMAIN link' = Generations /\ link' = [g \in Generations |-> link'[g]]
        BY Zenon, <1>0
      <3>2. \A g \in Generations : link'[g] \in Links
        BY Zenon, <1>2 DEF LinkOK
      <3> QED BY Zenon, <3>1, <3>2
    <2> QED BY Zenon, <1>2, <2>1 DEF LinksOK
  <1>4. DialInv'
    <2>1. daemon.pc \in {"activate", "startLink", "failing"} => latest \in Generations
      BY DEF DaemonInv, Types, Generations, Dialled
    <2>2. daemon.pc \in {"activate", "startLink"} =>
            link[latest].toDaemon = <<>> /\ link[latest].conn \in {"serve", "closed"}
      BY Zenon DEF DialInv
    <2>3. daemon.pc \in {"activate", "startLink"} =>
            link'[latest].toDaemon = <<>> /\ link'[latest].conn \in {"serve", "closed"}
      BY Zenon, <1>2, <2>1, <2>2
    <2>4. daemon.pc = "failing" => link'[latest].writer \notin {"top", "recv"}
      BY Zenon, <1>2, <2>1 DEF DialInv
    <2> QED BY Zenon, <1>1, <1>2, <2>3, <2>4, SameDial
  <1>5. LateEndHarmless' /\ SlotInv'
    <2>1. LateEndHarmless'
      BY Zenon, <1>1, <1>2, SameThreads
    <2>2. SlotInv'
      BY Zenon, <1>2 DEF SlotInv
    <2> QED BY Zenon, <2>1, <2>2
  <1>6. \A g \in Generations : Mute(g)'
    <2>1. \A g \in Generations :
             link'[g].writer \in {"top", "recv"} => link'[g].conn \in {"serve", "closed"}
      BY Zenon, <1>2, WriterRuns
    <2>2. \A g \in Generations : link'[g].conn # "serve"
      BY Zenon, <1>2
    <2>3. \A g \in Generations : link'[g].writer \in {"top", "recv"} => link'[g].conn = "closed"
      BY Zenon, <2>1, <2>2
    <2> QED BY Zenon, <2>2, <2>3 DEF Mute
  <1>7. SilentInv'
    BY Zenon, <1>6 DEF SilentInv
  <1> QED BY Zenon, <1>1, <1>3, <1>4, <1>5, <1>7

-----------------------------------------------------------------------------
(* The theorems.                                                           *)

\* start(): nothing is connected.
LEMMA InitIInv == Init => IInv
  <1> SUFFICES ASSUME Init PROVE IInv
    OBVIOUS
  <1> USE ForwardingBoundsValid
  <1>1. \A g \in Generations : link[g] = NotDialled
    BY Zenon DEF Init
  <1>2. /\ NotDialled.conn = "none" /\ NotDialled.reader = "none"
        /\ NotDialled.writer = "none"
    BY Zenon DEF NotDialled
  <1>3. LinksOK
    <2>1. NotDialled \in Links /\ LinkOK(NotDialled)
      BY Zenon, NotDialledOK DEF LinkOK
    <2> HIDE DEF NotDialled
    <2> QED BY Zenon, <1>1, <2>1 DEF LinksOK, Init
  <1>4. daemon \in Daemons /\ daemon.pc \in {"ensure", "idle"}
        /\ (daemon.pc = "idle" => daemon = Idle /\ ~requested)
        /\ (daemon.pc = "ensure" => daemon.goal = "start")
    <2>1. requested \in BOOLEAN /\ daemon = IF requested THEN At("ensure", "start", 0) ELSE Idle
      BY Zenon DEF Init
    <2>2. CASE requested
      BY <2>1, <2>2 DEF At, Daemons, Dialling
    <2>3. CASE ~requested
      BY Zenon, <2>1, <2>3, DaemonRests
    <2> QED BY Zenon, <2>2, <2>3
  <1>5. Types
    <2>1. pub \in [Publishers -> Publishing]
      <3>1. Quiet \in Publishing
        BY DEF Quiet, Publishing
      <3> QED BY Zenon, <3>1 DEF Init
    <2>2. broadcast \in Seq(Generations) /\ Len(broadcast) <= BroadcastCap
      BY Nothing DEF Init
    <2>3. {active, latest, newest} \subseteq 0 .. MaxGen
      BY DEF Init
    <2>4. {requested, effective, slot, late} \subseteq BOOLEAN
      BY Zenon DEF Init
    <2>5. proxy \in {"down", "booting", "up", "stopping"}
      BY Zenon DEF Init
    <2> QED BY Zenon, <1>4, <2>1, <2>2, <2>3, <2>4, <2>5 DEF Types
  <1>6. DaemonInv
    <2>1. \A p \in Publishers : pub[p].pc # "send"
      BY Zenon DEF Init, Quiet
    <2>2. active = 0 /\ newest = 0 /\ latest = 0 /\ ~effective /\ 0 < MaxGen
      BY DEF Init
    <2>3. FlagsAgree
      BY Zenon, <1>4, <2>2, DaemonRests DEF FlagsAgree, Init
    <2> QED BY <1>4, <2>1, <2>2, <2>3 DEF DaemonInv, Dialling, Dialled
  <1>7. DialInv
    BY <1>1, <1>2, <1>4 DEF Init, DialInv, Generations, Dialled
  <1>8. LateEndHarmless /\ SlotInv
    BY Zenon, <1>1, <1>2 DEF LateEndHarmless, SlotInv
  <1>9. SilentInv
    BY Zenon, <1>1, <1>2, <1>4 DEF SilentInv, Mute, Welcoming
  <1> QED BY Zenon, <1>3, <1>5, <1>6, <1>7, <1>8, <1>9 DEF IInv

\* Every step keeps the invariant.
LEMMA NextIInv == IInv /\ [Next]_vars => IInv'
  <1> SUFFICES ASSUME IInv, [Next]_vars PROVE IInv'
    OBVIOUS
  <1>1. ASSUME NEW p \in Publishers, Publish(p) PROVE IInv'
    BY Zenon, <1>1, PublishKeeps
  <1>2. CASE DaemonStep
    BY <1>2, ConnectKeeps, HandshakeKeeps, ActivateKeeps, StartLinkKeeps, ApplyKeeps,
       DaemonDisableKeeps, Zenon DEF DaemonStep
  <1>3. ASSUME NEW on \in BOOLEAN, UpdateConfig(on) PROVE IInv'
    BY Zenon, <1>3, UpdateConfigKeeps
  <1>4. ASSUME NEW g \in Generations, Reader(g) \/ Writer(g) PROVE IInv'
    BY <1>4, ReaderKeeps, WriterTopKeeps, WriterReceivesKeeps, LinkDisableKeeps, Zenon
       DEF Reader, Writer
  <1>5. ASSUME NEW g \in Generations, Conn(g) PROVE IInv'
    BY <1>5, AcceptKeeps, ClaimKeeps, ServeKeeps, EndKeeps, Zenon DEF Conn
  <1>6. CASE ProxyStarts \/ ProxyJoins \/ ProxyCrashes \/ Broadcast \/ Shutdown
    BY <1>6, ProxyStartsKeeps, ProxyEndKeeps, BroadcastKeeps, ShutdownKeeps, Zenon
  <1>7. CASE UNCHANGED vars
    <2>1. /\ UNCHANGED <<active, requested, effective, latest, pub, daemon, link>>
          /\ UNCHANGED <<proxy, slot, broadcast, newest, late>>
      BY Zenon, <1>7 DEF vars, pluginVars, proxyVars, history
    <2>2. Types' /\ DaemonInv'
      BY Zenon, <2>1, StateStays DEF IInv
    <2>3. LinksOK' /\ DialInv' /\ LateEndHarmless' /\ SlotInv' /\ SilentInv'
      BY Zenon, <2>1, LinksStay
    <2> QED BY Zenon, <2>2, <2>3 DEF IInv
  <1> QED BY <1>1, <1>2, <1>3, <1>4, <1>5, <1>6, <1>7, Zenon DEF Next

\* The invariant holds throughout.
THEOREM Inductive == Spec => []IInv
  BY InitIInv, NextIInv, PTL DEF Spec

\* The queue of a link and the broadcast queue stay within their capacities, and
\* flags and generations in their types.
THEOREM TypeCorrect == Spec => []TypeOK
  <1>1. IInv => TypeOK
    BY Zenon DEF IInv, Types, LinksOK, LinkOK, TypeOK
  <1> QED BY <1>1, Inductive, PTL

\* The plugin's flags tell one story at every moment (plugin state, FlagsAgree),
\* whatever publishers, link threads and the daemon thread do in between.
THEOREM FlagsTellOneStory == Spec => []FlagsAgree
  <1>1. IInv => FlagsAgree
    BY Zenon DEF IInv, DaemonInv
  <1> QED BY <1>1, Inductive, PTL

\* A late end of an old link does not switch off the newest one
\* (disable_if_generation, LateEndHarmless).
THEOREM LateEndsAreHarmless == Spec => []LateEndHarmless
  <1>1. IInv => LateEndHarmless
    BY Zenon DEF IInv
  <1> QED BY <1>1, Inductive, PTL

\* The reader of a link finds only the acknowledgement it waits for (AcksMatch),
\* for any number of heartbeats.
THEOREM AcksAreMatched == Spec => []AcksMatch
  <1>1. IInv => AcksMatch
    <2> SUFFICES ASSUME IInv, NEW g \in Generations, link[g].reader = "run",
                        link[g].toDaemon # <<>>
                 PROVE  Head(link[g].toDaemon) = Message("ack", link[g].nonce)
      BY Zenon DEF AcksMatch
    <2> DEFINE a == Message("ack", link[g].nonce)
    <2>1. link[g].toDaemon = <<a>> /\ link[g].nonce \in 0 .. MaxBeats
      BY Zenon, LinkFields DEF IInv, LinksOK, LinkOK, Heartbeats
    <2>2. a \in Messages
      BY Zenon, <2>1, MessageKinds
    <2> HIDE DEF a
    <2> QED BY Zenon, <2>1, <2>2, Alone DEF a
  <1> QED BY <1>1, Inductive, PTL

\* No record of an old connection enters the broadcast queue once a newer one is
\* active (OldLinkSilent).
THEOREM OldLinksAreSilent == Spec => OldLinkSilent
  <1> DEFINE Silent == Len(broadcast') > Len(broadcast) => broadcast'[Len(broadcast')] = newest
  <1>1. IInv /\ [Next]_vars => [Silent]_vars
    <2> SUFFICES ASSUME IInv, Next, Len(broadcast') > Len(broadcast)
                 PROVE  broadcast'[Len(broadcast')] = newest
      OBVIOUS
    <2>1. broadcast \in Seq(Generations) /\ Len(broadcast) \in Nat
      BY DEF IInv, Types
    <2>2. broadcast' # broadcast
      BY <2>1
    <2>3. PICK g \in Generations : ConnServes(g)
      <3>1. ~(ProxyJoins \/ ProxyCrashes)
        BY <2>1 DEF ProxyJoins, ProxyCrashes, ProxyGone
      <3>2. ~Broadcast
        BY <2>1, TailOf DEF Broadcast
      <3> QED BY <2>2, <3>1, <3>2, Zenon
            DEF Next, Publish, PublishBegin, PublishLoad, PublishSend, PublishCheck,
                PublishClear, DaemonStep, EnsureConnected, WaitForProxy, Handshake,
                Activate, StartLink, Apply, DisableIfGeneration, Shutdown, UpdateConfig,
                Reader, Writer, ReaderReads, ReaderBreaks, WriterTop, WriterReceives,
                LinkOnly, Conn, Accept, ConnClaims, ConnEnds, ProxyStarts, proxyVars
    <2>4. g = newest /\ broadcast' = Append(broadcast, g)
      BY Zenon, <2>2, <2>3, ServeKeeps DEF ConnServes
    <2>5. broadcast'[Len(broadcast')] = g
      BY <2>1, <2>4, Appended
    <2> QED BY Zenon, <2>4, <2>5
  <1>2. IInv /\ [Next]_vars => [Len(broadcast') > Len(broadcast)
                                  => broadcast'[Len(broadcast')] = newest]_vars
    BY Zenon, <1>1
  <1> HIDE DEF Silent
  <1> QED BY <1>2, Inductive, PTL DEF Spec, OldLinkSilent

=============================================================================
