------------------------ MODULE VsockGateway_proofs -------------------------
(***************************************************************************)
(* Theorems about the gateway, for any number of connections, any capacity *)
(* and any id space that is larger than the capacity.                      *)
(*                                                                         *)
(* First the inductive invariant of the way of a frame through the         *)
(* gateway, with the steps of the sessions and of the upstream worker that *)
(* keep it: what is written, held and queued stands in the order in which  *)
(* the sessions sent it, and on a connection without the capability a      *)
(* session that negotiated it has at most one frame beyond the test of the *)
(* capability.  Then the permits of the forward quota, which are exact,    *)
(* and what the invariant says of the frames that are written.  Last the   *)
(* ids of the sessions: they are distinct and non-zero, however often      *)
(* SessionRegistry::allocate wraps.                                        *)
(***************************************************************************)
EXTENDS VsockGateway, FiniteSetTheorems, TLAPS

\* The labels of a worker inside and outside a session.
Inside == {"welcome", "reading", "blocked", "batch", "forward", "send",
           "closing", "releasing"}
Labels == Inside \cup {"none", "hello", "finished"}

\* The ids, the items of the channel, the connections and the written copies.
IdRange == 1 .. IdSpace - 1
Items == [sb : Sbs, n : Nat]
LinkSet == [no : Nat, workload : BOOLEAN]
Copies == [item : Items, link : LinkSet, closed : BOOLEAN]

\* Who holds an item, and what it is.
SbTypes ==
    /\ io \in [Sbs -> Labels] /\ sent \in [Sbs -> Nat]
    /\ wl \in [Sbs -> BOOLEAN] /\ open \in [Sbs -> BOOLEAN]
UpTypes ==
    /\ queue \in Seq(Items) /\ received \in Seq(Copies)
    /\ held \in Items \cup {NoItem}
    /\ up \in {"have", "write"} => held # NoItem
    /\ link \in LinkSet /\ supports \in BOOLEAN /\ prev \in BOOLEAN
FlowTypes == SbTypes /\ UpTypes

\* The last frame a session has handed over; every frame beyond its own thread
\* has a number up to it.
LastSent == [s \in Sbs |-> IF io[s] \in {"batch", "forward", "send"}
                               THEN sent[s] - 1 ELSE sent[s]]
Numbered(item, last) == item.n \in 1 .. last[item.sb]
AllNumbered(q, h, r, last) ==
    /\ \A i \in DOMAIN q : Numbered(q[i], last)
    /\ h # NoItem => Numbered(h, last)
    /\ \A i \in DOMAIN r : Numbered(r[i].item, last)
Bounded ==
    /\ AllNumbered(queue, held, received, LastSent)
    /\ \A s \in Sbs : /\ io[s] \in {"none", "hello", "welcome"} => sent[s] = 0
                      /\ io[s] \in {"batch", "forward", "send"} => sent[s] >= 1

\* What is written comes before what is held, and that before what is queued.
Earlier(a, b) == a.sb = b.sb => a.n < b.n
InOrder(q, h, r) ==
    /\ \A i, j \in DOMAIN q : i < j => Earlier(q[i], q[j])
    /\ \A i, j \in DOMAIN r : i < j => Earlier(r[i].item, r[j].item)
    /\ \A i \in DOMAIN r, j \in DOMAIN q : Earlier(r[i].item, q[j])
    /\ h # NoItem => /\ \A j \in DOMAIN q : Earlier(h, q[j])
                     /\ \A i \in DOMAIN r : Earlier(r[i].item, h)

\* A frame written after its session closed had been looked at before; the
\* worker looks at no second one.
AfterClose ==
    /\ \A i \in DOMAIN received : received[i].closed =>
         /\ ~open[received[i].item.sb]
         /\ up = "write" => held.sb # received[i].item.sb
    /\ \A i, j \in DOMAIN received :
         /\ received[i].closed /\ received[j].closed
         /\ received[i].item.sb = received[j].item.sb
         => i = j

\* The capability is published only for the connection that has it, and is
\* withdrawn before the connection changes.
LinkAgrees ==
    /\ supports => link.workload
    /\ up \in {"loop", "have", "write"} => supports = link.workload
    /\ up \in {"reconnecting", "discard", "publish", "publishWorkload"} => ~supports
    /\ up \in {"failed", "reconnecting"} => prev = link.workload
    /\ \A i \in DOMAIN received :
         /\ received[i].link.no <= link.no
         /\ received[i].link.no = link.no => received[i].link = link
         /\ up = "discard" => received[i].link.no # link.no

\* On a connection without the capability, and once the discard is over, a
\* session that negotiated it has at most one frame that is past the test of
\* the capability or written.
Passed(s) == io[s] \in {"forward", "send"}
InHand(s) == held # NoItem /\ held.sb = s
OneLeft ==
    ~link.workload /\ up # "discard" => \A s \in Sbs : wl[s] =>
        /\ \A i, j \in DOMAIN queue : queue[i].sb = s /\ queue[j].sb = s => i = j
        /\ \A i \in DOMAIN queue : queue[i].sb = s => ~InHand(s) /\ ~Passed(s)
        /\ InHand(s) => ~Passed(s)
        /\ \A i \in DOMAIN received :
             received[i].item.sb = s /\ received[i].link.no = link.no =>
               /\ ~InHand(s) /\ ~Passed(s)
               /\ \A j \in DOMAIN queue : queue[j].sb # s
LeakOnce ==
    \A i, j \in DOMAIN received :
        /\ received[i].item.sb = received[j].item.sb /\ wl[received[i].item.sb]
        /\ received[i].link = received[j].link /\ ~received[i].link.workload
        => i = j

FlowInv ==
    /\ FlowTypes /\ Bounded /\ InOrder(queue, held, received) /\ AfterClose
    /\ LinkAgrees /\ OneLeft /\ LeakOnce

\* A session that passed the test of the capability queues its item: what was
\* left of it before is what is left now.
LEMMA OneLeftQueues ==
    ASSUME OneLeft, UNCHANGED <<wl, up, held, link, received>>,
           NEW s \in Sbs, Passed(s), NEW e, e.sb = s,
           \A t \in Sbs : InHand(t)' = InHand(t) /\ (Passed(t)' => Passed(t) /\ t # s),
           \A i \in DOMAIN queue' : \/ i \in DOMAIN queue /\ queue'[i] = queue[i]
                                    \/ i = Len(queue) + 1 /\ queue'[i] = e
    PROVE  OneLeft'
  <1> SUFFICES ASSUME ~link.workload, up # "discard", NEW t \in Sbs, wl[t]
               PROVE  /\ \A i, j \in DOMAIN queue' :
                            queue'[i].sb = t /\ queue'[j].sb = t => i = j
                      /\ \A i \in DOMAIN queue' :
                            queue'[i].sb = t => ~InHand(t)' /\ ~Passed(t)'
                      /\ InHand(t)' => ~Passed(t)'
                      /\ \A i \in DOMAIN received :
                           received[i].item.sb = t /\ received[i].link.no = link.no =>
                             /\ ~InHand(t)' /\ ~Passed(t)'
                             /\ \A j \in DOMAIN queue' : queue'[j].sb # t
    BY Zenon DEF OneLeft, InHand, Passed
  <1> HIDE DEF InHand, Passed
  <1>1. /\ \A i, j \in DOMAIN queue : queue[i].sb = t /\ queue[j].sb = t => i = j
        /\ \A i \in DOMAIN queue : queue[i].sb = t => ~InHand(t) /\ ~Passed(t)
        /\ InHand(t) => ~Passed(t)
        /\ \A i \in DOMAIN received :
             received[i].item.sb = t /\ received[i].link.no = link.no =>
               /\ ~InHand(t) /\ ~Passed(t) /\ \A j \in DOMAIN queue : queue[j].sb # t
    BY Zenon DEF OneLeft
  <1>2. CASE t = s
    BY Zenon, <1>1, <1>2
  <1>3. CASE t # s
    BY Zenon, <1>1, <1>3
  <1> QED BY Zenon, <1>2, <1>3

\* A new connection has received nothing yet.
LEMMA OneLeftReconnects ==
    ASSUME OneLeft, ~link.workload, up # "discard",
           UNCHANGED <<io, wl, queue, held, received>>,
           \A i \in DOMAIN received : received[i].link.no # link'.no
    PROVE  OneLeft'
  BY Zenon DEF OneLeft, InHand, Passed

\* Where the items of a longer sequence are.
LEMMA AppendPlaces ==
    ASSUME NEW T, NEW q \in Seq(T), NEW e \in T, NEW p, p = Append(q, e)
    PROVE  /\ DOMAIN p = 1 .. Len(q) + 1 /\ DOMAIN q = 1 .. Len(q) /\ Len(q) \in Nat
           /\ \A i \in DOMAIN p : \/ i \in DOMAIN q /\ p[i] = q[i]
                                  \/ i = Len(q) + 1 /\ p[i] = e
  <1>1. /\ DOMAIN p = 1 .. Len(q) + 1 /\ DOMAIN q = 1 .. Len(q) /\ Len(q) \in Nat
        /\ \A i \in 1 .. Len(q) : p[i] = q[i]
        /\ p[Len(q) + 1] = e
    OBVIOUS
  <1> QED BY <1>1

\* What is sent is behind everything the session has sent before.
LEMMA OrderAppend ==
    ASSUME NEW q \in Seq(Items), NEW h, NEW r, NEW e \in Items, InOrder(q, h, r),
           \A i \in DOMAIN q : Earlier(q[i], e),
           \A i \in DOMAIN r : Earlier(r[i].item, e),
           h # NoItem => Earlier(h, e)
    PROVE  InOrder(Append(q, e), h, r)
  <1>1. PICK p : p = Append(q, e)
    BY Zenon
  <1>2. /\ DOMAIN p = 1 .. Len(q) + 1 /\ DOMAIN q = 1 .. Len(q) /\ Len(q) \in Nat
        /\ \A i \in DOMAIN p : \/ i \in DOMAIN q /\ p[i] = q[i]
                               \/ i = Len(q) + 1 /\ p[i] = e
    BY <1>1, AppendPlaces
  <1>3. \A i, j \in DOMAIN p : i < j => Earlier(p[i], p[j])
    BY <1>2 DEF InOrder
  <1>4. InOrder(p, h, r)
    BY Zenon, <1>2, <1>3 DEF InOrder
  <1> QED BY Zenon, <1>1, <1>4

\* What is taken from the channel is ahead of the rest.
LEMMA TailKeeps ==
    ASSUME NEW q \in Seq(Items), q # <<>>, NEW r, NEW last,
           InOrder(q, NoItem, r), AllNumbered(q, NoItem, r, last)
    PROVE  /\ Head(q) \in Items /\ Tail(q) \in Seq(Items)
           /\ DOMAIN Tail(q) = {i \in DOMAIN q : i + 1 \in DOMAIN q}
           /\ \A i \in DOMAIN Tail(q) : Tail(q)[i] = q[i + 1]
           /\ Head(q) = q[1] /\ 1 \in DOMAIN q
           /\ \A h \in {NoItem, Head(q)} : /\ InOrder(Tail(q), h, r)
                                           /\ AllNumbered(Tail(q), h, r, last)
  <1>1. /\ Len(q) \in Nat /\ Len(q) >= 1 /\ DOMAIN q = 1 .. Len(q)
        /\ DOMAIN Tail(q) = 1 .. Len(q) - 1
        /\ \A i \in 1 .. Len(q) - 1 : Tail(q)[i] = q[i + 1]
        /\ Head(q) = q[1] /\ Head(q) \in Items /\ Tail(q) \in Seq(Items)
    OBVIOUS
  <1>2. PICK t, x : t = Tail(q) /\ x = Head(q)
    BY Zenon
  <1>3. /\ \A i \in DOMAIN t : i + 1 \in DOMAIN q /\ 1 < i + 1 /\ t[i] = q[i + 1]
        /\ \A i, j \in DOMAIN t : i < j => i + 1 < j + 1
        /\ 1 \in DOMAIN q /\ x = q[1]
    BY <1>1, <1>2
  <1>4. \A h \in {NoItem, x} : InOrder(t, h, r)
    BY Zenon, <1>3 DEF InOrder
  <1>5. \A h \in {NoItem, x} : AllNumbered(t, h, r, last)
    BY Zenon, <1>3 DEF AllNumbered
  <1> QED BY <1>1, <1>2, <1>4, <1>5

\* What is written is behind what was written before.
LEMMA WriteKeeps ==
    ASSUME NEW q, NEW r \in Seq(Copies), NEW c \in Copies, NEW last,
           c.item # NoItem, InOrder(q, c.item, r), AllNumbered(q, c.item, r, last)
    PROVE  InOrder(q, NoItem, Append(r, c)) /\ AllNumbered(q, NoItem, Append(r, c), last)
  <1>1. PICK p : p = Append(r, c)
    BY Zenon
  <1>2. DOMAIN p = 1 .. Len(r) + 1 /\ DOMAIN r = 1 .. Len(r) /\ Len(r) \in Nat
    BY <1>1, AppendPlaces
  <1>3. \A i \in DOMAIN p : \/ i \in DOMAIN r /\ p[i] = r[i]
                            \/ i = Len(r) + 1 /\ p[i] = c
    BY <1>1, AppendPlaces
  <1>4. \A i, j \in DOMAIN p : i < j => Earlier(p[i].item, p[j].item)
    BY <1>2, <1>3 DEF InOrder
  <1>5. InOrder(q, NoItem, p)
    BY Zenon, <1>3, <1>4 DEF InOrder
  <1>6. AllNumbered(q, NoItem, p, last)
    BY Zenon, <1>3 DEF AllNumbered
  <1> QED BY Zenon, <1>1, <1>5, <1>6

\* What the sequences hold.
LEMMA FlowElements ==
    ASSUME FlowTypes
    PROVE  /\ \A i \in DOMAIN queue : queue[i] \in Items /\ queue[i].sb \in Sbs
           /\ held # NoItem => held \in Items /\ held.sb \in Sbs
           /\ \A i \in DOMAIN received :
                /\ received[i] \in Copies /\ received[i].item \in Items
                /\ received[i].item.sb \in Sbs /\ received[i].link \in LinkSet
  <1>1. \A x \in Items : x.sb \in Sbs
    BY Zenon DEF Items
  <1>2. \A x \in Copies : x.item \in Items /\ x.link \in LinkSet
    BY Zenon DEF Copies
  <1>3. queue \in Seq(Items) /\ received \in Seq(Copies) /\ held \in Items \cup {NoItem}
    BY Zenon DEF FlowTypes, UpTypes
  <1>4. \A i \in DOMAIN queue : queue[i] \in Items
    BY <1>3
  <1>5. \A i \in DOMAIN received : received[i] \in Copies
    BY <1>3
  <1> QED BY Zenon, <1>1, <1>2, <1>3, <1>4, <1>5

\* Nothing is in flight at first.
LEMMA InitFlow == Init => FlowInv
  <1> SUFFICES ASSUME Init PROVE FlowInv
    OBVIOUS
  <1>1. FlowTypes
    <2>1. io \in [Sbs -> Labels] /\ sent \in [Sbs -> Nat]
      BY Zenon DEF Init, Labels
    <2>2. wl \in [Sbs -> BOOLEAN] /\ open \in [Sbs -> BOOLEAN]
      BY Zenon DEF Init
    <2>3. link \in LinkSet
      BY DEF Init, Links, LinkSet
    <2>4. supports \in BOOLEAN /\ prev \in BOOLEAN
      BY Zenon, <2>3 DEF Init, LinkSet
    <2>5. /\ queue \in Seq(Items) /\ received \in Seq(Copies) /\ held \in Items \cup {NoItem}
          /\ up \notin {"have", "write"}
      BY DEF Init
    <2> QED BY Zenon, <2>1, <2>2, <2>3, <2>4, <2>5 DEF FlowTypes, SbTypes, UpTypes
  <1>2. DOMAIN queue = {} /\ DOMAIN received = {} /\ held = NoItem /\ queue = <<>>
    BY DEF Init
  <1>3. Bounded /\ InOrder(queue, held, received) /\ AfterClose
    BY Zenon, <1>2 DEF Init, Bounded, AllNumbered, InOrder, AfterClose
  <1>4. LinkAgrees
    BY Zenon, <1>2 DEF Init, LinkAgrees
  <1>6. OneLeft /\ LeakOnce
    BY Zenon, <1>2 DEF Init, OneLeft, LeakOnce, InHand, Passed
  <1> QED BY Zenon, <1>1, <1>3, <1>4, <1>6 DEF FlowInv

\* A step of one session that leaves the channel and the upstream worker alone.
SessionOnly(s) ==
    /\ UNCHANGED <<queue, upVars>>
    /\ SbTypes'
    /\ \A t \in Sbs \ {s} : /\ io'[t] = io[t] /\ wl'[t] = wl[t] /\ open'[t] = open[t]
                            /\ sent'[t] = sent[t]
    /\ LastSent[s] <= LastSent'[s]
    /\ io'[s] \in {"none", "hello", "welcome"} => sent'[s] = 0
    /\ io'[s] \in {"batch", "forward", "send"} => sent'[s] >= 1
    /\ open'[s] => open[s]
    /\ wl'[s] => wl[s] \/ (supports /\ io[s] = "welcome")
    /\ wl'[s] /\ Passed(s)' => Passed(s) \/ supports

LEMMA SessionOnlyPreserves ==
    ASSUME FlowInv, NEW s \in Sbs, SessionOnly(s)
    PROVE  FlowInv'
  <1>0. /\ FlowTypes /\ Bounded /\ InOrder(queue, held, received) /\ AfterClose
        /\ LinkAgrees /\ OneLeft /\ LeakOnce
    BY Zenon DEF FlowInv
  <1>1. UNCHANGED <<queue, up, held, prev, gwId, supports, link, received>>
    BY Zenon DEF SessionOnly, upVars
  <1>2. FlowTypes'
    <2>1. UpTypes'
      BY Zenon, <1>0, <1>1 DEF FlowTypes, UpTypes
    <2> QED BY Zenon, <2>1 DEF SessionOnly, FlowTypes
  <1>3. \A t \in Sbs : LastSent[t] <= LastSent'[t] /\ LastSent[t] \in Int /\ LastSent'[t] \in Int
    BY <1>0 DEF SessionOnly, LastSent, FlowTypes, SbTypes
  <1>4. Bounded'
    <2>1. \A x \in Items : Numbered(x, LastSent) => Numbered(x, LastSent')
      BY <1>3 DEF Numbered, Items
    <2>2. \A t \in Sbs : /\ io'[t] \in {"none", "hello", "welcome"} => sent'[t] = 0
                         /\ io'[t] \in {"batch", "forward", "send"} => sent'[t] >= 1
      BY Zenon, <1>0 DEF SessionOnly, Bounded
    <2>3. /\ \A i \in DOMAIN queue : queue[i] \in Items
          /\ \A i \in DOMAIN received : received[i].item \in Items
          /\ held # NoItem => held \in Items
      BY Zenon, <1>0, FlowElements
    <2>5. AllNumbered(queue, held, received, LastSent')
      BY Zenon, <1>0, <2>1, <2>3 DEF Bounded, AllNumbered
    <2> QED BY Zenon, <1>1, <2>2, <2>5 DEF Bounded
  <1>5. InOrder(queue, held, received)'
    BY Zenon, <1>0, <1>1
  <1>6. AfterClose'
    <2>1. \A t \in Sbs : open'[t] => open[t]
      BY Zenon DEF SessionOnly
    <2>2. \A i \in DOMAIN received : received[i].item.sb \in Sbs
      BY Zenon, <1>0, FlowElements
    <2> QED BY Zenon, <1>0, <1>1, <2>1, <2>2 DEF AfterClose
  <1>7. LinkAgrees'
    BY Zenon, <1>0, <1>1 DEF LinkAgrees
  <1>8. OneLeft'
    <2>1. ASSUME ~link.workload, NEW t \in Sbs, wl'[t]
          PROVE  wl[t] /\ (Passed(t)' => Passed(t))
      BY Zenon, <1>0, <2>1 DEF LinkAgrees, SessionOnly, Passed
    <2>2. \A t \in Sbs : InHand(t)' = InHand(t)
      BY Zenon, <1>1 DEF InHand
    <2> QED BY Zenon, <1>0, <1>1, <2>1, <2>2 DEF OneLeft
  <1>9. LeakOnce'
    <2>1. ASSUME wl'[s], ~wl[s], NEW i \in DOMAIN received
          PROVE  received[i].item.sb # s
      <3>1. io[s] = "welcome" /\ sent[s] = 0
        BY Zenon, <1>0, <2>1 DEF SessionOnly, Bounded
      <3>2. LastSent[s] = 0
        BY Zenon, <3>1 DEF LastSent
      <3> QED BY <1>0, <3>2 DEF Bounded, AllNumbered, Numbered
    <2>2. \A t \in Sbs : wl'[t] /\ ~wl[t] => t = s
      BY Zenon DEF SessionOnly
    <2>3. \A i \in DOMAIN received : received[i].item.sb \in Sbs
      BY Zenon, <1>0, FlowElements
    <2>4. \A i \in DOMAIN received : wl'[received[i].item.sb] => wl[received[i].item.sb]
      BY Zenon, <2>1, <2>2, <2>3
    <2> QED BY Zenon, <1>0, <1>1, <2>4 DEF LeakOnce
  <1> QED BY Zenon, <1>2, <1>4, <1>5, <1>6, <1>7, <1>8, <1>9 DEF FlowInv

\* A session that only moves from one label to another.
LEMMA MovePreserves ==
    \A s \in Sbs, l \in Labels :
        /\ FlowInv /\ MoveTo(s, l)
        /\ UNCHANGED <<wl, open, sent, queue, upVars>>
        /\ l \in {"batch", "forward", "send"} => io[s] \in {"batch", "forward", "send"}
        /\ l \in {"none", "hello", "welcome"} => io[s] \in {"none", "hello", "welcome"}
        /\ l # "send" /\ (l = "forward" => ~wl[s] \/ supports)
        => FlowInv'
  <1> SUFFICES ASSUME NEW s \in Sbs, NEW l \in Labels, FlowInv, MoveTo(s, l),
                      UNCHANGED <<wl, open, sent, queue, upVars>>,
                      l \in {"batch", "forward", "send"} => io[s] \in {"batch", "forward", "send"},
                      l \in {"none", "hello", "welcome"} => io[s] \in {"none", "hello", "welcome"},
                      l # "send", l = "forward" => ~wl[s] \/ supports
               PROVE  FlowInv'
    OBVIOUS
  <1>1. SbTypes /\ Bounded
    BY Zenon DEF FlowInv, FlowTypes
  <1>2. /\ io' \in [Sbs -> Labels] /\ io'[s] = l
        /\ \A t \in Sbs \ {s} : io'[t] = io[t]
    BY Zenon, <1>1 DEF MoveTo, SbTypes
  <1>3. SbTypes'
    BY Zenon, <1>1, <1>2 DEF SbTypes
  <1>4. LastSent[s] <= LastSent'[s]
    BY <1>1, <1>2 DEF LastSent, SbTypes
  <1>5. /\ io'[s] \in {"none", "hello", "welcome"} => sent'[s] = 0
        /\ io'[s] \in {"batch", "forward", "send"} => sent'[s] >= 1
    <2>1. /\ io[s] \in {"none", "hello", "welcome"} => sent[s] = 0
          /\ io[s] \in {"batch", "forward", "send"} => sent[s] >= 1
      BY Zenon, <1>1 DEF Bounded
    <2> QED BY Zenon, <1>2, <2>1
  <1>6. wl'[s] /\ Passed(s)' => Passed(s) \/ supports
    BY Zenon, <1>2 DEF Passed
  <1>7. SessionOnly(s)
    BY Zenon, <1>2, <1>3, <1>4, <1>5, <1>6 DEF SessionOnly
  <1> QED BY Zenon, <1>7, SessionOnlyPreserves

\* The steps of a session before it has a frame and after its last one, and the
\* test of the capability (runtime.rs:245).
LEMMA PlainSessionSteps ==
    ASSUME FlowInv, NEW s \in Sbs,
           \/ Accept(s) \/ HelloFails(s) \/ HelloAllocate(s) \/ LoopTest(s)
           \/ ReadNothing(s) \/ SessionEnds(s) \/ CheckCapability(s) \/ ReleaseId(s)
    PROVE  FlowInv'
  <1> USE DEF Labels, Inside
  <1>1. CASE Accept(s)
    BY Zenon, <1>1, MovePreserves DEF Accept
  <1>2. CASE HelloFails(s)
    BY Zenon, <1>2, MovePreserves DEF HelloFails
  <1>3. CASE HelloAllocate(s)
    <2>1. io[s] = "hello" /\ UNCHANGED <<wl, open, sent, queue, upVars>>
      BY Zenon, <1>3 DEF HelloAllocate
    <2>2. MoveTo(s, "finished") \/ MoveTo(s, "welcome")
      BY Zenon, <1>3 DEF HelloAllocate
    <2> QED BY Zenon, <2>1, <2>2, MovePreserves
  <1>4. CASE LoopTest(s)
    BY Zenon, <1>4, MovePreserves DEF LoopTest
  <1>5. CASE ReadNothing(s)
    BY Zenon, <1>5, MovePreserves DEF ReadNothing
  <1>6. CASE SessionEnds(s)
    BY Zenon, <1>6, MovePreserves DEF SessionEnds
  <1>7. CASE CheckCapability(s)
    <2>1. io[s] = "batch" /\ UNCHANGED <<wl, open, sent, queue, upVars>>
      BY Zenon, <1>7 DEF CheckCapability
    <2>2. \/ MoveTo(s, "closing")
          \/ MoveTo(s, "forward") /\ (~wl[s] \/ supports)
      BY Zenon, <1>7 DEF CheckCapability
    <2> QED BY Zenon, <2>1, <2>2, MovePreserves
  <1>8. CASE ReleaseId(s)
    BY Zenon, <1>8, MovePreserves DEF ReleaseId
  <1> QED BY Zenon, <1>1, <1>2, <1>3, <1>4, <1>5, <1>6, <1>7, <1>8

\* The capability a session negotiates is the published one.
LEMMA WelcomePreserves ==
    ASSUME FlowInv, NEW s \in Sbs, Welcome(s)
    PROVE  FlowInv'
  <1>1. SbTypes /\ supports \in BOOLEAN /\ io[s] = "welcome"
    BY Zenon DEF FlowInv, FlowTypes, UpTypes, Welcome
  <1>2. /\ io' \in [Sbs -> Labels] /\ io'[s] \in {"reading", "closing"}
        /\ \A t \in Sbs \ {s} : io'[t] = io[t]
    BY Zenon, <1>1 DEF Welcome, MoveTo, SbTypes, Labels, Inside
  <1>3. /\ wl' \in [Sbs -> BOOLEAN] /\ wl'[s] = supports
        /\ \A t \in Sbs \ {s} : wl'[t] = wl[t]
    BY Zenon, <1>1 DEF Welcome, SbTypes
  <1>4. UNCHANGED <<open, sent, queue, upVars>>
    BY Zenon DEF Welcome
  <1>5. SbTypes'
    BY Zenon, <1>1, <1>2, <1>3, <1>4 DEF SbTypes
  <1>6. LastSent[s] <= LastSent'[s]
    BY <1>1, <1>2, <1>4 DEF LastSent, SbTypes
  <1>7. SessionOnly(s)
    BY Zenon, <1>1, <1>2, <1>3, <1>4, <1>5, <1>6 DEF SessionOnly, Passed
  <1> QED BY Zenon, <1>7, SessionOnlyPreserves

\* A frame is numbered when it is read and a permit taken before it is sent.
LEMMA FrameStepsPreserve ==
    ASSUME FlowInv, NEW s \in Sbs, BatchArrives(s) \/ TryReserve(s) \/ CloseQuota(s)
    PROVE  FlowInv'
  <1>1. SbTypes
    BY Zenon DEF FlowInv, FlowTypes
  <1>2. CASE BatchArrives(s)
    <2>1. /\ io' = [io EXCEPT ![s] = "batch"] /\ sent' = [sent EXCEPT ![s] = @ + 1]
          /\ io[s] = "blocked" /\ UNCHANGED <<wl, open, queue, upVars>>
      BY Zenon, <1>2 DEF BatchArrives, MoveTo
    <2>2. SbTypes' /\ io'[s] = "batch"
      BY <1>1, <2>1 DEF SbTypes, Labels, Inside
    <2>3. LastSent[s] <= LastSent'[s]
      BY <1>1, <2>1 DEF LastSent, SbTypes
    <2>5. sent'[s] >= 1 /\ \A t \in Sbs \ {s} : io'[t] = io[t] /\ sent'[t] = sent[t]
      BY <1>1, <2>1 DEF SbTypes
    <2>4. SessionOnly(s)
      BY Zenon, <2>1, <2>2, <2>3, <2>5 DEF SessionOnly, Passed
    <2> QED BY Zenon, <2>4, SessionOnlyPreserves
  <1>3. CASE TryReserve(s)
    <2>1. /\ io[s] = "forward" /\ UNCHANGED <<wl, open, sent, queue, upVars>>
          /\ \/ io' = [io EXCEPT ![s] = "send"]
             \/ io' = [io EXCEPT ![s] = "closing"]
      BY Zenon, <1>3 DEF TryReserve, MoveTo
    <2>2. SbTypes' /\ io'[s] \in {"send", "closing"}
      BY Zenon, <1>1, <2>1 DEF SbTypes, Labels, Inside
    <2>3. LastSent[s] <= LastSent'[s]
      BY <1>1, <2>1, <2>2 DEF LastSent, SbTypes
    <2>5. \A t \in Sbs \ {s} : io'[t] = io[t]
      BY Zenon, <1>1, <2>1 DEF SbTypes
    <2>6. sent[s] >= 1
      BY Zenon, <1>1, <2>1 DEF FlowInv, Bounded
    <2>7. SessionOnly(s)
      BY Zenon, <2>1, <2>2, <2>3, <2>5, <2>6 DEF SessionOnly, Passed
    <2> QED BY Zenon, <2>7, SessionOnlyPreserves
  <1>4. CASE CloseQuota(s)
    <2>1. /\ io[s] = "closing" /\ UNCHANGED <<wl, sent, queue, upVars>>
          /\ open' = [open EXCEPT ![s] = FALSE] /\ io' = [io EXCEPT ![s] = "releasing"]
      BY Zenon, <1>4 DEF CloseQuota, MoveTo
    <2>2. SbTypes' /\ io'[s] = "releasing" /\ ~open'[s]
      BY Zenon, <1>1, <2>1 DEF SbTypes, Labels, Inside
    <2>3. LastSent[s] <= LastSent'[s]
      BY <1>1, <2>1, <2>2 DEF LastSent, SbTypes
    <2>4. \A t \in Sbs \ {s} : io'[t] = io[t] /\ open'[t] = open[t]
      BY Zenon, <1>1, <2>1 DEF SbTypes
    <2>5. SessionOnly(s)
      BY Zenon, <2>1, <2>2, <2>3, <2>4 DEF SessionOnly, Passed
    <2> QED BY Zenon, <2>5, SessionOnlyPreserves
  <1> QED BY Zenon, <1>2, <1>3, <1>4

-----------------------------------------------------------------------------
(* The steps of the upstream worker.                                       *)

\* try_send: the frame goes behind the others with its permit, or both are
\* dropped (upstream.rs:75-98).
LEMMA TrySendPreserves ==
    ASSUME FlowInv, NEW s \in Sbs, TrySend(s)
    PROVE  FlowInv'
  <1>0. /\ FlowTypes /\ Bounded /\ InOrder(queue, held, received) /\ AfterClose
        /\ LinkAgrees /\ OneLeft /\ LeakOnce /\ SbTypes /\ UpTypes
    BY Zenon DEF FlowInv, FlowTypes
  <1>1. /\ io[s] = "send"
        /\ UNCHANGED <<wl, open, sent, up, held, prev, gwId, supports, link, received>>
    BY Zenon DEF TrySend, upVars
  <1>2. CASE /\ queue' = Append(queue, Item(s)) /\ io' = [io EXCEPT ![s] = "reading"]
    <2>0. \A i \in DOMAIN queue : i \in 1 .. Len(queue)
      BY <1>0 DEF UpTypes
    <2>1. Item(s) \in Items /\ Item(s).sb = s /\ Item(s).n = sent[s] /\ sent[s] \in Nat
      BY Zenon, <1>0 DEF Item, Items, SbTypes
    <2> PICK e \in Items : e = Item(s)
      BY Zenon, <2>1
    <2>2. SbTypes' /\ io'[s] = "reading" /\ \A t \in Sbs \ {s} : io'[t] = io[t]
      BY Zenon, <1>0, <1>1, <1>2 DEF SbTypes, Labels, Inside
    <2>3. UpTypes'
      <3>0. queue \in Seq(Items)
        BY Zenon, <1>0 DEF UpTypes
      <3>1. queue' \in Seq(Items)
        BY <1>2, <2>1, <3>0
      <3> QED BY Zenon, <1>0, <1>1, <3>1 DEF UpTypes
    <2>4. /\ DOMAIN queue' = DOMAIN queue \cup {Len(queue) + 1}
          /\ \A i \in DOMAIN queue : queue'[i] = queue[i]
          /\ queue'[Len(queue) + 1] = e /\ Len(queue) + 1 \notin DOMAIN queue
      BY <1>0, <1>2, <2>1 DEF UpTypes
    <2>5. e.sb = s /\ e.n = sent[s] /\ e \in Items /\ queue' = Append(queue, e)
      BY Zenon, <1>2, <2>1
    <2>6. LastSent[s] = sent[s] - 1 /\ LastSent'[s] = sent[s]
          /\ \A t \in Sbs \ {s} : LastSent'[t] = LastSent[t]
      BY Zenon, <1>1, <2>2 DEF LastSent
    <2>7. ASSUME NEW x \in Items, Numbered(x, LastSent)
          PROVE  Numbered(x, LastSent') /\ Earlier(x, e)
      <3>1. x.sb \in Sbs
        BY Zenon DEF Items
      <3>2. x.n \in 1 .. LastSent[x.sb] /\ LastSent[s] = sent[s] - 1 /\ sent[s] \in Nat
        BY Zenon, <2>1, <2>6, <2>7 DEF Numbered
      <3>3. x.n \in 1 .. LastSent'[x.sb] /\ (x.sb = s => x.n < sent[s])
        BY <2>6, <3>1, <3>2
      <3> QED BY Zenon, <2>5, <3>3 DEF Numbered, Earlier
    <2>8. Numbered(e, LastSent')
      <3>1. sent[s] >= 1
        BY Zenon, <1>0, <1>1 DEF Bounded
      <3> QED BY <2>1, <2>5, <2>6, <3>1 DEF Numbered
    <2>9. Bounded'
      <3>1. AllNumbered(queue', held, received, LastSent')
        BY Zenon, <1>0, <2>4, <2>7, <2>8, FlowElements DEF Bounded, AllNumbered
      <3> QED BY Zenon, <1>0, <1>1, <2>2, <3>1 DEF Bounded
    <2>10. InOrder(queue, held, received)'
      <3>1. /\ \A i \in DOMAIN queue : Earlier(queue[i], e)
            /\ \A i \in DOMAIN received : Earlier(received[i].item, e)
            /\ held # NoItem => Earlier(held, e)
        BY Zenon, <1>0, <2>7, FlowElements DEF Bounded, AllNumbered
      <3>2. queue \in Seq(Items)
        BY Zenon, <1>0 DEF UpTypes
      <3>3. InOrder(Append(queue, e), held, received)
        BY Zenon, <1>0, <2>5, <3>1, <3>2, OrderAppend
      <3> QED BY Zenon, <1>1, <2>5, <3>3
    <2>11. AfterClose' /\ LinkAgrees' /\ LeakOnce'
      BY Zenon, <1>0, <1>1 DEF AfterClose, LinkAgrees, LeakOnce
    <2>12. OneLeft'
      <3>1. \A t \in Sbs : /\ InHand(t)' = InHand(t)
                           /\ Passed(t)' => Passed(t) /\ t # s
        BY Zenon, <1>1, <2>2 DEF InHand, Passed
      <3>2. Passed(s)
        BY Zenon, <1>1 DEF Passed
      <3>3. OneLeft /\ UNCHANGED <<wl, up, held, link, received>>
        BY Zenon, <1>0, <1>1
      <3>4. \A i \in DOMAIN queue' : \/ i \in DOMAIN queue /\ queue'[i] = queue[i]
                                     \/ i = Len(queue) + 1 /\ queue'[i] = e
        <4> SUFFICES ASSUME NEW i \in DOMAIN queue'
                     PROVE  \/ i \in DOMAIN queue /\ queue'[i] = queue[i]
                            \/ i = Len(queue) + 1 /\ queue'[i] = e
          OBVIOUS
        <4>1. CASE i \in DOMAIN queue
          BY Zenon, <2>4, <4>1
        <4>2. CASE i \notin DOMAIN queue
          <5>1. i = Len(queue) + 1
            BY Zenon, <2>4, <4>2
          <5> QED BY Zenon, <2>4, <5>1
        <4> QED BY Zenon, <4>1, <4>2
      <3> QED BY Zenon, <2>5, <3>1, <3>2, <3>3, <3>4, OneLeftQueues
    <2> QED BY Zenon, <2>2, <2>3, <2>9, <2>10, <2>11, <2>12 DEF FlowInv, FlowTypes
  <1>3. CASE io' = [io EXCEPT ![s] = "closing"] /\ UNCHANGED queue
    <2>1. SbTypes' /\ io'[s] = "closing" /\ \A t \in Sbs \ {s} : io'[t] = io[t]
      BY Zenon, <1>0, <1>1, <1>3 DEF SbTypes, Labels, Inside
    <2>2. LastSent[s] <= LastSent'[s]
      BY <1>0, <1>1, <2>1 DEF LastSent, SbTypes
    <2>4. SessionOnly(s)
      BY Zenon, <1>1, <1>3, <2>1, <2>2 DEF SessionOnly, Passed, upVars
    <2> QED BY Zenon, <2>4, SessionOnlyPreserves
  <1> QED BY Zenon, <1>2, <1>3 DEF TrySend, MoveTo

\* A step of the worker that moves no item.
LEMMA QuietPreserves ==
    ASSUME FlowInv,
           UNCHANGED <<io, wl, open, sent, queue, held, received>>,
           UpTypes', AfterClose', LinkAgrees', OneLeft'
    PROVE  FlowInv'
  <1>1. SbTypes'
    BY Zenon DEF FlowInv, FlowTypes, SbTypes
  <1>2. LastSent' = LastSent
    BY Zenon DEF LastSent
  <1>3. Bounded'
    BY Zenon, <1>2 DEF FlowInv, Bounded
  <1>4. InOrder(queue, held, received)' /\ LeakOnce'
    BY Zenon DEF FlowInv, LeakOnce
  <1> QED BY Zenon, <1>1, <1>3, <1>4 DEF FlowInv, FlowTypes

\* OneLeft looks at the worker's label only to know the discard.
LEMMA OneLeftStays ==
    ASSUME OneLeft, UNCHANGED <<io, wl, queue, held, link, received>>,
           up' = up \/ up # "discard"
    PROVE  OneLeft'
  BY Zenon DEF OneLeft, InHand, Passed

\* The worker begins a turn with the kept item, or looks at a live session's
\* item (upstream.rs:226).
LEMMA TurnPreserves ==
    ASSUME FlowInv, UNCHANGED <<io, wl, open, sent, queue, held, received,
                                prev, gwId, supports, link>>,
           held # NoItem,
           \/ up = "loop" /\ up' = "have"
           \/ up = "have" /\ up' = "write" /\ open[held.sb]
    PROVE  FlowInv'
  <1>1. UpTypes /\ AfterClose /\ LinkAgrees /\ OneLeft
    BY Zenon DEF FlowInv, FlowTypes
  <1>2. UpTypes'
    BY Zenon, <1>1 DEF UpTypes
  <1>3. AfterClose'
    BY Zenon, <1>1 DEF AfterClose
  <1>4. LinkAgrees'
    BY Zenon, <1>1 DEF LinkAgrees
  <1>5. OneLeft'
    BY Zenon, <1>1, OneLeftStays
  <1> QED BY Zenon, <1>2, <1>3, <1>4, <1>5, QuietPreserves

\* A failed write and the way to a new connection (upstream.rs:177-224).
LEMMA ReconnectPreserves ==
    ASSUME FlowInv,
           \/ UpFails \/ UpWithdraws \/ UpPublishesId \/ UpPublishesWorkload
           \/ \E workload \in BOOLEAN : UpReconnects(workload)
    PROVE  FlowInv'
  <1>0. UpTypes /\ AfterClose /\ LinkAgrees /\ OneLeft /\ FlowTypes
    BY Zenon DEF FlowInv, FlowTypes
  <1>1. CASE UpFails
    <2>1. /\ UNCHANGED <<io, wl, open, sent, queue, held, supports, link, received>>
          /\ up \in {"write", "loop"} /\ up' = "failed" /\ prev' = supports
      BY Zenon, <1>1 DEF UpFails, UpUnchanged
    <2>2. UpTypes'
      BY Zenon, <1>0, <2>1 DEF UpTypes
    <2>3. AfterClose' /\ LinkAgrees'
      BY Zenon, <1>0, <2>1 DEF AfterClose, LinkAgrees
    <2>4. OneLeft'
      BY Zenon, <1>0, <2>1, OneLeftStays
    <2> QED BY Zenon, <2>1, <2>2, <2>3, <2>4, QuietPreserves
  <1>2. CASE UpWithdraws
    <2>1. /\ UNCHANGED <<io, wl, open, sent, queue, held, prev, link, received>>
          /\ up = "failed" /\ up' = "reconnecting" /\ supports' = FALSE
      BY Zenon, <1>2 DEF UpWithdraws, UpUnchanged
    <2>2. UpTypes'
      BY Zenon, <1>0, <2>1 DEF UpTypes
    <2>3. AfterClose' /\ LinkAgrees'
      BY Zenon, <1>0, <2>1 DEF AfterClose, LinkAgrees
    <2>4. OneLeft'
      BY Zenon, <1>0, <2>1, OneLeftStays
    <2> QED BY Zenon, <2>1, <2>2, <2>3, <2>4, QuietPreserves
  <1>3. CASE UpPublishesId \/ UpPublishesWorkload
    <2>1. /\ UNCHANGED <<io, wl, open, sent, queue, held, prev, link, received>>
          /\ \/ up = "publish" /\ up' = "publishWorkload" /\ supports' = supports
             \/ up = "publishWorkload" /\ up' = "loop" /\ supports' = link.workload
      BY Zenon, <1>3 DEF UpPublishesId, UpPublishesWorkload, UpUnchanged
    <2>2. UpTypes'
      <3>1. link.workload \in BOOLEAN
        BY Zenon, <1>0 DEF UpTypes, LinkSet
      <3> QED BY Zenon, <1>0, <2>1, <3>1 DEF UpTypes
    <2>3. AfterClose' /\ LinkAgrees'
      BY <1>0, <2>1 DEF AfterClose, LinkAgrees
    <2>4. OneLeft'
      BY Zenon, <1>0, <2>1, OneLeftStays
    <2> QED BY Zenon, <2>1, <2>2, <2>3, <2>4, QuietPreserves
  <1>4. ASSUME NEW workload \in BOOLEAN, UpReconnects(workload) PROVE FlowInv'
    <2>1. /\ UNCHANGED <<io, wl, open, sent, queue, held, prev, supports, received>>
          /\ up = "reconnecting" /\ link' = [no |-> link.no + 1, workload |-> workload]
          /\ up' = IF prev /\ ~workload THEN "discard" ELSE "publish"
      BY Zenon, <1>4 DEF UpReconnects, UpUnchanged
    <2>2. link.no \in Nat /\ link' \in LinkSet /\ link'.no = link.no + 1
          /\ link'.workload = workload
      BY <1>0, <2>1 DEF UpTypes, LinkSet
    <2>3. up' \in {"discard", "publish"}
      BY Zenon, <2>1
    <2>4. UpTypes'
      BY Zenon, <1>0, <2>1, <2>2, <2>3 DEF UpTypes
    <2>5. \A i \in DOMAIN received : received[i].link.no \in Nat /\ received[i].link.no < link'.no
      BY <1>0, <2>2, FlowElements DEF LinkAgrees, LinkSet
    <2>6. AfterClose'
      BY Zenon, <1>0, <2>1, <2>3 DEF AfterClose
    <2>7. LinkAgrees'
      BY <1>0, <2>1, <2>2, <2>3, <2>5 DEF LinkAgrees
    <2>8. OneLeft'
      <3>1. SUFFICES ASSUME ~workload, up' # "discard" PROVE OneLeft'
        BY Zenon, <2>2 DEF OneLeft
      <3>2. ~link.workload /\ up # "discard"
        BY Zenon, <1>0, <2>1, <3>1 DEF LinkAgrees
      <3>3. \A i \in DOMAIN received : received[i].link.no # link'.no
        BY <2>2, <2>5
      <3> QED BY Zenon, <1>0, <2>1, <3>2, <3>3, OneLeftReconnects
    <2> QED BY Zenon, <2>1, <2>4, <2>6, <2>7, <2>8, QuietPreserves
  <1> QED BY Zenon, <1>1, <1>2, <1>3, <1>4

\* The facts every step of the worker that moves an item starts from.
LEMMA UpFacts ==
    ASSUME FlowInv
    PROVE  /\ FlowTypes /\ SbTypes /\ UpTypes /\ AfterClose /\ LinkAgrees /\ OneLeft /\ LeakOnce
           /\ queue \in Seq(Items) /\ received \in Seq(Copies)
           /\ InOrder(queue, held, received)
           /\ AllNumbered(queue, held, received, LastSent)
  BY Zenon DEF FlowInv, FlowTypes, UpTypes, Bounded

\* What a step of the worker that moves an item has to establish.
LEMMA UpMoves ==
    ASSUME FlowInv, UNCHANGED <<io, wl, open, sent>>,
           UpTypes', AfterClose', LinkAgrees', OneLeft', LeakOnce',
           InOrder(queue', held', received'),
           AllNumbered(queue', held', received', LastSent)
    PROVE  FlowInv'
  <1>1. SbTypes'
    BY Zenon DEF FlowInv, FlowTypes, SbTypes
  <1>2. LastSent' = LastSent
    BY Zenon DEF LastSent
  <1>3. Bounded'
    BY Zenon, <1>2 DEF FlowInv, Bounded
  <1> QED BY Zenon, <1>1, <1>3 DEF FlowInv, FlowTypes

\* The held item is dropped: its session has closed, or the connection it was
\* kept for had the capability (upstream.rs:218-228).
LEMMA DropHeldPreserves ==
    ASSUME FlowInv, UNCHANGED <<io, wl, open, sent, queue, prev, supports, link, received>>,
           held # NoItem, held' = NoItem,
           \/ up = "have" /\ up' = "loop"
           \/ up = "discard" /\ up' = up
    PROVE  FlowInv'
  <1>1. UpTypes'
    BY Zenon, UpFacts DEF UpTypes
  <1>2. AfterClose' /\ LinkAgrees' /\ LeakOnce'
    BY Zenon, UpFacts DEF AfterClose, LinkAgrees, LeakOnce
  <1>3. OneLeft'
    BY Zenon, UpFacts DEF OneLeft, InHand, Passed
  <1>4. InOrder(queue', held', received') /\ AllNumbered(queue', held', received', LastSent)
    BY Zenon, UpFacts DEF InOrder, AllNumbered
  <1> QED BY Zenon, <1>1, <1>2, <1>3, <1>4, UpMoves

\* The next item is taken from the channel, or dropped with its permit.
LEMMA TakePreserves ==
    ASSUME FlowInv, UNCHANGED <<io, wl, open, sent, prev, supports, link, received>>,
           held = NoItem, queue # <<>>, queue' = Tail(queue),
           \/ up = "loop" /\ up' = "have" /\ held' = Head(queue)
           \/ up = "discard" /\ up' = up /\ held' = NoItem
    PROVE  FlowInv'
  <1>1. /\ Head(queue) \in Items /\ Tail(queue) \in Seq(Items)
        /\ DOMAIN Tail(queue) = {i \in DOMAIN queue : i + 1 \in DOMAIN queue}
        /\ \A i \in DOMAIN Tail(queue) : Tail(queue)[i] = queue[i + 1]
        /\ Head(queue) = queue[1] /\ 1 \in DOMAIN queue
        /\ \A h \in {NoItem, Head(queue)} :
             /\ InOrder(Tail(queue), h, received)
             /\ AllNumbered(Tail(queue), h, received, LastSent)
    BY Zenon, UpFacts, TailKeeps
  <1>2. held' \in {NoItem, Head(queue)} /\ Head(queue) # NoItem /\ Head(queue).sb \in Sbs
    BY Zenon, <1>1, NoItemIsNone DEF Items
  <1>3. UpTypes'
    BY Zenon, <1>1, <1>2, UpFacts DEF UpTypes
  <1>4. AfterClose' /\ LinkAgrees' /\ LeakOnce'
    BY Zenon, UpFacts DEF AfterClose, LinkAgrees, LeakOnce
  <1>5. OneLeft'
    <2> SUFFICES ASSUME ~link.workload, up = "loop", NEW s \in Sbs, wl[s]
                 PROVE  (/\ \A i, j \in DOMAIN queue : queue[i].sb = s /\ queue[j].sb = s => i = j
                         /\ \A i \in DOMAIN queue : queue[i].sb = s => ~InHand(s) /\ ~Passed(s)
                         /\ InHand(s) => ~Passed(s)
                         /\ \A i \in DOMAIN received :
                              received[i].item.sb = s /\ received[i].link.no = link.no =>
                                /\ ~InHand(s) /\ ~Passed(s)
                                /\ \A j \in DOMAIN queue : queue[j].sb # s)'
      BY Zenon DEF OneLeft
    <2>1. /\ \A i, j \in DOMAIN queue : queue[i].sb = s /\ queue[j].sb = s => i = j
          /\ \A i \in DOMAIN queue : queue[i].sb = s => ~Passed(s)
          /\ \A i \in DOMAIN received :
               received[i].item.sb = s /\ received[i].link.no = link.no =>
                 ~Passed(s) /\ \A j \in DOMAIN queue : queue[j].sb # s
      BY Zenon, UpFacts DEF OneLeft
    <2>2. Passed(s)' = Passed(s) /\ (InHand(s)' => queue[1].sb = s)
      BY Zenon, <1>1 DEF Passed, InHand
    <2>3. \A i \in DOMAIN Tail(queue) : /\ i + 1 \in DOMAIN queue /\ i + 1 # 1 /\ i \in Nat
                                        /\ Tail(queue)[i] = queue[i + 1]
      BY <1>1, UpFacts
    <2>4. \A i, j \in DOMAIN Tail(queue) : i + 1 = j + 1 => i = j
      BY <2>3
    <2>5. 1 \in DOMAIN queue
      BY Zenon, <1>1
    <2> HIDE DEF Passed, InHand
    <2>6. /\ \A i, j \in DOMAIN queue' : queue'[i].sb = s /\ queue'[j].sb = s => i = j
          /\ \A i \in DOMAIN queue' : queue'[i].sb = s => ~InHand(s)' /\ ~Passed(s)'
      BY <2>1, <2>2, <2>3, <2>4, <2>5
    <2>7. /\ InHand(s)' => ~Passed(s)'
          /\ \A i \in DOMAIN received :
               received[i].item.sb = s /\ received[i].link.no = link.no =>
                 /\ ~InHand(s)' /\ ~Passed(s)'
                 /\ \A j \in DOMAIN queue' : queue'[j].sb # s
      BY Zenon, <2>1, <2>2, <2>3, <2>5
    <2> QED BY Zenon, <2>6, <2>7
  <1>9. InOrder(queue', held', received') /\ AllNumbered(queue', held', received', LastSent)
    BY Zenon, <1>1, <1>2
  <1> QED BY Zenon, <1>3, <1>4, <1>5, <1>9, UpMoves

\* The discard is over when the channel was found empty.
LEMMA DiscardEndsPreserves ==
    ASSUME FlowInv, UNCHANGED <<io, wl, open, sent, queue, held, received,
                                prev, gwId, supports, link>>,
           up = "discard", up' = "publish", held = NoItem, queue = <<>>
    PROVE  FlowInv'
  <1>1. UpTypes'
    BY Zenon, UpFacts DEF UpTypes
  <1>2. AfterClose' /\ LinkAgrees'
    BY Zenon, UpFacts DEF AfterClose, LinkAgrees
  <1>3. OneLeft'
    <2>1. \A s \in Sbs : ~InHand(s)'
      BY Zenon DEF InHand
    <2>2. \A i \in DOMAIN received : received[i].link.no # link.no
      BY Zenon, UpFacts DEF LinkAgrees
    <2>3. DOMAIN queue = {}
      OBVIOUS
    <2> QED BY Zenon, <2>1, <2>2, <2>3 DEF OneLeft
  <1> QED BY Zenon, <1>1, <1>2, <1>3, QuietPreserves

\* The item is written once, on the connection of the moment.
LEMMA WritesPreserves ==
    ASSUME FlowInv, UpWrites
    PROVE  FlowInv'
  <1>1. /\ up = "write" /\ up' = "loop" /\ held' = NoItem
        /\ UNCHANGED <<io, wl, open, sent, queue, prev, supports, link>>
        /\ received' = Append(received, [item |-> held, link |-> link, closed |-> ~open[held.sb]])
    BY Zenon DEF UpWrites, UpUnchanged
  <1>2. held # NoItem /\ held \in Items /\ held.sb \in Sbs /\ link \in LinkSet
    BY Zenon, <1>1, UpFacts, FlowElements DEF UpTypes
  <1>3. (~open[held.sb]) \in BOOLEAN
    BY Zenon
  <1>4. PICK c \in Copies : /\ c.item = held /\ c.link = link /\ c.closed = ~open[held.sb]
                            /\ received' = Append(received, c)
    BY Zenon, <1>1, <1>2, <1>3 DEF Copies
  <1>5. /\ Len(received) \in Nat /\ DOMAIN received = 1 .. Len(received)
        /\ received' \in Seq(Copies)
        /\ DOMAIN received' = 1 .. Len(received) + 1
        /\ \A i \in 1 .. Len(received) : received'[i] = received[i]
        /\ received'[Len(received) + 1] = c
    <2>1. received \in Seq(Copies)
      BY Zenon, UpFacts
    <2> QED BY <1>4, <2>1
  <1>6. \A i \in DOMAIN received' : \/ i \in DOMAIN received /\ received'[i] = received[i]
                                    \/ i = Len(received) + 1 /\ received'[i] = c
    BY <1>5
  <1>7. UpTypes'
    BY Zenon, <1>1, <1>2, <1>5, UpFacts DEF UpTypes
  <1>8. AfterClose'
    <2>1. c.closed => ~open[held.sb]
      BY Zenon, <1>4
    <2>2. \A i \in DOMAIN received : received[i].closed =>
            ~open[received[i].item.sb] /\ received[i].item.sb # held.sb
      BY Zenon, <1>1, UpFacts DEF AfterClose
    <2>3. \A i \in DOMAIN received' : received'[i].closed => ~open[received'[i].item.sb]
      BY Zenon, <1>4, <1>6, <2>1, <2>2
    <2>4. \A i, j \in DOMAIN received' :
            /\ received'[i].closed /\ received'[j].closed
            /\ received'[i].item.sb = received'[j].item.sb
            => i = j
      <3>1. AfterClose
        BY Zenon, UpFacts
      <3> QED BY <1>4, <1>6, <2>2, <3>1 DEF AfterClose
    <2> QED BY Zenon, <1>1, <2>3, <2>4 DEF AfterClose
  <1>9. LinkAgrees'
    <2>1. link.no \in Nat
      BY Zenon, <1>2 DEF LinkSet
    <2>2. \A i \in DOMAIN received' : /\ received'[i].link.no <= link.no
                                      /\ received'[i].link.no = link.no => received'[i].link = link
      <3>1. \A i \in DOMAIN received : /\ received[i].link.no <= link.no
                                       /\ received[i].link.no = link.no => received[i].link = link
        BY Zenon, UpFacts DEF LinkAgrees
      <3>2. c.link = link /\ link.no <= link.no
        BY <1>4, <2>1
      <3> QED BY Zenon, <1>6, <3>1, <3>2
    <2> QED BY Zenon, <1>1, <2>2, UpFacts DEF LinkAgrees
  <1>10. OneLeft'
    <2>1. \A s \in Sbs : ~InHand(s)' /\ Passed(s)' = Passed(s)
      BY Zenon, <1>1 DEF InHand, Passed
    <2>2. InHand(held.sb)
      BY Zenon, <1>2 DEF InHand
    <2>3. c.item.sb = held.sb /\ OneLeft /\ up # "discard" /\ held.sb \in Sbs
      BY Zenon, <1>1, <1>2, <1>4, UpFacts
    <2> HIDE DEF InHand, Passed
    <2>4. SUFFICES ASSUME ~link.workload, NEW s \in Sbs, wl[s]
                   PROVE  (/\ \A i, j \in DOMAIN queue : queue[i].sb = s /\ queue[j].sb = s => i = j
                           /\ \A i \in DOMAIN queue : queue[i].sb = s => ~Passed(s)
                           /\ \A i \in DOMAIN received :
                                received[i].item.sb = s /\ received[i].link.no = link.no =>
                                  ~Passed(s) /\ \A j \in DOMAIN queue : queue[j].sb # s)'
      BY Zenon, <1>1, <2>1 DEF OneLeft
    <2>5. /\ \A i, j \in DOMAIN queue : queue[i].sb = s /\ queue[j].sb = s => i = j
          /\ \A i \in DOMAIN queue : queue[i].sb = s => ~InHand(s) /\ ~Passed(s)
          /\ InHand(s) => ~Passed(s)
          /\ \A i \in DOMAIN received :
               received[i].item.sb = s /\ received[i].link.no = link.no =>
                 ~Passed(s) /\ \A j \in DOMAIN queue : queue[j].sb # s
      BY Zenon, <2>3, <2>4 DEF OneLeft
    <2>6. ASSUME NEW i \in DOMAIN received', received'[i].item.sb = s,
                 received'[i].link.no = link.no
          PROVE  ~Passed(s) /\ \A j \in DOMAIN queue : queue[j].sb # s
      <3>1. CASE i \in DOMAIN received /\ received'[i] = received[i]
        BY Zenon, <2>5, <2>6, <3>1
      <3>2. CASE received'[i] = c
        BY Zenon, <2>2, <2>3, <2>5, <2>6, <3>2
      <3> QED BY Zenon, <1>6, <3>1, <3>2
    <2> QED BY Zenon, <1>1, <2>1, <2>5, <2>6
  <1>11. LeakOnce'
    <2>1. ASSUME wl[held.sb], ~link.workload, NEW i \in DOMAIN received,
                 received[i].item.sb = held.sb
          PROVE  received[i].link # link
      BY Zenon, <1>1, <1>2, <2>1, UpFacts DEF OneLeft, InHand
    <2>2. \A i, j \in DOMAIN received' :
            /\ received'[i].item.sb = received'[j].item.sb /\ wl[received'[i].item.sb]
            /\ received'[i].link = received'[j].link /\ ~received'[i].link.workload
            => i = j
      <3>1. LeakOnce
        BY Zenon, UpFacts
      <3>2. \A i \in DOMAIN received : /\ received[i].item.sb = c.item.sb /\ wl[c.item.sb]
                                        /\ ~c.link.workload
                                        => received[i].link # c.link
        BY Zenon, <1>4, <2>1
      <3>3. ASSUME NEW i \in DOMAIN received', NEW j \in DOMAIN received',
                   received'[i].item.sb = received'[j].item.sb, wl[received'[i].item.sb],
                   received'[i].link = received'[j].link, ~received'[i].link.workload
            PROVE  i = j
        <4>1. CASE i \in DOMAIN received /\ j \in DOMAIN received
          <5>1. received'[i] = received[i] /\ received'[j] = received[j]
            BY Zenon, <1>5, <4>1
          <5> QED BY Zenon, <3>1, <3>3, <4>1, <5>1 DEF LeakOnce
        <4>2. CASE i \in DOMAIN received /\ received'[i] = received[i] /\ received'[j] = c
          BY <3>2, <3>3, <4>2, Zenon
        <4>3. CASE j \in DOMAIN received /\ received'[j] = received[j] /\ received'[i] = c
          BY <3>2, <3>3, <4>3, Zenon
        <4>4. CASE i = Len(received) + 1 /\ j = Len(received) + 1
          BY Zenon, <4>4
        <4> QED BY <1>6, <4>1, <4>2, <4>3, <4>4, Zenon
      <3> QED BY <3>3, Zenon
    <2> QED BY Zenon, <1>1, <2>2 DEF LeakOnce
  <1>12. InOrder(queue', held', received') /\ AllNumbered(queue', held', received', LastSent)
    BY Zenon, <1>1, <1>2, <1>4, UpFacts, WriteKeeps
  <1> QED BY Zenon, <1>1, <1>7, <1>8, <1>9, <1>10, <1>11, <1>12, UpMoves

\* The receiver goes with everything that is in the channel.
LEMMA StopsPreserves ==
    ASSUME FlowInv, UpStops
    PROVE  FlowInv'
  <1>1. /\ up \in {"loop", "reconnecting"} /\ up' = "stopped" /\ supports' = FALSE
        /\ held' = NoItem /\ queue' = <<>>
        /\ UNCHANGED <<io, wl, open, sent, prev, link, received>>
    BY Zenon DEF UpStops, UpUnchanged
  <1>2. DOMAIN queue' = {} /\ queue' \in Seq(Items)
    BY <1>1
  <1>3. UpTypes'
    BY Zenon, <1>1, <1>2, UpFacts DEF UpTypes
  <1>4. AfterClose' /\ LinkAgrees' /\ LeakOnce'
    BY Zenon, <1>1, UpFacts DEF AfterClose, LinkAgrees, LeakOnce
  <1>5. OneLeft'
    <2>1. \A s \in Sbs : ~InHand(s)' /\ Passed(s)' = Passed(s)
      BY Zenon, <1>1 DEF InHand, Passed
    <2> QED BY Zenon, <1>1, <1>2, <2>1, UpFacts DEF OneLeft
  <1>6. InOrder(queue', held', received') /\ AllNumbered(queue', held', received', LastSent)
    BY Zenon, <1>1, <1>2, UpFacts DEF InOrder, AllNumbered
  <1> QED BY Zenon, <1>1, <1>3, <1>4, <1>5, <1>6, UpMoves

-----------------------------------------------------------------------------
(* The permits, and what the invariant says of the frames written.         *)

\* Every step keeps the invariant of the flow.
LEMMA NextFlow == FlowInv /\ [Next]_vars => FlowInv'
  <1> SUFFICES ASSUME FlowInv, [Next]_vars PROVE FlowInv'
    OBVIOUS
  <1>0. ASSUME UNCHANGED <<sessionVars, queue, upVars>> PROVE FlowInv'
    <2>1. UNCHANGED <<io, wl, open, sent, queue, held, received, up, prev,
                      supports, link>>
      BY Zenon, <1>0 DEF sessionVars, upVars
    <2>2. UpTypes' /\ AfterClose' /\ LinkAgrees'
      BY Zenon, <2>1, UpFacts DEF UpTypes, AfterClose, LinkAgrees
    <2>3. OneLeft'
      BY Zenon, <2>1, UpFacts, OneLeftStays
    <2> QED BY Zenon, <2>1, <2>2, <2>3, QuietPreserves
  <1>1. CASE CallerStep
    BY Zenon, <1>0, <1>1 DEF CallerStep, ShutdownStop, ShutdownUpstream, ShutdownReturn
  <1>2. CASE AcceptStep
    <2>1. CASE AcceptLoop \/ AcceptNone \/ AcceptJoin
      BY Zenon, <1>0, <2>1 DEF AcceptLoop, AcceptNone, AcceptJoin
    <2> QED BY Zenon, <1>2, <2>1, PlainSessionSteps DEF AcceptStep
  <1>3. CASE \E s \in Sbs : SbStep(s)
    BY Zenon, <1>3, PlainSessionSteps, WelcomePreserves, FrameStepsPreserve, TrySendPreserves
    DEF SbStep
  <1>4. CASE UpTakes
    BY Zenon, <1>4, TurnPreserves, TakePreserves DEF UpTakes, UpUnchanged
  <1>5. CASE UpChecksActive
    <2>1. up = "have" /\ held # NoItem
      BY Zenon, <1>5, UpFacts DEF UpChecksActive, UpTypes
    <2> QED BY Zenon, <1>5, <2>1, TurnPreserves, DropHeldPreserves DEF UpChecksActive, UpUnchanged
  <1>6. CASE UpDiscards
    BY Zenon, <1>6, DropHeldPreserves, TakePreserves, DiscardEndsPreserves
    DEF UpDiscards, UpUnchanged
  <1>7. CASE UpStep
    BY Zenon, <1>4, <1>5, <1>6, <1>7, StopsPreserves, WritesPreserves, ReconnectPreserves
    DEF UpStep, UpProgress
  <1>8. CASE UNCHANGED vars
    BY Zenon, <1>0, <1>8 DEF vars
  <1> QED BY Zenon, <1>1, <1>2, <1>3, <1>7, <1>8 DEF Next

LEMMA FlowInductive == Spec => []FlowInv
  BY InitFlow, NextFlow, PTL DEF Spec

\* The places of a session in a channel, and their number.
Places(q, s) == {i \in DOMAIN q : q[i].sb = s}
Count(q, s) == Cardinality(Places(q, s))

\* The places of a session in a channel can be counted.
LEMMA CountType ==
    ASSUME NEW q \in Seq(Items), NEW s
    PROVE  IsFiniteSet(Places(q, s)) /\ Count(q, s) \in Nat
  <1>1. IsFiniteSet(1 .. Len(q)) /\ DOMAIN q = 1 .. Len(q)
    BY FS_Interval
  <1>2. IsFiniteSet(Places(q, s))
    BY Zenon, <1>1, FS_Subset DEF Places
  <1> QED BY Zenon, <1>2, FS_CardinalityType DEF Count

\* What try_send adds to the channel.
LEMMA CountAppend ==
    ASSUME NEW q \in Seq(Items), NEW e \in Items, NEW s
    PROVE  Count(Append(q, e), s) = Count(q, s) + IF e.sb = s THEN 1 ELSE 0
  <1>1. IsFiniteSet(Places(q, s)) /\ Count(q, s) \in Nat
    BY Zenon, CountType
  <1>2. CASE e.sb = s
    <2>1. Places(Append(q, e), s) = Places(q, s) \cup {Len(q) + 1}
      BY <1>2 DEF Places
    <2>2. Len(q) + 1 \notin Places(q, s)
      BY DEF Places
    <2>3. Count(Append(q, e), s) = Count(q, s) + 1
      BY Zenon, <1>1, <2>1, <2>2, FS_AddElement DEF Count
    <2> QED BY Zenon, <1>2, <2>3
  <1>3. CASE e.sb # s
    <2>1. Places(Append(q, e), s) = Places(q, s)
      BY <1>3 DEF Places
    <2>2. Count(Append(q, e), s) = Count(q, s)
      BY Zenon, <2>1 DEF Count
    <2> QED BY <1>1, <1>3, <2>2
  <1> QED BY Zenon, <1>2, <1>3

\* What recv takes out of the channel: the other places move up by one.
LEMMA CountTail ==
    ASSUME NEW q \in Seq(Items), q # <<>>, NEW s
    PROVE  Count(q, s) = Count(Tail(q), s) + IF Head(q).sb = s THEN 1 ELSE 0
  <1> DEFINE P == Places(q, s)
             T == Places(Tail(q), s)
             f == [i \in T |-> i + 1]
  <1>1. Tail(q) \in Seq(Items) /\ Len(q) \in Nat /\ Len(q) >= 1
        /\ Len(Tail(q)) = Len(q) - 1 /\ DOMAIN q = 1 .. Len(q)
        /\ DOMAIN Tail(q) = 1 .. Len(q) - 1
        /\ \A i \in 1 .. Len(q) - 1 : Tail(q)[i] = q[i + 1]
    OBVIOUS
  <1>2. IsFiniteSet(P) /\ IsFiniteSet(T) /\ Cardinality(T) \in Nat /\ Cardinality(P) \in Nat
    BY Zenon, <1>1, CountType DEF Count
  <1>3. T \subseteq Int /\ P \subseteq Int
    BY <1>1 DEF Places
  <1>4. \A i \in T : i + 1 \in P \ {1}
    BY <1>1 DEF Places
  <1>5. \A j \in P \ {1} : j - 1 \in T
    BY <1>1 DEF Places
  <1>8. 1 \in P <=> Head(q).sb = s
    BY <1>1 DEF Places
  <1> HIDE DEF T, P
  <1>6. f \in Bijection(T, P \ {1})
    <2>1. f \in [T -> P \ {1}]
      BY Zenon, <1>4
    <2>2. \A i, j \in T : f[i] = f[j] => i = j
      BY <1>3
    <2>3. \A j \in P \ {1} : f[j - 1] = j
      BY <1>3, <1>5
    <2>4. \A j \in P \ {1} : \E i \in T : f[i] = j
      BY Zenon, <1>5, <2>3
    <2> HIDE DEF f
    <2> QED BY Zenon, <2>1, <2>2, <2>4 DEF Bijection, Injection, Surjection, IsInjective
  <1>7. Cardinality(P \ {1}) = Cardinality(T)
    BY Zenon, <1>2, <1>6, FS_Bijection DEF ExistsBijection
  <1>9. CASE Head(q).sb = s
    <2>1. Cardinality(P \ {1}) = Cardinality(P) - 1
      BY Zenon, <1>2, <1>8, <1>9, FS_RemoveElement
    <2>2. Cardinality(P) = Cardinality(T) + 1
      BY <1>2, <1>7, <2>1
    <2> QED BY Zenon, <1>9, <2>2 DEF Count, P, T
  <1>10. CASE Head(q).sb # s
    <2>1. P \ {1} = P
      BY Zenon, <1>8, <1>10
    <2>2. Count(q, s) = Count(Tail(q), s) /\ Count(q, s) \in Nat
      BY Zenon, <1>2, <1>7, <2>1 DEF Count, P, T
    <2> QED BY <1>10, <2>2
  <1> QED BY Zenon, <1>9, <1>10

\* An empty channel holds nothing of anyone.
LEMMA CountEmpty ==
    ASSUME NEW s
    PROVE  Count(<<>>, s) = 0
  <1>1. Places(<<>>, s) = {}
    BY DEF Places
  <1> QED BY Zenon, <1>1, FS_EmptySet DEF Count

\* Every permit in use is at one place: with the session that is about to send,
\* in the channel, or in the hands of the worker.
Sending(s) == IF io[s] = "send" THEN 1 ELSE 0
Balanced == \A s \in Sbs : pending[s] = Count(queue, s) + Held(s) + Sending(s)
PermitInv == pending \in [Sbs -> Int] /\ Balanced

\* The numbers the balance is made of.
LEMMA Balances ==
    ASSUME FlowInv
    PROVE  \A s \in Sbs : Count(queue, s) \in Nat /\ Held(s) \in Nat /\ Sending(s) \in Nat
  <1>1. \A s \in Sbs : Count(queue, s) \in Nat
    BY Zenon, UpFacts, CountType
  <1>2. \A s \in Sbs : Held(s) \in Nat /\ Sending(s) \in Nat
    BY Zenon DEF Held, Sending
  <1> QED BY Zenon, <1>1, <1>2

\* A step that moves neither an item nor a permit.
LEMMA QuietPermits ==
    ASSUME PermitInv, UNCHANGED <<pending, queue, held>>,
           \A s \in Sbs : io'[s] = "send" <=> io[s] = "send"
    PROVE  PermitInv'
  <1>1. \A s \in Sbs : Held(s)' = Held(s) /\ Sending(s)' = Sending(s)
    BY Zenon DEF Held, Sending
  <1> QED BY Zenon, <1>1 DEF PermitInv, Balanced

\* A session moves from one label to another and takes or drops one permit of
\* its own accordingly.
LEMMA SessionPermits ==
    ASSUME FlowInv, PermitInv, NEW s \in Sbs, NEW l,
           MoveTo(s, l), UNCHANGED <<queue, held>>, pending' \in [Sbs -> Int],
           \A t \in Sbs \ {s} : pending'[t] = pending[t],
           pending'[s] = pending[s] - Sending(s) + IF l = "send" THEN 1 ELSE 0
    PROVE  PermitInv'
  <1>1. \A t \in Sbs : Held(t)' = Held(t)
    BY Zenon DEF Held
  <1>2. \A t \in Sbs : Sending(t)' = IF t = s THEN (IF l = "send" THEN 1 ELSE 0) ELSE Sending(t)
    BY Zenon, UpFacts DEF Sending, MoveTo, SbTypes
  <1>3. \A t \in Sbs : pending[t] = Count(queue, t) + Held(t) + Sending(t)
    BY Zenon DEF PermitInv, Balanced
  <1>4. \A t \in Sbs : pending'[t] = Count(queue, t) + Held(t) + Sending(t)'
    BY <1>2, <1>3, Balances
  <1> QED BY Zenon, <1>1, <1>4 DEF PermitInv, Balanced

\* The worker lets go of an item of session x and of its permit.
LEMMA DroppedPermits ==
    ASSUME FlowInv, PermitInv, NEW x \in Sbs, DropPermit(x), UNCHANGED io,
           \A s \in Sbs : Count(queue', s) + Held(s)'
                            = Count(queue, s) + Held(s) - IF s = x THEN 1 ELSE 0
    PROVE  PermitInv'
  <1>1. \A s \in Sbs : Sending(s)' = Sending(s)
    BY Zenon DEF Sending
  <1>2. /\ pending' \in [Sbs -> Int]
        /\ \A s \in Sbs : pending'[s] = pending[s] - IF s = x THEN 1 ELSE 0
    BY DEF PermitInv, DropPermit
  <1>3. Balanced'
    BY <1>1, <1>2, Balances DEF PermitInv, Balanced
  <1> QED BY Zenon, <1>2, <1>3 DEF PermitInv

\* The held item is dropped or written.
LEMMA HeldPermits ==
    ASSUME FlowInv, PermitInv, held # NoItem, held' = NoItem, UNCHANGED <<io, queue>>,
           DropPermit(held.sb)
    PROVE  PermitInv'
  <1>1. held.sb \in Sbs
    BY Zenon, UpFacts, FlowElements
  <1>2. \A s \in Sbs : Held(s) = (IF s = held.sb THEN 1 ELSE 0) /\ Held(s)' = 0
    BY Zenon DEF Held
  <1>3. \A s \in Sbs : Count(queue', s) + Held(s)'
                         = Count(queue, s) + Held(s) - IF s = held.sb THEN 1 ELSE 0
    BY <1>2, Balances
  <1> QED BY Zenon, <1>1, <1>3, DroppedPermits

\* The next item leaves the channel: into the hands of the worker with its
\* permit, or dropped together with it.
LEMMA TakePermits ==
    ASSUME FlowInv, PermitInv, held = NoItem, queue # <<>>, queue' = Tail(queue),
           UNCHANGED io,
           \/ held' = Head(queue) /\ UNCHANGED pending
           \/ held' = NoItem /\ DropPermit(Head(queue).sb)
    PROVE  PermitInv'
  <1>1. queue \in Seq(Items) /\ Head(queue) \in Items /\ Tail(queue) \in Seq(Items)
    BY UpFacts
  <1>2. Head(queue).sb \in Sbs /\ Head(queue) # NoItem
    BY Zenon, <1>1, NoItemIsNone DEF Items
  <1>3. \A s \in Sbs : Count(queue, s) = Count(queue', s) + IF Head(queue).sb = s THEN 1 ELSE 0
    BY Zenon, <1>1, CountTail
  <1>4. \A s \in Sbs : Count(queue', s) \in Nat
    BY Zenon, <1>1, CountType
  <1>5. \A s \in Sbs : Held(s) = 0 /\ Sending(s)' = Sending(s)
    BY Zenon DEF Held, Sending
  <1>6. CASE held' = Head(queue) /\ UNCHANGED pending
    <2>1. \A s \in Sbs : Held(s)' = IF Head(queue).sb = s THEN 1 ELSE 0
      BY Zenon, <1>2, <1>6 DEF Held
    <2>2. \A s \in Sbs : Count(queue', s) + Held(s)' = Count(queue, s) + Held(s)
      BY <1>3, <1>4, <1>5, <2>1
    <2> QED BY Zenon, <1>5, <1>6, <2>2 DEF PermitInv, Balanced
  <1>7. CASE held' = NoItem /\ DropPermit(Head(queue).sb)
    <2>1. \A s \in Sbs : Held(s)' = 0
      BY Zenon, <1>7 DEF Held
    <2>2. \A s \in Sbs : Count(queue', s) + Held(s)'
                           = Count(queue, s) + Held(s) - IF s = Head(queue).sb THEN 1 ELSE 0
      BY <1>3, <1>4, <1>5, <2>1
    <2> QED BY Zenon, <1>2, <1>7, <2>2, DroppedPermits
  <1> QED BY Zenon, <1>6, <1>7

\* try_send: the permit goes into the channel with the item, or is dropped with
\* it (upstream.rs:75-98).
LEMMA TrySendPermits ==
    ASSUME FlowInv, PermitInv, NEW s \in Sbs, TrySend(s)
    PROVE  PermitInv'
  <1>1. io[s] = "send" /\ UNCHANGED held
    BY Zenon DEF TrySend, upVars
  <1>2. CASE queue' = Append(queue, Item(s)) /\ MoveTo(s, "reading") /\ UNCHANGED pending
    <2>1. Item(s) \in Items /\ Item(s).sb = s
      BY Zenon, UpFacts DEF Item, Items, SbTypes
    <2>2. \A t \in Sbs : Count(queue', t) = Count(queue, t) + IF s = t THEN 1 ELSE 0
      BY Zenon, <1>2, <2>1, UpFacts, CountAppend
    <2>3. \A t \in Sbs : Held(t)' = Held(t)
      BY Zenon, <1>1 DEF Held
    <2>4. \A t \in Sbs : Sending(t)' = Sending(t) - IF s = t THEN 1 ELSE 0
      BY <1>1, <1>2, UpFacts DEF Sending, MoveTo, SbTypes
    <2>5. \A t \in Sbs : Count(queue', t) + Held(t)' + Sending(t)'
                           = Count(queue, t) + Held(t) + Sending(t)
      BY <2>2, <2>3, <2>4, Balances
    <2> QED BY Zenon, <1>2, <2>5 DEF PermitInv, Balanced
  <1>3. CASE DropPermit(s) /\ MoveTo(s, "closing") /\ UNCHANGED queue
    <2>1. /\ Sending(s) = 1 /\ pending[s] \in Int /\ pending' \in [Sbs -> Int]
          /\ pending'[s] = pending[s] - 1
          /\ \A t \in Sbs \ {s} : pending'[t] = pending[t]
      BY <1>1, <1>3 DEF Sending, PermitInv, DropPermit
    <2>2. pending'[s] = pending[s] - Sending(s) + IF "closing" = "send" THEN 1 ELSE 0
      BY <2>1
    <2> QED BY Zenon, <1>1, <1>3, <2>1, <2>2, SessionPermits
  <1> QED BY Zenon, <1>2, <1>3 DEF TrySend

\* The other steps of a session.
LEMMA SessionStepPermits ==
    ASSUME FlowInv, PermitInv, NEW s \in Sbs, SbStep(s)
    PROVE  PermitInv'
  <1>0. ASSUME NEW l, MoveTo(s, l), l # "send", io[s] # "send",
               UNCHANGED <<pending, queue, held>>
        PROVE  PermitInv'
    <2>1. \A t \in Sbs : io'[t] = "send" <=> io[t] = "send"
      BY Zenon, <1>0, UpFacts DEF MoveTo, SbTypes
    <2> QED BY Zenon, <1>0, <2>1, QuietPermits
  <1>1. CASE HelloFails(s) \/ LoopTest(s) \/ ReadNothing(s) \/ SessionEnds(s)
    BY Zenon, <1>0, <1>1 DEF HelloFails, LoopTest, ReadNothing, SessionEnds, upVars
  <1>2. CASE HelloAllocate(s) \/ Welcome(s)
    BY Zenon, <1>0, <1>2 DEF HelloAllocate, Welcome, upVars
  <1>3. CASE BatchArrives(s) \/ CheckCapability(s) \/ CloseQuota(s) \/ ReleaseId(s)
    BY Zenon, <1>0, <1>3 DEF BatchArrives, CheckCapability, CloseQuota, ReleaseId, upVars
  <1>4. CASE TryReserve(s)
    <2>1. Sending(s) = 0 /\ pending[s] \in Int /\ UNCHANGED <<queue, held>> /\ io[s] # "send"
      BY Zenon, <1>4 DEF TryReserve, upVars, Sending, PermitInv
    <2>2. CASE pending' = [pending EXCEPT ![s] = @ + 1] /\ MoveTo(s, "send")
      <3>1. /\ pending' \in [Sbs -> Int]
            /\ \A t \in Sbs \ {s} : pending'[t] = pending[t]
            /\ pending'[s] = pending[s] - Sending(s) + IF "send" = "send" THEN 1 ELSE 0
        BY <2>1, <2>2 DEF PermitInv
      <3> QED BY Zenon, <2>1, <2>2, <3>1, SessionPermits
    <2>3. CASE UNCHANGED pending /\ MoveTo(s, "closing")
      BY Zenon, <1>0, <2>1, <2>3
    <2> QED BY Zenon, <1>4, <2>2, <2>3 DEF TryReserve
  <1>5. CASE TrySend(s)
    BY Zenon, <1>5, TrySendPermits
  <1> QED BY Zenon, <1>1, <1>2, <1>3, <1>4, <1>5 DEF SbStep

\* The steps of the worker (upstream.rs:177-240).
LEMMA WorkerStepPermits ==
    ASSUME FlowInv, PermitInv, UpStep
    PROVE  PermitInv'
  <1>0. UNCHANGED io
    BY Zenon DEF UpStep, UpProgress, UpUnchanged, UpStops, UpTakes, UpChecksActive, UpWrites,
           UpFails, UpWithdraws, UpDiscards, UpPublishesId, UpPublishesWorkload, UpReconnects
  <1>1. CASE UNCHANGED <<pending, queue, held>>
    BY Zenon, <1>0, <1>1, QuietPermits
  <1>2. CASE UpStops
    <2>1. /\ pending' = [s \in Sbs |-> pending[s] - Queued(s) - Held(s)]
          /\ queue' = <<>> /\ held' = NoItem
      BY Zenon, <1>2 DEF UpStops
    <2>2. \A s \in Sbs : /\ Queued(s) = Count(queue, s) /\ Held(s)' = 0
                         /\ Count(queue', s) = 0 /\ Sending(s)' = Sending(s)
      BY Zenon, <1>0, <2>1, CountEmpty DEF Queued, Count, Places, Held, Sending
    <2>3. \A s \in Sbs : pending[s] = Count(queue, s) + Held(s) + Sending(s)
      BY Zenon DEF PermitInv, Balanced
    <2>4. \A s \in Sbs : pending'[s] = Sending(s) /\ Sending(s) \in Nat
      BY <2>1, <2>2, <2>3, Balances
    <2>5. pending' \in [Sbs -> Int]
      BY <2>1, <2>4
    <2> QED BY <2>2, <2>4, <2>5 DEF PermitInv, Balanced
  <1>3. CASE UpTakes
    BY Zenon, <1>0, <1>1, <1>3, TakePermits DEF UpTakes
  <1>4. CASE UpChecksActive
    <2>1. held # NoItem
      BY Zenon, <1>4, UpFacts DEF UpChecksActive, UpTypes
    <2> QED BY Zenon, <1>0, <1>1, <1>4, <2>1, HeldPermits DEF UpChecksActive
  <1>5. CASE UpWrites
    <2>1. held # NoItem
      BY Zenon, <1>5, UpFacts DEF UpWrites, UpTypes
    <2> QED BY Zenon, <1>0, <1>5, <2>1, HeldPermits DEF UpWrites
  <1>6. CASE UpDiscards
    BY Zenon, <1>0, <1>1, <1>6, HeldPermits, TakePermits DEF UpDiscards
  <1>7. CASE UpFails \/ UpWithdraws \/ UpPublishesId \/ UpPublishesWorkload
    BY Zenon, <1>1, <1>7 DEF UpFails, UpWithdraws, UpPublishesId, UpPublishesWorkload
  <1>8. CASE \E workload \in BOOLEAN : UpReconnects(workload)
    BY Zenon, <1>1, <1>8 DEF UpReconnects
  <1> QED BY Zenon, <1>2, <1>3, <1>4, <1>5, <1>6, <1>7, <1>8 DEF UpStep, UpProgress

\* Every step keeps the balance.
LEMMA NextPermits == FlowInv /\ PermitInv /\ [Next]_vars => PermitInv'
  <1> SUFFICES ASSUME FlowInv, PermitInv, [Next]_vars PROVE PermitInv'
    OBVIOUS
  <1>0. ASSUME UNCHANGED <<sessionVars, queue, upVars>> PROVE PermitInv'
    BY Zenon, <1>0, QuietPermits DEF sessionVars, upVars
  <1>1. CASE CallerStep
    BY Zenon, <1>0, <1>1 DEF CallerStep, ShutdownStop, ShutdownUpstream, ShutdownReturn
  <1>2. CASE AcceptStep
    <2>1. CASE AcceptLoop \/ AcceptNone \/ AcceptJoin
      BY Zenon, <1>0, <2>1 DEF AcceptLoop, AcceptNone, AcceptJoin
    <2>2. ASSUME NEW s \in Sbs, Accept(s) PROVE PermitInv'
      <3>1. \A t \in Sbs : io'[t] = "send" <=> io[t] = "send"
        BY Zenon, <2>2, UpFacts DEF Accept, MoveTo, SbTypes
      <3> QED BY Zenon, <2>2, <3>1, QuietPermits DEF Accept, upVars
    <2> QED BY Zenon, <1>2, <2>1, <2>2 DEF AcceptStep
  <1>3. CASE UNCHANGED vars
    BY Zenon, <1>0, <1>3 DEF vars
  <1> QED BY Zenon, <1>1, <1>2, <1>3, SessionStepPermits, WorkerStepPermits DEF Next

\* No path out of the forward step leaks or doubles a permit of the forward
\* quota: a full or disconnected channel, a closed session, a failed write, a
\* discard, the end of the worker (forward.rs:45-96, upstream.rs:177-240).
THEOREM PermitsHold == Spec => []PermitsExact
  <1>1. Init => PermitInv
    <2>1. ASSUME Init
          PROVE  /\ pending = [s \in Sbs |-> 0] /\ queue = <<>> /\ held = NoItem
                 /\ \A s \in Sbs : io[s] # "send"
      BY Zenon, <2>1 DEF Init
    <2> QED BY <2>1, CountEmpty DEF PermitInv, Balanced, Held, Sending
  <1>2. PermitInv => PermitsExact
    BY Zenon DEF PermitInv, Balanced, PermitsExact, Queued, Count, Places, Sending
  <1> QED BY <1>1, <1>2, FlowInductive, NextPermits, PTL DEF Spec

\* A set whose elements are all equal has at most one.
LEMMA AtMostOne ==
    ASSUME NEW S, \A x, y \in S : x = y
    PROVE  Cardinality(S) <= 1
  <1>1. CASE S = {}
    BY <1>1, FS_EmptySet
  <1>2. CASE S # {}
    <2>1. PICK x : x \in S
      BY Zenon, <1>2
    <2>2. S = {x}
      BY Zenon, <2>1
    <2> QED BY <2>2, FS_Singleton
  <1> QED BY Zenon, <1>1, <1>2

\* The frames of a session are written once and in their order, whatever
\* reconnects repeat and downgrades discard (upstream.rs:177-240).
THEOREM ForwardOrder == Spec => []ForwardedOnceInOrder
  <1>1. FlowInv => ForwardedOnceInOrder
    BY Zenon DEF FlowInv, InOrder, Earlier, ForwardedOnceInOrder
  <1> QED BY <1>1, FlowInductive, PTL

\* Of a session that has closed at most the frame the worker had looked at is
\* still written (upstream.rs:226).
THEOREM CloseStops == Spec => []AtMostOneFrameAfterClose
  <1>1. FlowInv => AtMostOneFrameAfterClose
    <2> SUFFICES ASSUME FlowInv, NEW s \in Sbs
                 PROVE  Cardinality({i \in DOMAIN received : /\ received[i].item.sb = s
                                                             /\ received[i].closed}) <= 1
      BY Zenon DEF AtMostOneFrameAfterClose
    <2> DEFINE S == {i \in DOMAIN received : received[i].item.sb = s /\ received[i].closed}
    <2>1. \A i, j \in S : i = j
      BY Zenon DEF FlowInv, AfterClose
    <2> QED BY Zenon, <2>1, AtMostOne
  <1> QED BY <1>1, FlowInductive, PTL

\* A downgrade lets at most one batch per session through to a connection
\* without the capability: the discard empties the channel while the sessions
\* go on, and each of them fails its next test (runtime.rs:245,
\* upstream.rs:205-224).
THEOREM DowngradeBound == Spec => []DowngradeLeaksAtMostOne
  <1>1. FlowInv => DowngradeLeaksAtMostOne
    <2> SUFFICES ASSUME FlowInv, NEW s \in Sbs, wl[s], NEW no \in 1 .. MaxLinks
                 PROVE  Cardinality({i \in DOMAIN received : /\ received[i].item.sb = s
                                                             /\ received[i].link.no = no
                                                             /\ ~received[i].link.workload}) <= 1
      BY Zenon DEF DowngradeLeaksAtMostOne
    <2> DEFINE S == {i \in DOMAIN received : /\ received[i].item.sb = s
                                             /\ received[i].link.no = no
                                             /\ ~received[i].link.workload}
    <2>1. \A i \in DOMAIN received : received[i].link \in LinkSet
      BY Zenon, UpFacts, FlowElements
    <2>2. \A l, m \in LinkSet : /\ l.no = m.no /\ ~l.workload /\ ~m.workload
                                => l = m
      BY DEF LinkSet
    <2>3. \A i, j \in S : received[i].link = received[j].link
      BY Zenon, <2>1, <2>2
    <2>4. \A i, j \in S : i = j
      BY Zenon, <2>3, UpFacts DEF LeakOnce
    <2> QED BY Zenon, <2>4, AtMostOne
  <1> QED BY <1>1, FlowInductive, PTL

-----------------------------------------------------------------------------
(* The ids of the sessions.                                                *)
\* What the registry and the workers' ids are ranges of.
IdTypes ==
    /\ io \in [Sbs -> Labels]
    /\ sbId \in [Sbs -> Nat]
    /\ nextId \in IdRange

IInv == IdTypes /\ SessionIdsUnique

\* Everything but an allocation and a release leaves the ids of the sessions
\* and the set of the sessions alone.
IdsUntouched ==
    /\ UNCHANGED <<nextId, activeIds, sbId>>
    /\ io' \in [Sbs -> Labels]
    /\ Sessions' = Sessions

\* The remainder of a division lies below the divisor.
LEMMA ModRange ==
    \A a \in Nat, n \in Nat \ {0} : a % n \in 0 .. n - 1
  OBVIOUS

\* What the ids need of GatewayConfig::validate.
LEMMA IdSpaceLarge ==
    MaxSb \in Nat /\ IdSpace \in Nat /\ IdSpace > 1
  BY ConfigValid

\* allocate only ever looks at ids of u32 other than 0 (session.rs:37-45).
LEMMA CandidateRange ==
    ASSUME nextId \in IdRange, NEW k \in Nat
    PROVE  Candidate(k) \in IdRange /\ Successor(Candidate(k)) \in IdRange
  <1>1. IdSpace \in Nat /\ IdSpace > 1 /\ IdSpace - 1 \in Nat \ {0}
    BY IdSpaceLarge
  <1>2. nextId - 1 + k \in Nat
    BY <1>1 DEF IdRange
  <1>3. (nextId - 1 + k) % (IdSpace - 1) \in 0 .. (IdSpace - 1) - 1
    BY Zenon, <1>1, <1>2, ModRange
  <1>4. Candidate(k) \in IdRange
    BY <1>1, <1>3 DEF Candidate, IdRange
  <1>5. ASSUME NEW id \in IdRange
        PROVE  Successor(id) \in IdRange
    <2>1. CASE id + 1 = IdSpace
      <3>1. (id + 1) % IdSpace = 0
        BY <1>1, <2>1
      <3> QED BY <1>1, <3>1 DEF Successor, IdRange
    <2>2. CASE id + 1 # IdSpace
      BY <1>1, <2>2 DEF Successor, IdRange
    <2> QED BY Zenon, <2>1, <2>2
  <1> QED BY Zenon, <1>4, <1>5

\* A worker that moves from one label to another, both inside or both outside a
\* session, leaves the sessions alone.
LEMMA MoveKeepsSessions ==
    \A s \in Sbs, l \in Labels :
        /\ IdTypes
        /\ MoveTo(s, l)
        /\ UNCHANGED <<registryVars, sbId>>
        /\ io[s] \in Inside <=> l \in Inside
        => IdsUntouched
  <1> SUFFICES ASSUME NEW s \in Sbs, NEW l \in Labels, IdTypes, MoveTo(s, l),
                      UNCHANGED <<registryVars, sbId>>,
                      io[s] \in Inside <=> l \in Inside
               PROVE  IdsUntouched
    OBVIOUS
  <1>1. io' \in [Sbs -> Labels] /\ \A t \in Sbs : t # s => io'[t] = io[t]
    BY Zenon DEF MoveTo, IdTypes
  <1>2. io'[s] = l
    BY Zenon DEF MoveTo, IdTypes
  <1>3. Sessions' = {t \in Sbs : io'[t] \in Inside}
    BY Zenon DEF Sessions, Inside
  <1>4. Sessions = {t \in Sbs : io[t] \in Inside}
    BY Zenon DEF Sessions, Inside
  <1>5. Sessions' = Sessions
    BY Zenon, <1>1, <1>2, <1>3, <1>4
  <1> QED BY Zenon, <1>1, <1>5 DEF IdsUntouched, registryVars

\* A step that leaves the sessions alone keeps the invariant.
LEMMA UntouchedPreserves ==
    ASSUME IInv, IdsUntouched
    PROVE  IInv'
  BY Zenon DEF IInv, IdTypes, IdsUntouched, SessionIdsUnique

\* No session exists at first.
LEMMA InitIInv == Init => IInv
  <1> SUFFICES ASSUME Init PROVE IInv
    OBVIOUS
  <1>1. IdTypes
    BY IdSpaceLarge DEF Init, IdTypes, IdRange, Labels
  <1>2. Sessions = {}
    BY Zenon DEF Init, Sessions, Inside
  <1> QED BY Zenon, <1>1, <1>2 DEF IInv, SessionIdsUnique, Init

\* The allocation of an id: it is new among those of the live sessions.
LEMMA AllocatePreserves ==
    ASSUME IInv, NEW s \in Sbs, HelloAllocate(s)
    PROVE  IInv'
  <1> USE DEF IInv
  <1>0. io[s] = "hello" /\ s \notin Sessions
    BY Zenon DEF HelloAllocate, Sessions
  <1>1. CASE MoveTo(s, "finished") /\ UNCHANGED <<registryVars, sbId>>
    BY Zenon, <1>0, <1>1, MoveKeepsSessions, UntouchedPreserves DEF Labels, Inside
  <1>2. CASE \E k \in 0 .. MaxSb :
               /\ Candidate(k) \notin activeIds
               /\ nextId' = Successor(Candidate(k))
               /\ activeIds' = activeIds \cup {Candidate(k)}
               /\ sbId' = [sbId EXCEPT ![s] = Candidate(k)]
               /\ MoveTo(s, "welcome")
    <2>1. PICK k \in 0 .. MaxSb :
               /\ Candidate(k) \notin activeIds
               /\ nextId' = Successor(Candidate(k))
               /\ activeIds' = activeIds \cup {Candidate(k)}
               /\ sbId' = [sbId EXCEPT ![s] = Candidate(k)]
               /\ MoveTo(s, "welcome")
      BY Zenon, <1>2
    <2> DEFINE id == Candidate(k)
    <2>2. id \in IdRange /\ nextId' \in IdRange
      BY <2>1, CandidateRange, IdSpaceLarge DEF IdTypes
    <2> HIDE DEF id
    <2>0. /\ activeIds' = activeIds \cup {id} /\ sbId' = [sbId EXCEPT ![s] = id]
          /\ io' = [io EXCEPT ![s] = "welcome"] /\ "welcome" \in Labels
      BY Zenon, <2>1 DEF id, MoveTo, Labels, Inside
    <2>3. Sessions' = Sessions \cup {s}
      BY Zenon, <2>0 DEF IdTypes, Sessions
    <2>4. IdTypes'
      BY <2>0, <2>2 DEF IdTypes, IdRange
    <2>5. sbId'[s] = id /\ \A t \in Sessions : sbId'[t] = sbId[t]
      BY Zenon, <1>0, <2>1 DEF IdTypes, id, Sessions
    <2>6. id \notin activeIds /\ activeIds' = activeIds \cup {id}
      BY Zenon, <2>1 DEF id
    <2>7. SessionIdsUnique'
      BY <1>0, <2>2, <2>3, <2>5, <2>6 DEF SessionIdsUnique, IdRange
    <2> QED BY Zenon, <2>4, <2>7
  <1> QED BY Zenon, <1>1, <1>2 DEF HelloAllocate

\* The release of an id: no other session has it.
LEMMA ReleasePreserves ==
    ASSUME IInv, NEW s \in Sbs, ReleaseId(s)
    PROVE  IInv'
  <1> USE DEF IInv
  <1>1. s \in Sessions /\ UNCHANGED <<nextId, sbId>>
    BY Zenon DEF ReleaseId, Sessions
  <1>2. Sessions' = Sessions \ {s}
    BY Zenon DEF ReleaseId, MoveTo, Sessions, IdTypes
  <1>3. activeIds' = activeIds \ {sbId[s]}
    BY Zenon DEF ReleaseId
  <1>4. IdTypes'
    BY Zenon, <1>1 DEF IdTypes, ReleaseId, MoveTo, Labels
  <1>5. SessionIdsUnique'
    BY Zenon, <1>1, <1>2, <1>3 DEF SessionIdsUnique
  <1> QED BY Zenon, <1>4, <1>5

\* Every other step of a worker.
LEMMA WorkerUntouched ==
    ASSUME IdTypes, NEW s \in Sbs,
           SbStep(s), ~HelloAllocate(s), ~ReleaseId(s)
    PROVE  IdsUntouched
  <1> USE DEF Labels, Inside
  <1>1. CASE HelloFails(s)
    BY Zenon, <1>1, MoveKeepsSessions DEF HelloFails
  <1>2. CASE Welcome(s)
    BY Zenon, <1>2, MoveKeepsSessions DEF Welcome
  <1>3. CASE LoopTest(s)
    BY Zenon, <1>3, MoveKeepsSessions DEF LoopTest
  <1>4. CASE ReadNothing(s)
    BY Zenon, <1>4, MoveKeepsSessions DEF ReadNothing
  <1>5. CASE SessionEnds(s)
    BY Zenon, <1>5, MoveKeepsSessions DEF SessionEnds
  <1>6. CASE BatchArrives(s)
    BY Zenon, <1>6, MoveKeepsSessions DEF BatchArrives
  <1>7. CASE CheckCapability(s)
    BY Zenon, <1>7, MoveKeepsSessions DEF CheckCapability
  <1>8. CASE TryReserve(s)
    BY Zenon, <1>8, MoveKeepsSessions DEF TryReserve
  <1>9. CASE TrySend(s)
    BY Zenon, <1>9, MoveKeepsSessions DEF TrySend
  <1>10. CASE CloseQuota(s)
    BY Zenon, <1>10, MoveKeepsSessions DEF CloseQuota
  <1> QED
    BY Zenon, <1>1, <1>2, <1>3, <1>4, <1>5, <1>6, <1>7, <1>8, <1>9, <1>10 DEF SbStep

\* The accept loop, the upstream worker and the caller of shutdown.
LEMMA OthersUntouched ==
    ASSUME IdTypes, CallerStep \/ AcceptStep \/ UpStep \/ UNCHANGED vars
    PROVE  IdsUntouched
  <1>0. ASSUME UNCHANGED <<registryVars, io, sbId>>
        PROVE  IdsUntouched
    BY Zenon, <1>0 DEF IdTypes, IdsUntouched, Sessions, registryVars
  <1>1. CASE CallerStep
    BY Zenon, <1>0, <1>1 DEF CallerStep, ShutdownStop, ShutdownUpstream, ShutdownReturn,
                      sessionVars
  <1>2. CASE AcceptStep
    <2>1. CASE AcceptLoop \/ AcceptNone \/ AcceptJoin
      BY Zenon, <1>0, <2>1 DEF AcceptLoop, AcceptNone, AcceptJoin, sessionVars
    <2>2. CASE \E s \in Sbs : Accept(s)
      BY Zenon, <2>2, MoveKeepsSessions DEF Accept, Labels, Inside
    <2> QED BY Zenon, <1>2, <2>1, <2>2 DEF AcceptStep
  <1>3. CASE UpStep
    BY Zenon, <1>0, <1>3 DEF UpStep, UpProgress, UpUnchanged, UpStops, UpTakes,
        UpChecksActive, UpWrites, UpFails, UpWithdraws, UpDiscards, UpPublishesId,
        UpPublishesWorkload, UpReconnects
  <1>4. CASE UNCHANGED vars
    BY Zenon, <1>0, <1>4 DEF vars, sessionVars
  <1> QED BY Zenon, <1>1, <1>2, <1>3, <1>4

\* Every step keeps the inductive invariant.
LEMMA NextIInv == IInv /\ [Next]_vars => IInv'
  <1> SUFFICES ASSUME IInv, [Next]_vars PROVE IInv'
    OBVIOUS
  <1>1. CASE CallerStep \/ AcceptStep \/ UpStep \/ UNCHANGED vars
    BY Zenon, <1>1, OthersUntouched, UntouchedPreserves DEF IInv
  <1>2. CASE \E s \in Sbs : SbStep(s)
    BY Zenon, <1>2, AllocatePreserves, ReleasePreserves, WorkerUntouched,
       UntouchedPreserves DEF IInv
  <1> QED BY Zenon, <1>1, <1>2 DEF Next

\* No two live SB sessions share an id and none has the id 0; the registry holds
\* exactly the ids of the live sessions, however often next_id wraps
\* (session.rs:28-53, runtime.rs:215-223).
THEOREM SessionIds == Spec => []SessionIdsUnique
  <1>1. IInv => SessionIdsUnique
    BY Zenon DEF IInv
  <1> QED BY InitIInv, NextIInv, <1>1, PTL DEF Spec

=============================================================================
