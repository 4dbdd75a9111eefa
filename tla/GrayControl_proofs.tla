------------------------ MODULE GrayControl_proofs -------------------------
(***************************************************************************)
(* Proofs about gray decisions: for any number of notifications, traces,   *)
(* plugins and rules.                                                      *)
(***************************************************************************)
EXTENDS GrayControl, FiniteSetTheorems, TLAPS

-----------------------------------------------------------------------------
(* The invariant of the requests.                                          *)

Rules ==
    [owner : Owners, id : RuleIds \cup {NoName}, subject : Subjects \cup {NoSubject},
     decision : {"allow", "deny", "gray", "default"},
     target : Instances \cup {NoName}, rev : Nat]

Notifications ==
    [st : {"none", "pending", "deferred", "allow", "over"},
     trace : Traces \cup {NoTrace}, subject : Subjects \cup {NoSubject}]

Requests ==
    [at : {"none", "check", "call", "asked", "notify"}, rule : Rules,
     index : Nat, slot : Nat]

Outcomes ==
    [kind : {"plugin", "fallback"}, decision : {"allow", "deny"},
     scope : {"once", "reusable"}, by : Nat]

Completions == [n : Notifs, rule : Rules, index : Nat, outcome : Outcomes]

Positions ==
    [at : {"loop", "drain", "handle", "found"}, n : Notifs \cup {NoName}, rule : Rules]

GrayTypes ==
    /\ notif \in [Notifs -> Notifications]
    /\ work \in [Notifs -> Requests]
    /\ chan \in Seq(Completions)
    /\ daemon \in Positions

\* Slots have one id and one index each, and indexes are not used again.
SlotsDistinct ==
    \A s, t \in deciders :
      /\ s.index > 0 /\ s.index < nextIndex
      /\ s.id = t.id \/ s.index = t.index => s = t

\* A rule is found by its owner and id, and no rule is of a later revision.
RulesDistinct ==
    /\ \A r \in rules : r.rev <= revision
    /\ \A q, r \in rules : q.owner = r.owner /\ q.id = r.id => q = r

\* The rules and the plugins.
HostInv ==
    /\ rules \subseteq Rules /\ revision \in Nat /\ RulesDistinct
    /\ deciders \subseteq [id : Instances, index : Nat]
    /\ nextIndex \in Nat /\ nextIndex > 0 /\ SlotsDistinct

\* A rule that was copied: while the store has its revision, it has the rule.
Genuine(r) ==
    /\ r.rev <= revision
    /\ \A q \in rules : q.owner = r.owner /\ q.id = r.id /\ q.rev = r.rev => q = r

\* i is the index of a slot that was there for the target of r.
Targets(r, i) ==
    /\ i > 0 /\ i < nextIndex
    /\ \A s \in deciders : s.index = i => s.id = r.target

\* n was deferred with a copy of rule r to the slot i.
Request(n, r, i) ==
    /\ Genuine(r)
    /\ Targets(r, i)
    /\ notif[n].st \notin {"none", "pending"}
    /\ notif[n].st = "deferred" =>
         notif[n].subject = r.subject /\ notif[n].trace \in Traces

\* A worker that was answered by a slot was answered by the one it was given,
\* if that one is still there.
Asked(w) ==
    w.at = "asked" /\ w.slot # 0 /\ IsIndexActive(w.index) => w.slot = w.index

WorkOf(n, w) ==
    /\ w.at \in {"check", "call", "asked"} => Request(n, w.rule, w.index)
    /\ Asked(w)

WorkAgrees ==
    \A n \in Notifs, w \in Requests : work[n] = w => WorkOf(n, w)

Agrees(c) ==
    /\ Request(c.n, c.rule, c.index)
    /\ c.outcome.kind = "plugin" /\ IsIndexActive(c.index) =>
         c.outcome.by = c.index

ChanAgrees ==
    \A c \in Completions : (\E i \in DOMAIN chan : chan[i] = c) => Agrees(c)

\* The notification the daemon holds a rule for is still to be answered, or
\* its process died.
FoundAgrees ==
    daemon.at = "found" =>
      /\ daemon.n \in Notifs
      /\ \A r \in Rules : daemon.rule = r => Genuine(r)
      /\ notif[daemon.n].st \in {"pending", "over"}
      /\ notif[daemon.n].st = "pending" =>
           /\ notif[daemon.n].subject = daemon.rule.subject
           /\ notif[daemon.n].trace \in Traces

PendingTraced ==
    \A n \in Notifs : notif[n].st = "pending" => notif[n].trace \in Traces

RequestInv ==
    /\ GrayTypes
    /\ HostInv
    /\ WorkAgrees
    /\ ChanAgrees
    /\ FoundAgrees
    /\ PendingTraced

-----------------------------------------------------------------------------
(* The invariant of the reusable decisions.                                *)

\* There is one entry for a key, and the index by trace of the network service
\* has every entry.
CacheTypes ==
    /\ service \in {"command", "network"}
    /\ traces \in [Traces -> {"live", "terminal", "forgotten"}]
    /\ DOMAIN byTrace = Traces
    /\ \A e \in cache : e.key.trace \in Traces
    /\ \A e, f \in cache : e.key = f.key => e = f
    /\ service = "network" =>
         \A e \in cache : e.key \in byTrace[e.key.trace]

-----------------------------------------------------------------------------
(* The initial states, and the answers of a plugin.                        *)

\* The rules file and the plugins loaded at start-up are well formed.
LEMMA InitHost ==
    ASSUME Init
    PROVE  HostInv
  <1>1. /\ service \in Services /\ rules = StaticRules[service]
        /\ revision = IF rules = {} THEN 0 ELSE 1
    BY Zenon DEF Init
  <1>2. /\ deciders = {[id |-> Loaded[i], index |-> i] : i \in DOMAIN Loaded}
        /\ nextIndex = Len(Loaded) + 1
    BY Zenon DEF Init
  <1>3. /\ \A r \in rules : r.rev = 1 /\ r.owner = Static
        /\ \A q, r \in rules : q.id = r.id => q = r
    BY Zenon, <1>1, GrayPolicyValid
  <1>4. rules \subseteq Rules
    BY <1>1, GrayPolicyValid DEF Rules, Owners
  <1>5. RulesDistinct /\ revision \in Nat
    BY <1>1, <1>3 DEF RulesDistinct
  <1>6. /\ Loaded \in Seq(Instances) /\ Len(Loaded) \in Nat
        /\ DOMAIN Loaded = 1 .. Len(Loaded)
        /\ \A i, j \in DOMAIN Loaded : Loaded[i] = Loaded[j] => i = j
    BY GrayPolicyValid
  <1>7. /\ \A s \in deciders : s.index \in 1 .. Len(Loaded) /\ s.id = Loaded[s.index]
        /\ deciders \subseteq [id : Instances, index : Nat]
    BY <1>2, <1>6
  <1>8. ASSUME NEW s \in deciders, NEW t \in deciders, s.id = t.id \/ s.index = t.index
        PROVE  s = t
    <2>1. s.index = t.index
      BY Zenon, <1>6, <1>7, <1>8
    <2> QED
      BY <1>2, <1>6, <2>1
  <1>9. SlotsDistinct
    BY <1>2, <1>6, <1>7, <1>8 DEF SlotsDistinct
  <1> QED
    BY <1>2, <1>4, <1>5, <1>6, <1>7, <1>9 DEF HostInv

\* Nothing is requested yet.
LEMMA InitQuiet ==
    ASSUME Init
    PROVE  /\ GrayTypes /\ chan = <<>> /\ daemon.at = "loop"
           /\ \A n \in Notifs : work[n].at = "none" /\ notif[n].st = "none"
  <1>1. /\ notif = [n \in Notifs |-> Settled("none")]
        /\ work = [n \in Notifs |-> Idle]
        /\ chan = <<>> /\ daemon = At("loop")
    BY Zenon DEF Init
  <1>2. NoRule \in Rules
    BY Zenon DEF NoRule, Rules, Owners
  <1>3. Settled("none") \in Notifications /\ Settled("none").st = "none"
    BY Zenon DEF Settled, Notifications
  <1>4. Idle \in Requests /\ Idle.at = "none"
    BY Zenon, <1>2 DEF Idle, Requests
  <1>5. At("loop") \in Positions /\ At("loop").at = "loop"
    BY Zenon, <1>2 DEF At, Positions
  <1> QED
    BY <1>1, <1>3, <1>4, <1>5 DEF GrayTypes

\* So there is nothing a request could be wrong about.
LEMMA InitRequests == Init => RequestInv
  <1> SUFFICES ASSUME Init PROVE RequestInv
    OBVIOUS
  <1>1. WorkAgrees /\ ChanAgrees /\ FoundAgrees /\ PendingTraced
    BY InitQuiet
       DEF WorkAgrees, WorkOf, Asked, ChanAgrees, FoundAgrees, PendingTraced
  <1> QED
    BY Zenon, <1>1, InitHost, InitQuiet DEF RequestInv

\* A verdict comes from the slot that was asked; without a slot there is only
\* denial.
LEMMA OutcomeShape ==
    ASSUME NEW n \in Notifs, work \in [Notifs -> Requests],
           NEW outcome \in WorkerOutcomes(n)
    PROVE  /\ outcome \in Outcomes
           /\ outcome.kind = "plugin" => outcome.by = work[n].slot /\ work[n].slot # 0
           /\ outcome.decision = "allow" => IsIndexActive(work[n].index)
  <1>1. work[n].slot \in Nat
    BY Zenon DEF Requests
  <1>2. CASE outcome \in {Fallback("deny"), Fallback(GrayFallback)}
    <2>1. outcome \in Outcomes /\ outcome.kind = "fallback"
      BY <1>2, GrayPolicyValid DEF Fallback, Outcomes
    <2>2. Fallback("deny").decision = "deny"
      BY Zenon DEF Fallback
    <2> QED
      BY Zenon, <2>1, <2>2 DEF WorkerOutcomes
  <1>3. ASSUME NEW v \in Verdicts, work[n].slot # 0, IsIndexActive(work[n].index),
               outcome = [kind |-> "plugin", decision |-> v[1], scope |-> v[2],
                          by |-> work[n].slot]
        PROVE  outcome \in Outcomes /\ outcome.by = work[n].slot
    <2>1. v[1] \in {"allow", "deny"} /\ v[2] \in {"once", "reusable"}
      BY Zenon, GrayBoundsValid
    <2> QED
      BY Zenon, <1>1, <1>3, <2>1 DEF Outcomes
  <1> QED
    BY Zenon, <1>2, <1>3 DEF WorkerOutcomes

\* What a reusable decision is kept for.
LEMMA KeyShape ==
    ASSUME NEW n, NEW r, NEW key, key = Key(n, r)
    PROVE  /\ key.trace = notif[n].trace /\ key.subject = notif[n].subject
           /\ key.id = r.id /\ key.rev = r.rev
           /\ service = "network" => key.owner = r.owner
BY Zenon DEF Key

\* cache_decision in short: the entry of the key is replaced, and the entries
\* of at most one key are evicted.
Cached(n, r, by, key, entry, evicted, oldest) ==
    /\ key.trace = notif[n].trace /\ key.subject = notif[n].subject
    /\ key.id = r.id /\ key.rev = r.rev
    /\ service = "network" => key.owner = r.owner
    /\ entry.key = key /\ entry.instance = r.target /\ entry.by = by
    /\ \/ evicted = {}
       \/ evicted = {e \in {f \in cache : f.key # key} \cup {entry} : e.key = oldest}
    /\ cache' = ({e \in cache : e.key # key} \cup {entry}) \ evicted
    /\ byTrace' = [t \in Traces |->
         (byTrace[t] \cup (IF service = "network" /\ t = key.trace THEN {key} ELSE {}))
           \ {e.key : e \in evicted}]

\* The sequence numbers only say which key is evicted.
LEMMA CacheDecisionShape ==
    ASSUME NEW n, NEW r, NEW outcome, CacheDecision(n, r, outcome)
    PROVE  \E key, entry, evicted, oldest :
             Cached(n, r, outcome.by, key, entry, evicted, oldest)
  <1> DEFINE key == Key(n, r)
             seq == nextSeq + 1
             entry == [key |-> key, decision |-> outcome.decision,
                       instance |-> r.target, seq |-> seq, by |-> outcome.by]
             previous == {e \in cache : e.key = key}
             added == (cache \ previous) \cup {entry}
             order1 == IF service = "network"
                         THEN (order \ {<<e.seq, key>> : e \in previous})
                                \cup {<<seq, key>>}
                         ELSE order
             seen == IF service = "network" THEN order1
                                            ELSE {<<e.seq, e.key>> : e \in added}
             oldest == (CHOOSE o \in seen : \A q \in seen : o[1] <= q[1])[2]
             evicted == IF Cardinality(added) > CacheMax
                          THEN {e \in added : e.key = oldest}
                          ELSE {}
  <1>1. /\ cache' = added \ evicted
        /\ byTrace' = [t \in Traces |->
             (byTrace[t] \cup (IF service = "network" /\ t = key.trace
                                 THEN {key} ELSE {})) \ {e.key : e \in evicted}]
    BY Zenon DEF CacheDecision
  <1>2. added = {e \in cache : e.key # key} \cup {entry}
    OBVIOUS
  <1>3. entry.key = key /\ entry.instance = r.target /\ entry.by = outcome.by
    OBVIOUS
  <1> HIDE DEF key, entry, oldest
  <1>4. \/ evicted = {}
        \/ evicted = {e \in {f \in cache : f.key # key} \cup {entry} : e.key = oldest}
    BY Zenon, <1>2
  <1>5. /\ key.trace = notif[n].trace /\ key.subject = notif[n].subject
        /\ key.id = r.id /\ key.rev = r.rev
        /\ service = "network" => key.owner = r.owner
    BY KeyShape DEF key
  <1> HIDE DEF evicted, added
  <1>6. Cached(n, r, outcome.by, key, entry, evicted, oldest)
    BY Zenon, <1>1, <1>2, <1>3, <1>4, <1>5 DEF Cached
  <1> QED
    BY Zenon, <1>6

-----------------------------------------------------------------------------
(* What a step may do to the notifications.                                *)

\* n is answered, or dies; an answer to a stale id changes nothing.
Ends(n) ==
    \E st \in {"allow", "over"} :
      notif' = IF IsValid(n) THEN [notif EXCEPT ![n] = Settled(st)] ELSE notif

\* Every answer of the daemon has this form (continue_now, deny_errno).
LEMMA RespondEnds ==
    ASSUME NEW n, NEW d, Respond(n, d)
    PROVE  Ends(n)
BY Zenon DEF Respond, Ends

\* Whatever was found for a deferred request, it is answered that way.
LEMMA AnswerEnds ==
    ASSUME NEW c, AnswerDeferred(c)
    PROVE  Ends(c.n)
BY Zenon, RespondEnds DEF AnswerDeferred

\* A gray decision that needs no plugin answers the notification.
LEMMA GrayEnds ==
    ASSUME GrayNow
    PROVE  Ends(daemon.n)
BY Zenon, RespondEnds DEF GrayNow

\* A handled notification is answered, or a gray rule that matches is copied.
LEMMA HandleShape ==
    ASSUME NEW n, Handle(n)
    PROVE  \/ Ends(n) /\ daemon' = daemon
           \/ /\ notif' = notif
              /\ \E r \in Find(notif[n].subject) :
                   daemon' = [at |-> "found", n |-> n, rule |-> r]
BY Zenon, RespondEnds DEF Handle

\* The completion that is taken is the head of the channel, and what is left
\* of it is answered or untouched.
LEMMA TakeShape ==
    ASSUME TakeCompletion \/ TakeFails
    PROVE  /\ chan # <<>>
           /\ chan' = Tail(chan)
           /\ Ends(Head(chan).n) \/ notif' = notif
BY Zenon, AnswerEnds DEF TakeCompletion, TakeFails

\* What an end leaves of the notifications.
LEMMA EndsShape ==
    ASSUME NEW n, Ends(n), notif \in [Notifs -> Notifications]
    PROVE  /\ notif' \in [Notifs -> Notifications]
           /\ \A m \in Notifs :
                \/ notif'[m] = notif[m]
                \/ /\ m = n /\ notif[m].st \in {"pending", "deferred"}
                   /\ notif'[m].st \in {"allow", "over"}
  <1>1. PICK st \in {"allow", "over"} :
          notif' = IF IsValid(n) THEN [notif EXCEPT ![n] = Settled(st)] ELSE notif
    BY Zenon DEF Ends
  <1>2. Settled(st) \in Notifications /\ Settled(st).st = st
    BY Zenon DEF Settled, Notifications
  <1> QED
    BY Zenon, <1>1, <1>2 DEF IsValid

-----------------------------------------------------------------------------
(* What the four kinds of threads leave alone.                             *)

\* Processes and traces touch neither rules nor plugins nor requests.
LEMMA MachineFrame ==
    ASSUME Machine
    PROVE  UNCHANGED <<service, rules, revision, deciders, nextIndex, work, chan,
                       wake, daemon, aborted>>
BY Zenon DEF Machine, Raise, Die, EndTrace, ForgetTrace, policy, plugins, threads

\* Plugins touch neither notifications nor traces nor requests.
LEMMA HostFrame ==
    ASSUME PluginHost
    PROVE  UNCHANGED <<service, notif, traces, work, chan, wake, daemon, aborted>>
  <1> DEFINE kept == UNCHANGED <<service, notif, traces, work, chan, wake, daemon,
                                 aborted>>
  <1>1. ASSUME NEW p, LoadPlugin(p) PROVE kept
    BY Zenon, <1>1 DEF LoadPlugin, threads
  <1>2. ASSUME NEW p, UnloadPlugin(p) PROVE kept
    BY Zenon, <1>2 DEF UnloadPlugin, threads
  <1>3. ASSUME NEW p, NEW id, NEW s, NEW d, NEW target, RulesUpsert(p, id, s, d, target)
        PROVE  kept
    BY Zenon, <1>3 DEF RulesUpsert, threads
  <1>4. ASSUME NEW p, NEW id, RulesDelete(p, id) PROVE kept
    BY Zenon, <1>4 DEF RulesDelete, threads
  <1> HIDE DEF kept
  <1>5. kept
    BY Zenon, <1>1, <1>2, <1>3, <1>4 DEF PluginHost
  <1> QED
    BY Zenon, <1>5 DEF kept

\* The daemon thread does not change rules, plugins or traces in a drain.
LEMMA DaemonFrame ==
    ASSUME DaemonStep \/ BeginCycle \/ TakeFails
    PROVE  UNCHANGED <<service, rules, revision, deciders, nextIndex, traces>>
BY Zenon DEF DaemonStep, BeginCycle, TakeFails, TakeCompletion, EndDrain, Handle,
       AnswerGray, DeferGray, EndHandle, policy, plugins

\* A worker touches its own request and the channel.
LEMMA WorkerFrame ==
    ASSUME NEW n \in Notifs, Worker(n)
    PROVE  UNCHANGED <<service, rules, revision, deciders, nextIndex, notif,
                       traces, cache, order, byTrace, daemon, aborted>>
BY Zenon DEF Worker, WorkerCheck, WorkerCall, WorkerAnswer, WorkerNotify, policy,
       plugins, reusable

-----------------------------------------------------------------------------
(* What was said of a request stays true of it.                            *)

NotifCalm ==
    \A n \in Notifs :
      notif[n].st \notin {"none", "pending"} =>
        notif'[n] = notif[n] \/ notif'[n].st \in {"allow", "over"}

HostCalm ==
    /\ \A r \in Rules : Genuine(r) => Genuine(r)'
    /\ \A r \in Rules, i \in Nat : Targets(r, i) => Targets(r, i)'
    /\ \A i \in Nat : i < nextIndex /\ IsIndexActive(i)' => IsIndexActive(i)

\* Without a change of the rules and plugins nothing of them can be lost.
LEMMA NoHostCalm ==
    ASSUME UNCHANGED <<rules, revision, deciders, nextIndex>>
    PROVE  HostCalm
BY Zenon DEF HostCalm, Genuine, Targets, IsIndexActive

\* A request, once made, stays what it was through rule changes, loads and
\* unloads, answers and deaths.
LEMMA CalmKeeps ==
    ASSUME HostCalm, NotifCalm
    PROVE  /\ \A n \in Notifs, w \in Requests : WorkOf(n, w) => WorkOf(n, w)'
           /\ \A c \in Completions : Agrees(c) => Agrees(c)'
  <1>1. ASSUME NEW n \in Notifs, NEW r \in Rules, NEW i \in Nat, Request(n, r, i)
        PROVE  /\ Request(n, r, i)'
               /\ IsIndexActive(i)' => IsIndexActive(i)
    <2>1. Genuine(r)' /\ Targets(r, i)'
      BY Zenon, <1>1 DEF HostCalm, Request
    <2>2. IsIndexActive(i)' => IsIndexActive(i)
      BY Zenon, <1>1 DEF HostCalm, Request, Targets
    <2> QED
      BY Zenon, <1>1, <2>1, <2>2 DEF NotifCalm, Request
  <1>2. ASSUME NEW n \in Notifs, NEW w \in Requests, WorkOf(n, w)
        PROVE  WorkOf(n, w)'
    <2>1. w.rule \in Rules /\ w.index \in Nat
      BY Zenon DEF Requests
    <2>2. CASE w.at \in {"check", "call", "asked"}
      <3>1. Request(n, w.rule, w.index) /\ Asked(w)
        BY Zenon, <1>2, <2>2 DEF WorkOf
      <3>2. Request(n, w.rule, w.index)'
        BY Zenon, <1>1, <2>1, <3>1
      <3>3. IsIndexActive(w.index)' => IsIndexActive(w.index)
        BY Zenon, <1>1, <2>1, <3>1
      <3> QED
        BY Zenon, <3>1, <3>2, <3>3 DEF WorkOf, Asked
    <2>3. CASE w.at \notin {"check", "call", "asked"}
      BY Zenon, <2>3 DEF WorkOf, Asked
    <2> QED
      BY Zenon, <2>2, <2>3
  <1>3. ASSUME NEW c \in Completions, Agrees(c)
        PROVE  Agrees(c)'
    <2>1. c.n \in Notifs /\ c.rule \in Rules /\ c.index \in Nat
      BY Zenon DEF Completions
    <2>2. Request(c.n, c.rule, c.index)'
      BY Zenon, <1>1, <1>3, <2>1 DEF Agrees
    <2>3. IsIndexActive(c.index)' => IsIndexActive(c.index)
      BY Zenon, <1>1, <1>3, <2>1 DEF Agrees
    <2> QED
      BY Zenon, <1>3, <2>2, <2>3 DEF Agrees
  <1> QED
    BY Zenon, <1>2, <1>3

-----------------------------------------------------------------------------
(* Rules and plugins change.                                               *)

PolicyKept ==
    /\ rules' \subseteq Rules
    /\ revision' \in Nat
    /\ RulesDistinct'
    /\ \A r \in Rules : Genuine(r) => Genuine(r)'

SlotsKept ==
    /\ deciders' \subseteq [id : Instances, index : Nat]
    /\ nextIndex' \in Nat
    /\ SlotsDistinct'
    /\ \A r \in Rules, i \in Nat : Targets(r, i) => Targets(r, i)'
    /\ \A i \in Nat : i < nextIndex /\ IsIndexActive(i)' => IsIndexActive(i)

\* Rules that go away leave the others as they are (remove_plugin_policy_owner,
\* a deletion of rules_apply).
LEMMA RulesGo ==
    ASSUME rules \subseteq Rules, revision \in Nat, RulesDistinct,
           rules' \subseteq rules, revision' \in {revision, revision + 1}
    PROVE  PolicyKept
  <1>1. ASSUME NEW r \in Rules, r.rev <= revision
        PROVE  r.rev <= revision'
    BY <1>1 DEF Rules
  <1> QED
    BY <1>1 DEF PolicyKept, RulesDistinct, Genuine

\* A rule that is put in has a revision no copy can have (rules_apply).
LEMMA RulePut ==
    ASSUME rules \subseteq Rules, revision \in Nat, RulesDistinct,
           NEW x \in Rules, x.rev = revision + 1, revision' = revision + 1,
           rules' = {r \in rules : ~(r.owner = x.owner /\ r.id = x.id)} \cup {x}
    PROVE  PolicyKept
  <1>1. ASSUME NEW r \in Rules, r.rev <= revision
        PROVE  r.rev <= revision' /\ r.rev # x.rev
    BY <1>1 DEF Rules
  <1>2. RulesDistinct'
    BY <1>1 DEF RulesDistinct, Rules
  <1>3. ASSUME NEW r \in Rules, Genuine(r)
        PROVE  Genuine(r)'
    BY Zenon, <1>1, <1>3 DEF Genuine
  <1> QED
    BY <1>2, <1>3 DEF PolicyKept

\* A slot that goes away leaves the others as they are (remove_decider).
LEMMA SlotsGo ==
    ASSUME deciders \subseteq [id : Instances, index : Nat], nextIndex \in Nat,
           SlotsDistinct, deciders' \subseteq deciders, nextIndex' = nextIndex
    PROVE  SlotsKept
BY Zenon DEF SlotsKept, SlotsDistinct, Targets, IsIndexActive

\* A slot that is added has an index no request was given (add_decider).
LEMMA SlotPut ==
    ASSUME deciders \subseteq [id : Instances, index : Nat], nextIndex \in Nat,
           nextIndex > 0, SlotsDistinct, NEW p \in Instances, LoadPlugin(p)
    PROVE  SlotsKept
  <1> DEFINE x == [id |-> p, index |-> nextIndex]
  <1>1. /\ deciders' = deciders \cup {x} /\ nextIndex' = nextIndex + 1
        /\ \A s \in deciders : s.id # p
        /\ x \in [id : Instances, index : Nat] /\ x.id = p /\ x.index = nextIndex
    BY Zenon DEF LoadPlugin
  <1>2. \A s \in deciders : s.index \in Nat /\ s.index < nextIndex /\ s.index > 0
    BY Zenon DEF SlotsDistinct
  <1> HIDE DEF x
  <1>3. SlotsDistinct'
    BY <1>1, <1>2 DEF SlotsDistinct
  <1>4. ASSUME NEW r \in Rules, NEW i \in Nat, Targets(r, i)
        PROVE  Targets(r, i)'
    BY <1>1, <1>4 DEF Targets
  <1>5. ASSUME NEW i \in Nat, i < nextIndex, IsIndexActive(i)'
        PROVE  IsIndexActive(i)
    BY <1>1, <1>5 DEF IsIndexActive
  <1> QED
    BY <1>1, <1>3, <1>4, <1>5 DEF SlotsKept

\* No change of rules or plugins takes away what a request relies on.
LEMMA HostKeeps ==
    ASSUME HostInv, PluginHost
    PROVE  HostInv' /\ HostCalm
  <1>1. ASSUME NEW p \in Instances, LoadPlugin(p)
        PROVE  PolicyKept /\ SlotsKept /\ nextIndex' > 0
    <2>1. rules' = rules /\ revision' = revision /\ nextIndex' = nextIndex + 1
      BY Zenon, <1>1 DEF LoadPlugin, policy
    <2> QED
      BY <1>1, <2>1, RulesGo, SlotPut DEF HostInv
  <1>2. ASSUME NEW p \in Instances, UnloadPlugin(p)
        PROVE  PolicyKept /\ SlotsKept /\ nextIndex' > 0
    <2>1. /\ rules' \subseteq rules /\ revision' \in {revision, revision + 1}
          /\ deciders' \subseteq deciders /\ nextIndex' = nextIndex
      BY Zenon, <1>2 DEF UnloadPlugin, policy
    <2> QED
      BY Zenon, <2>1, RulesGo, SlotsGo DEF HostInv
  <1>3. ASSUME NEW p \in PolicyOwners, NEW id \in RuleIds, NEW s \in Subjects,
               NEW d \in Decisions \cup {"gray"},
               NEW target \in IF d = "gray" THEN Instances \ {p} ELSE {NoName},
               RulesUpsert(p, id, s, d, target)
        PROVE  PolicyKept /\ SlotsKept /\ nextIndex' > 0
    <2> DEFINE x == [owner |-> p, id |-> id, subject |-> s, decision |-> d,
                     target |-> target, rev |-> revision + 1]
    <2>1. x \in Rules /\ x.rev = revision + 1 /\ x.owner = p /\ x.id = id
      <3>1. p \in Owners /\ target \in Instances \cup {NoName}
        BY Zenon, GrayPolicyValid DEF Owners
      <3> QED
        BY <3>1 DEF Rules, Decisions, HostInv
    <2>2. /\ rules' = {r \in rules : ~(r.owner = x.owner /\ r.id = x.id)} \cup {x}
          /\ revision' = revision + 1 /\ deciders' = deciders /\ nextIndex' = nextIndex
      BY Zenon, <1>3 DEF RulesUpsert, plugins
    <2> HIDE DEF x
    <2>3. PolicyKept
      BY Zenon, <2>1, <2>2, RulePut DEF HostInv
    <2> QED
      BY Zenon, <2>2, <2>3, SlotsGo DEF HostInv
  <1>4. ASSUME NEW p \in PolicyOwners, NEW id \in RuleIds, RulesDelete(p, id)
        PROVE  PolicyKept /\ SlotsKept /\ nextIndex' > 0
    <2>1. /\ rules' \subseteq rules /\ revision' \in {revision, revision + 1}
          /\ deciders' \subseteq deciders /\ nextIndex' = nextIndex
      BY Zenon, <1>4 DEF RulesDelete, plugins
    <2> QED
      BY Zenon, <2>1, RulesGo, SlotsGo DEF HostInv
  <1>5. PolicyKept /\ SlotsKept /\ nextIndex' > 0
    BY <1>1, <1>2, <1>3, <1>4 DEF PluginHost
  <1> QED
    BY Zenon, <1>5 DEF PolicyKept, SlotsKept, HostInv, HostCalm

-----------------------------------------------------------------------------
(* The steps keep the invariant of the requests.                           *)

NotifKept ==
    /\ notif' \in [Notifs -> Notifications]
    /\ NotifCalm
    /\ PendingTraced'

\* An answer or a death disturbs no other notification.
LEMMA EndsKeeps ==
    ASSUME notif \in [Notifs -> Notifications], PendingTraced,
           notif' = notif \/ \E n : Ends(n)
    PROVE  NotifKept
BY Zenon, EndsShape DEF NotifKept, NotifCalm, PendingTraced

\* What is left of a channel when its head is taken.
LEMMA TailShape ==
    ASSUME NEW S, NEW q \in Seq(S), q # <<>>
    PROVE  /\ Tail(q) \in Seq(S)
           /\ \A i \in DOMAIN Tail(q) : i + 1 \in DOMAIN q /\ Tail(q)[i] = q[i + 1]
           /\ 1 \in DOMAIN q /\ q[1] = Head(q) /\ Head(q) \in S
OBVIOUS

\* What is in a channel when a completion is sent.
LEMMA AppendShape ==
    ASSUME NEW S, NEW q \in Seq(S), NEW c \in S
    PROVE  /\ Append(q, c) \in Seq(S)
           /\ \A i \in DOMAIN Append(q, c) :
                Append(q, c)[i] = c \/ (i \in DOMAIN q /\ Append(q, c)[i] = q[i])
           /\ Append(q, c)[Len(Append(q, c))] = c
OBVIOUS

\* Sending a completion.
LEMMA SendShape ==
    ASSUME chan \in Seq(Completions), NEW c \in Completions, chan' = Append(chan, c)
    PROVE  /\ chan' \in Seq(Completions)
           /\ \A i \in DOMAIN chan' : chan'[i] = c \/ (i \in DOMAIN chan /\ chan'[i] = chan[i])
BY AppendShape

\* The requests outlive a step that adds none and at most takes a completion.
LEMMA RequestsKept ==
    ASSUME RequestInv, HostCalm, NotifCalm, work' = work,
           chan' = chan \/ (chan # <<>> /\ chan' = Tail(chan))
    PROVE  WorkAgrees' /\ ChanAgrees' /\ chan' \in Seq(Completions)
  <1>1. work \in [Notifs -> Requests] /\ chan \in Seq(Completions)
    BY Zenon DEF RequestInv, GrayTypes
  <1>2. WorkAgrees'
    BY Zenon, <1>1, CalmKeeps DEF RequestInv, WorkAgrees
  <1>3. \A c \in Completions : (\E i \in DOMAIN chan : chan[i] = c) => Agrees(c)'
    BY Zenon, CalmKeeps DEF RequestInv, ChanAgrees
  <1>4. /\ chan' \in Seq(Completions)
        /\ \A i \in DOMAIN chan' : \E j \in DOMAIN chan : chan'[i] = chan[j]
    BY <1>1, TailShape
  <1>5. ChanAgrees'
    BY Zenon, <1>3, <1>4 DEF ChanAgrees
  <1> QED
    BY Zenon, <1>2, <1>4, <1>5

\* Processes that make system calls and die, and traces that end, leave the
\* requests what they are.
LEMMA MachineKeeps ==
    ASSUME RequestInv, Machine
    PROVE  RequestInv'
  <1>1. UNCHANGED <<rules, revision, deciders, nextIndex, work, chan, daemon>>
    BY Zenon, MachineFrame
  <1>2. /\ notif \in [Notifs -> Notifications] /\ PendingTraced /\ FoundAgrees
        /\ work \in [Notifs -> Requests] /\ daemon \in Positions /\ HostInv
    BY Zenon DEF RequestInv, GrayTypes
  <1>3. NotifKept /\ FoundAgrees'
    <2>1. ASSUME NEW n \in Notifs, NEW t \in Traces, NEW s \in Subjects, Raise(n, t, s)
          PROVE  NotifKept /\ FoundAgrees'
      <3> DEFINE x == [st |-> "pending", trace |-> t, subject |-> s]
      <3>1. /\ notif[n].st = "none" /\ notif' = [notif EXCEPT ![n] = x]
            /\ x \in Notifications /\ x.st = "pending" /\ x.trace \in Traces
        BY Zenon, <2>1 DEF Raise, Notifications
      <3> HIDE DEF x
      <3>2. NotifKept
        BY Zenon, <1>2, <3>1 DEF NotifKept, NotifCalm, PendingTraced
      <3>3. FoundAgrees'
        BY Zenon, <1>1, <1>2, <3>1 DEF FoundAgrees, Genuine
      <3> QED
        BY Zenon, <3>2, <3>3
    <2>2. ASSUME NEW n \in Notifs, Die(n)
          PROVE  NotifKept /\ FoundAgrees'
      <3>1. /\ notif' = [notif EXCEPT ![n] = Settled("over")]
            /\ Settled("over") \in Notifications /\ Settled("over").st = "over"
        BY Zenon, <2>2 DEF Die, Settled, Notifications
      <3>2. NotifKept
        BY Zenon, <1>2, <3>1 DEF NotifKept, NotifCalm, PendingTraced
      <3>3. FoundAgrees'
        BY Zenon, <1>1, <1>2, <3>1 DEF FoundAgrees, Genuine
      <3> QED
        BY Zenon, <3>2, <3>3
    <2>3. ASSUME NEW t \in Traces, EndTrace(t) \/ ForgetTrace(t)
          PROVE  NotifKept /\ FoundAgrees'
      <3>1. notif' = notif
        BY Zenon, <2>3 DEF EndTrace, ForgetTrace
      <3>2. FoundAgrees'
        BY Zenon, <1>1, <1>2, <3>1 DEF FoundAgrees, Genuine
      <3> QED
        BY Zenon, <1>2, <3>1, <3>2, EndsKeeps
    <2> QED
      BY Zenon, <2>1, <2>2, <2>3 DEF Machine
  <1>4. WorkAgrees' /\ ChanAgrees' /\ chan' \in Seq(Completions)
    <2>1. HostCalm /\ NotifCalm
      BY Zenon, <1>1, <1>3, NoHostCalm DEF NotifKept
    <2> QED
      BY Zenon, <1>1, <2>1, RequestsKept
  <1>5. HostInv'
    BY Zenon, <1>1, <1>2 DEF HostInv, RulesDistinct, SlotsDistinct
  <1> QED
    BY Zenon, <1>1, <1>2, <1>3, <1>4, <1>5 DEF RequestInv, GrayTypes, NotifKept

\* Neither do changes of rules and plugins.
LEMMA PluginHostKeeps ==
    ASSUME RequestInv, PluginHost
    PROVE  RequestInv'
  <1>1. UNCHANGED <<notif, work, chan, daemon>>
    BY Zenon, HostFrame
  <1>2. /\ notif \in [Notifs -> Notifications] /\ PendingTraced /\ FoundAgrees
        /\ work \in [Notifs -> Requests] /\ daemon \in Positions /\ HostInv
    BY Zenon DEF RequestInv, GrayTypes
  <1>3. HostInv' /\ HostCalm
    BY Zenon, <1>2, HostKeeps
  <1>4. NotifKept
    BY Zenon, <1>1, <1>2, EndsKeeps
  <1>5. WorkAgrees' /\ ChanAgrees' /\ chan' \in Seq(Completions)
    BY Zenon, <1>1, <1>3, <1>4, RequestsKept DEF NotifKept
  <1>6. FoundAgrees'
    <2>1. daemon.rule \in Rules
      BY Zenon, <1>2 DEF Positions
    <2> QED
      BY Zenon, <1>1, <1>2, <1>3, <2>1 DEF FoundAgrees, HostCalm
  <1> QED
    BY Zenon, <1>1, <1>2, <1>3, <1>4, <1>5, <1>6 DEF RequestInv, GrayTypes, NotifKept

\* How the position of the daemon thread moves, but for deferring a request.
DaemonMoves ==
    \/ daemon' = daemon /\ (daemon.at # "found" \/ notif' = notif)
    \/ \E p \in {"loop", "drain", "handle"} : daemon' = At(p)
    \/ /\ notif' = notif
       /\ \E n \in Notifs : \E r \in Find(notif[n].subject) :
            notif[n].st = "pending" /\ daemon' = [at |-> "found", n |-> n, rule |-> r]

\* What it does to the requests and the notifications.
DaemonShape ==
    /\ work' = work
    /\ chan' = chan \/ (chan # <<>> /\ chan' = Tail(chan))
    /\ notif' = notif \/ \E n : Ends(n)
    /\ DaemonMoves

\* Every step of the daemon thread has this shape, or defers a request.
LEMMA DaemonHasShape ==
    ASSUME DaemonStep \/ BeginCycle \/ TakeFails
    PROVE  DaemonShape \/ DeferGray
  <1>1. CASE TakeCompletion \/ TakeFails
    <2>1. /\ work' = work
          /\ \/ daemon' = daemon /\ daemon.at # "found"
             \/ daemon' = At("loop")
      BY Zenon, <1>1 DEF TakeCompletion, TakeFails
    <2> QED
      BY Zenon, <1>1, <2>1, TakeShape DEF DaemonShape, DaemonMoves
  <1>2. CASE EndDrain \/ EndHandle \/ BeginCycle
    BY Zenon, <1>2 DEF EndDrain, EndHandle, BeginCycle, threads, DaemonShape, DaemonMoves
  <1>3. ASSUME NEW n \in Notifs, Handle(n)
        PROVE  DaemonShape
    <2>1. /\ work' = work /\ chan' = chan /\ notif[n].st = "pending"
          /\ daemon.at # "found"
      BY Zenon, <1>3 DEF Handle, Pending, threads
    <2> QED
      BY Zenon, <1>3, <2>1, HandleShape DEF DaemonShape, DaemonMoves
  <1>4. CASE AnswerGray
    <2>1. work' = work /\ chan' = chan /\ daemon' = At("handle") /\ GrayNow
      BY Zenon, <1>4 DEF AnswerGray, threads
    <2> QED
      BY Zenon, <2>1, GrayEnds DEF DaemonShape, DaemonMoves
  <1> QED
    BY Zenon, <1>1, <1>2, <1>3, <1>4 DEF DaemonStep

\* The daemon holds a rule only for a notification that waits.
LEMMA MovesToPending ==
    ASSUME DaemonMoves
    PROVE  \/ daemon' = daemon
           \/ daemon'.at # "found"
           \/ \E n \in Notifs : notif[n].st = "pending" /\ daemon'.n = n
  <1>1. \A p \in {"loop", "drain", "handle"} : At(p).at = p
    BY Zenon DEF At
  <1> QED
    BY <1>1 DEF DaemonMoves

\* The daemon thread keeps the invariant, while it defers nothing.
LEMMA DaemonKeeps ==
    ASSUME RequestInv, DaemonShape, UNCHANGED <<rules, revision, deciders, nextIndex>>
    PROVE  RequestInv'
  <1>1. /\ notif \in [Notifs -> Notifications] /\ PendingTraced
        /\ work \in [Notifs -> Requests] /\ daemon \in Positions /\ HostInv
    BY Zenon DEF RequestInv, GrayTypes
  <1>2. NotifKept
    BY Zenon, <1>1, EndsKeeps DEF DaemonShape
  <1>3. HostCalm
    BY Zenon, NoHostCalm
  <1>4. WorkAgrees' /\ ChanAgrees' /\ chan' \in Seq(Completions)
    BY Zenon, <1>2, <1>3, RequestsKept DEF DaemonShape, NotifKept
  <1>5. HostInv'
    BY Zenon, <1>1 DEF HostInv, RulesDistinct, SlotsDistinct
  <1>6. daemon' \in Positions /\ FoundAgrees'
    <2>1. CASE daemon' = daemon /\ (daemon.at # "found" \/ notif' = notif)
      BY Zenon, <1>1, <2>1 DEF RequestInv, FoundAgrees, Genuine
    <2>2. ASSUME NEW p \in {"loop", "drain", "handle"}, daemon' = At(p)
          PROVE  daemon' \in Positions /\ FoundAgrees'
      <3>1. NoRule \in Rules
        BY Zenon DEF NoRule, Rules, Owners
      <3> QED
        BY Zenon, <2>2, <3>1 DEF At, Positions, FoundAgrees
    <2>3. ASSUME NEW n \in Notifs, NEW r \in Find(notif[n].subject), notif' = notif,
                 notif[n].st = "pending", daemon' = [at |-> "found", n |-> n, rule |-> r]
          PROVE  daemon' \in Positions /\ FoundAgrees'
      <3>1. r \in rules /\ r \in Rules /\ r.subject = notif[n].subject
        BY Zenon, <1>1 DEF Find, HostInv
      <3>2. Genuine(r)'
        BY Zenon, <1>1, <3>1 DEF HostInv, RulesDistinct, Genuine
      <3>3. daemon'.at = "found" /\ daemon'.n = n /\ daemon'.rule = r
        BY Zenon, <2>3
      <3>4. daemon' \in Positions
        BY Zenon, <2>3, <3>1 DEF Positions
      <3>5. notif[n].trace \in Traces
        BY Zenon, <1>1, <2>3 DEF PendingTraced
      <3> QED
        BY Zenon, <2>3, <3>1, <3>2, <3>3, <3>4, <3>5 DEF FoundAgrees
    <2> QED
      BY Zenon, <2>1, <2>2, <2>3 DEF DaemonShape, DaemonMoves
  <1> QED
    BY Zenon, <1>1, <1>2, <1>4, <1>5, <1>6 DEF RequestInv, GrayTypes, NotifKept, DaemonShape

\* A request is made with the rule that was copied and a slot of its target,
\* although the rule may have changed and the process died since.
LEMMA DeferKeeps ==
    ASSUME RequestInv, DeferGray
    PROVE  RequestInv'
  <1>1. /\ notif \in [Notifs -> Notifications] /\ PendingTraced
        /\ work \in [Notifs -> Requests] /\ daemon \in Positions /\ HostInv
        /\ chan \in Seq(Completions) /\ WorkAgrees /\ ChanAgrees
    BY Zenon DEF RequestInv, GrayTypes
  <1>2. PICK n \in Notifs, r \in Rules :
        /\ n = daemon.n /\ r = daemon.rule /\ Genuine(r)
        /\ notif[n].st \in {"pending", "over"}
        /\ notif[n].st = "pending" =>
             notif[n].subject = r.subject /\ notif[n].trace \in Traces
    BY Zenon, <1>1 DEF DeferGray, RequestInv, FoundAgrees, Positions
  <1>3. PICK s \in deciders :
          /\ s.id = r.target
          /\ work' = [work EXCEPT ![n] = [Idle EXCEPT !.at = "check", !.rule = r,
                                                      !.index = s.index]]
    BY Zenon, <1>2 DEF DeferGray
  <1>4. /\ notif' = IF IsValid(n) THEN [notif EXCEPT ![n].st = "deferred"] ELSE notif
        /\ daemon' = At("handle") /\ chan' = chan
        /\ UNCHANGED <<rules, revision, deciders, nextIndex>>
    BY Zenon, <1>2 DEF DeferGray, policy, plugins
  <1>5. /\ notif' \in [Notifs -> Notifications]
        /\ \A m \in Notifs : m # n => notif'[m] = notif[m]
        /\ notif'[n].st \in {"deferred", "over"}
        /\ notif'[n].st = "deferred" =>
             notif'[n].subject = r.subject /\ notif'[n].trace \in Traces
        /\ notif[n].st = "over" => notif'[n] = notif[n]
    BY Zenon, <1>1, <1>2, <1>4 DEF IsValid, Notifications
  <1>6. HostCalm
    BY Zenon, <1>4, NoHostCalm
  <1>7. NotifCalm /\ PendingTraced'
    BY Zenon, <1>1, <1>2, <1>5 DEF NotifCalm, PendingTraced
  <1>8. HostInv'
    BY Zenon, <1>1, <1>4 DEF HostInv, RulesDistinct, SlotsDistinct
  <1>9. daemon' \in Positions /\ FoundAgrees'
    <2>1. NoRule \in Rules
      BY Zenon DEF NoRule, Rules, Owners
    <2> QED
      BY Zenon, <1>4, <2>1 DEF At, Positions, FoundAgrees
  <1>10. ChanAgrees'
    BY Zenon, <1>1, <1>4, <1>6, <1>7, CalmKeeps DEF ChanAgrees
  <1>11. work' \in [Notifs -> Requests] /\ WorkAgrees'
    <2> DEFINE x == [Idle EXCEPT !.at = "check", !.rule = r, !.index = s.index]
    <2>1. s.index \in Nat /\ s.index > 0 /\ s.index < nextIndex
      BY Zenon, <1>1 DEF HostInv, SlotsDistinct
    <2>2. /\ x \in Requests /\ x.at = "check" /\ x.rule = r /\ x.index = s.index
      <3>1. NoRule \in Rules
        BY Zenon DEF NoRule, Rules, Owners
      <3> QED
        BY Zenon, <1>2, <2>1, <3>1 DEF Idle, Requests
    <2>3. work' = [work EXCEPT ![n] = x]
      BY Zenon, <1>3
    <2> HIDE DEF x
    <2>4. Targets(r, s.index)
      BY Zenon, <1>1, <1>3, <2>1 DEF Targets, HostInv, SlotsDistinct
    <2>5. Genuine(r)' /\ Targets(r, s.index)'
      BY Zenon, <1>2, <1>4, <2>4 DEF Genuine, Targets
    <2>6. WorkOf(n, x)'
      BY Zenon, <1>2, <1>5, <2>2, <2>5 DEF WorkOf, Request, Asked
    <2>7. work' \in [Notifs -> Requests] /\ work'[n] = x
          /\ \A m \in Notifs : m # n => work'[m] = work[m]
      BY Zenon, <1>1, <1>2, <2>2, <2>3
    <2>8. ASSUME NEW m \in Notifs, NEW w \in Requests, work'[m] = w
          PROVE  WorkOf(m, w)'
      <3>1. CASE m = n
        BY Zenon, <2>6, <2>7, <2>8, <3>1
      <3>2. CASE m # n
        BY Zenon, <1>1, <1>6, <1>7, <2>7, <2>8, <3>2, CalmKeeps DEF WorkAgrees
      <3> QED
        BY Zenon, <3>1, <3>2
    <2> QED
      BY Zenon, <2>7, <2>8 DEF WorkAgrees
  <1> QED
    BY Zenon, <1>1, <1>4, <1>5, <1>7, <1>8, <1>9, <1>10, <1>11 DEF RequestInv, GrayTypes

\* What a worker does to its request and the channel.
WorkerShape(n) ==
    /\ \E x \in Requests : WorkOf(n, x) /\ work' = [work EXCEPT ![n] = x]
    /\ \/ chan' = chan
       \/ \E c \in Completions : Agrees(c) /\ chan' = Append(chan, c)

\* A completion carries the request and a verdict of the slot it names.
LEMMA CompleteShape ==
    ASSUME NEW n \in Notifs, work \in [Notifs -> Requests], NEW outcome \in Outcomes,
           Request(n, work[n].rule, work[n].index), Complete(n, outcome),
           outcome.kind = "plugin" /\ IsIndexActive(work[n].index) =>
             outcome.by = work[n].index
    PROVE  WorkerShape(n)
  <1>1. PICK w \in Requests : w = work[n]
    OBVIOUS
  <1> DEFINE c == [n |-> n, rule |-> w.rule, index |-> w.index, outcome |-> outcome]
             x == [Idle EXCEPT !.at = "notify"]
  <1>2. chan' = Append(chan, c) /\ work' = [work EXCEPT ![n] = x]
    BY Zenon, <1>1 DEF Complete
  <1>3. c \in Completions /\ Agrees(c)
    BY Zenon, <1>1 DEF Completions, Requests, Agrees
  <1>4. x \in Requests /\ x.at = "notify"
    BY Zenon DEF Idle, NoRule, Requests, Rules, Owners
  <1> HIDE DEF c, x
  <1>5. WorkOf(n, x)
    BY Zenon, <1>4 DEF WorkOf, Asked
  <1> QED
    BY Zenon, <1>2, <1>3, <1>4, <1>5 DEF WorkerShape

\* A worker asks and answers for the slot its request was given, or for none.
LEMMA WorkerHasShape ==
    ASSUME RequestInv, NEW n \in Notifs, Worker(n)
    PROVE  WorkerShape(n)
  <1>1. PICK w \in Requests : w = work[n] /\ WorkOf(n, w)
    BY Zenon DEF RequestInv, GrayTypes, WorkAgrees
  <1>2. /\ work \in [Notifs -> Requests] /\ HostInv
        /\ w.rule \in Rules /\ w.index \in Nat
    BY Zenon DEF RequestInv, GrayTypes, Requests
  <1>3. CASE WorkerCheck(n)
    <2>1. w.at = "check" /\ Request(n, w.rule, w.index)
      BY Zenon, <1>1, <1>3 DEF WorkerCheck, WorkOf
    <2>2. CASE work' = [work EXCEPT ![n].at = "call"] /\ chan' = chan
      <3> DEFINE x == [w EXCEPT !.at = "call"]
      <3>1. work' = [work EXCEPT ![n] = x]
        BY Zenon, <1>1, <1>2, <2>2
      <3>2. x \in Requests /\ x.at = "call" /\ x.rule = w.rule /\ x.index = w.index
        BY Zenon DEF Requests
      <3> HIDE DEF x
      <3>3. WorkOf(n, x)
        BY Zenon, <2>1, <3>2 DEF WorkOf, Asked
      <3> QED
        BY Zenon, <2>2, <3>1, <3>2, <3>3 DEF WorkerShape
    <2>3. CASE Complete(n, Fallback("deny"))
      <3>1. Fallback("deny") \in Outcomes /\ Fallback("deny").kind = "fallback"
        BY Zenon DEF Fallback, Outcomes
      <3> QED
        BY Zenon, <1>1, <1>2, <2>1, <2>3, <3>1, CompleteShape
    <2> QED
      BY Zenon, <1>3, <2>2, <2>3 DEF WorkerCheck
  <1>4. CASE WorkerCall(n)
    <2> DEFINE slot == {s \in deciders : s.id = w.rule.target}
               i == IF slot = {} THEN 0 ELSE (CHOOSE s \in slot : TRUE).index
               x == [w EXCEPT !.at = "asked", !.slot = i]
    <2>1. w.at = "call" /\ Request(n, w.rule, w.index) /\ chan' = chan
      BY Zenon, <1>1, <1>4 DEF WorkerCall, WorkOf
    <2>2. work' = [work EXCEPT ![n] = x]
      BY Zenon, <1>1, <1>2, <1>4 DEF WorkerCall
    <2>3. i = 0 \/ \E s \in deciders : s.id = w.rule.target /\ s.index = i
      BY Zenon
    <2>4. i \in Nat
      BY Zenon, <1>2, <2>3 DEF HostInv
    <2> HIDE DEF i
    <2>5. /\ x \in Requests /\ x.at = "asked" /\ x.rule = w.rule
          /\ x.index = w.index /\ x.slot = i
      BY Zenon, <2>4 DEF Requests
    <2> HIDE DEF x
    <2>6. Asked(x)
      BY Zenon, <1>2, <2>1, <2>3, <2>5 DEF Asked, IsIndexActive, Request, Targets, HostInv,
         SlotsDistinct
    <2>7. WorkOf(n, x)
      BY Zenon, <2>1, <2>5, <2>6 DEF WorkOf
    <2> QED
      BY Zenon, <2>1, <2>2, <2>5, <2>7 DEF WorkerShape
  <1>5. CASE WorkerAnswer(n)
    <2>1. Request(n, w.rule, w.index) /\ w.at = "asked" /\ Asked(w)
      BY Zenon, <1>1, <1>5 DEF WorkerAnswer, WorkOf
    <2>2. PICK outcome \in WorkerOutcomes(n) : Complete(n, outcome)
      BY Zenon, <1>5 DEF WorkerAnswer
    <2> QED
      BY Zenon, <1>1, <1>2, <2>1, <2>2, OutcomeShape, CompleteShape DEF Asked
  <1>6. CASE WorkerNotify(n)
    <2>1. Idle \in Requests /\ Idle.at = "none"
      BY Zenon DEF Idle, NoRule, Requests, Rules, Owners
    <2>2. WorkOf(n, Idle)
      BY Zenon, <2>1 DEF WorkOf, Asked
    <2> QED
      BY Zenon, <1>6, <2>1, <2>2 DEF WorkerNotify, WorkerShape
  <1> QED
    BY Zenon, <1>3, <1>4, <1>5, <1>6 DEF Worker

\* A worker keeps the invariant.
LEMMA WorkerKeeps ==
    ASSUME RequestInv, NEW n \in Notifs, Worker(n)
    PROVE  RequestInv'
  <1>1. UNCHANGED <<rules, revision, deciders, nextIndex, notif, daemon>>
    BY Zenon, WorkerFrame
  <1>2. /\ notif \in [Notifs -> Notifications] /\ PendingTraced /\ FoundAgrees
        /\ work \in [Notifs -> Requests] /\ daemon \in Positions /\ HostInv
        /\ chan \in Seq(Completions) /\ WorkAgrees /\ ChanAgrees
    BY Zenon DEF RequestInv, GrayTypes
  <1>3. /\ \A m \in Notifs, w \in Requests : WorkOf(m, w) => WorkOf(m, w)'
        /\ \A c \in Completions : Agrees(c) => Agrees(c)'
    BY Zenon, <1>1, NoHostCalm, CalmKeeps DEF NotifCalm
  <1>4. HostInv' /\ FoundAgrees' /\ PendingTraced'
    BY Zenon, <1>1, <1>2 DEF HostInv, RulesDistinct, SlotsDistinct, FoundAgrees, Genuine,
                      PendingTraced
  <1>5. work' \in [Notifs -> Requests] /\ WorkAgrees'
    <2>1. PICK x \in Requests : WorkOf(n, x) /\ work' = [work EXCEPT ![n] = x]
      BY Zenon, WorkerHasShape DEF WorkerShape
    <2> QED
      BY Zenon, <1>2, <1>3, <2>1 DEF WorkAgrees
  <1>6. chan' \in Seq(Completions) /\ ChanAgrees'
    <2>1. CASE chan' = chan
      BY Zenon, <1>2, <1>3, <2>1 DEF ChanAgrees
    <2>2. ASSUME NEW c \in Completions, Agrees(c), chan' = Append(chan, c)
          PROVE  chan' \in Seq(Completions) /\ ChanAgrees'
      <3>1. chan \in Seq(Completions)
        BY Zenon, <1>2
      <3>2. /\ chan' \in Seq(Completions)
            /\ \A i \in DOMAIN chan' : chan'[i] = c \/ (i \in DOMAIN chan /\ chan'[i] = chan[i])
        BY <2>2, <3>1, SendShape, Zenon
      <3> QED
        BY Zenon, <1>2, <1>3, <2>2, <3>2 DEF ChanAgrees
    <2> QED
      BY Zenon, <2>1, <2>2, WorkerHasShape DEF WorkerShape
  <1> QED
    BY Zenon, <1>1, <1>2, <1>4, <1>5, <1>6 DEF RequestInv, GrayTypes

-----------------------------------------------------------------------------
(* The theorems about the requests.                                        *)

\* Every request is about a rule that was in the store and a slot its target
\* had, through all interleavings of daemon, workers, plugins and processes.
LEMMA RequestInvariance == Spec => []RequestInv
  <1>1. RequestInv /\ [Next]_vars => RequestInv'
    <2> SUFFICES ASSUME RequestInv, [Next]_vars PROVE RequestInv'
      OBVIOUS
    <2>1. CASE DaemonStep \/ BeginCycle \/ TakeFails
      BY Zenon, <2>1, DaemonHasShape, DaemonFrame, DaemonKeeps, DeferKeeps
    <2>2. CASE UNCHANGED vars
      <3>1. DaemonShape /\ UNCHANGED <<rules, revision, deciders, nextIndex>>
        BY Zenon, <2>2 DEF vars, policy, plugins, threads, DaemonShape, DaemonMoves
      <3> QED
        BY Zenon, <3>1, DaemonKeeps
    <2> QED
      BY Zenon, <2>1, <2>2, MachineKeeps, PluginHostKeeps, WorkerKeeps DEF Next
  <1> QED
    BY <1>1, InitRequests, PTL DEF Spec

\* An approval of a deferred process comes from the head of the channel.
LEMMA LetThrough ==
    ASSUME RequestInv, Next, NEW n \in Notifs, notif[n].st = "deferred",
           notif'[n].st = "allow"
    PROVE  LET c == Head(chan)
           IN  /\ c.n = n
               /\ c.outcome.kind = "plugin" =>
                    c.outcome.by = c.index /\ IsIndexActive(c.index)
  <1>1. notif \in [Notifs -> Notifications] /\ chan \in Seq(Completions)
    BY Zenon DEF RequestInv, GrayTypes
  <1>2. notif' # notif
    OBVIOUS
  <1>3. ASSUME Machine
        PROVE  FALSE
    <2>1. ASSUME NEW m \in Notifs, NEW t \in Traces, NEW s \in Subjects, Raise(m, t, s)
          PROVE  FALSE
      BY Zenon, <1>1, <2>1 DEF Raise
    <2>2. ASSUME NEW m \in Notifs, Die(m)
          PROVE  FALSE
      BY Zenon, <1>1, <2>2 DEF Die, Settled
    <2> QED
      BY Zenon, <1>2, <1>3, <2>1, <2>2 DEF Machine, EndTrace, ForgetTrace
  <1>4. CASE TakeCompletion \/ TakeFails
    <2>1. chan # <<>> /\ AnswerDeferred(Head(chan))
      BY Zenon, <1>2, <1>4 DEF TakeCompletion, TakeFails
    <2>2. PICK c \in Completions : c = Head(chan) /\ Agrees(c) /\ AnswerDeferred(c)
      BY Zenon, <1>1, <2>1, TailShape DEF RequestInv, ChanAgrees
    <2>3. c.n = n
      BY Zenon, <1>1, <1>2, <2>2, AnswerEnds, EndsShape
    <2>4. Resolution(c).decision = "allow"
      BY Zenon, <1>1, <2>2, <2>3 DEF AnswerDeferred, Respond, Settled, IsValid
    <2>5. c.outcome.kind = "plugin" => IsIndexActive(c.index)
      BY Zenon, <2>4 DEF Resolution
    <2> QED
      BY Zenon, <2>2, <2>3, <2>5 DEF Agrees
  <1>5. ASSUME DeferGray
        PROVE  FALSE
    BY <1>1, <1>5 DEF DeferGray
  <1>6. ASSUME AnswerGray
        PROVE  FALSE
    <2>1. PICK m : Ends(m) /\ notif[m].st \in {"pending", "over"}
      BY Zenon, <1>6, GrayEnds DEF AnswerGray, RequestInv, FoundAgrees
    <2> QED
      BY <1>1, <2>1, EndsShape
  <1>7. ASSUME NEW m \in Notifs, Handle(m)
        PROVE  FALSE
    <2>1. Ends(m) /\ notif[m].st = "pending"
      BY Zenon, <1>2, <1>7, HandleShape DEF Handle, Pending
    <2> QED
      BY <1>1, <2>1, EndsShape
  <1>8. ASSUME EndDrain \/ EndHandle \/ BeginCycle
        PROVE  FALSE
    BY Zenon, <1>2, <1>8 DEF EndDrain, EndHandle, BeginCycle
  <1> QED
    BY Zenon, <1>2, <1>3, <1>4, <1>5, <1>6, <1>7, <1>8, HostFrame, WorkerFrame
       DEF Next, DaemonStep

\* A request that is made starts with a check.
LEMMA DeferStarts ==
    ASSUME DeferGray
    PROVE  \E x : x.at = "check" /\ work' = [work EXCEPT ![daemon.n] = x]
  <1>1. PICK s \in deciders :
          work' = [work EXCEPT ![daemon.n] = [Idle EXCEPT !.at = "check",
                                   !.rule = daemon.rule, !.index = s.index]]
    BY Zenon DEF DeferGray
  <1>2. [Idle EXCEPT !.at = "check", !.rule = daemon.rule, !.index = s.index].at
          = "check"
    BY Zenon DEF Idle
  <1> QED
    BY Zenon, <1>1, <1>2

\* A request is completed with an approval only while its slot is there.
LEMMA ApprovedLive ==
    ASSUME RequestInv, Next, NEW n \in Notifs, work[n].at = "asked",
           work'[n].at = "notify", chan'[Len(chan')].outcome.decision = "allow"
    PROVE  IsIndexActive(work[n].index)
  <1>1. work \in [Notifs -> Requests] /\ chan \in Seq(Completions)
    BY Zenon DEF RequestInv, GrayTypes
  <1>2. work' # work
    OBVIOUS
  <1>3. ASSUME NEW m \in Notifs, Worker(m)
        PROVE  IsIndexActive(work[n].index)
    <2>1. m = n
      BY Zenon, <1>1, <1>3, WorkerHasShape DEF WorkerShape
    <2>2. WorkerAnswer(n)
      BY Zenon, <1>3, <2>1 DEF Worker, WorkerCheck, WorkerCall, WorkerNotify
    <2>3. PICK outcome \in WorkerOutcomes(n) : Complete(n, outcome)
      BY Zenon, <2>2 DEF WorkerAnswer
    <2>4. outcome.decision = "allow"
      <3>1. PICK c : /\ chan' = Append(chan, c) /\ c.outcome = outcome
        BY <2>3 DEF Complete
      <3> QED
        BY <1>1, <3>1
    <2> QED
      BY Zenon, <1>1, <2>3, <2>4, OutcomeShape
  <1>4. CASE DeferGray
    BY Zenon, <1>1, <1>4, DeferStarts
  <1> QED
    BY Zenon, <1>2, <1>3, <1>4, MachineFrame, HostFrame, DaemonHasShape DEF Next, DaemonShape

\* For any number of notifications, plugins, loads and rule changes: a deferred
\* process is let through only by the verdict of the slot that was asked, while
\* that slot is loaded (GrayDecisionWorker::run, drain_completions).
THEOREM AllowedLive == Spec => AllowNeedsLiveTarget
  <1>1. RequestInv /\ [Next]_vars => [AllowedByLiveTarget]_vars
    BY Zenon, LetThrough, ApprovedLive DEF AllowedByLiveTarget
  <1> QED
    BY <1>1, RequestInvariance, PTL DEF Spec, AllowNeedsLiveTarget

\* A notification is deferred once: no worker has it before.
WakeInv ==
    /\ \A n \in Notifs : notif[n].st \in {"none", "pending"} => work[n].at = "none"
    /\ daemon.at = "found" => work[daemon.n].at = "none"
    /\ NoLostWake

\* A worker sets the eventfd after it sent.
LEMMA WorkerWakes ==
    ASSUME RequestInv, WakeInv, NEW n \in Notifs, Worker(n)
    PROVE  WakeInv'
  <1>1. /\ work \in [Notifs -> Requests]
        /\ UNCHANGED <<notif, daemon, aborted>>
    BY Zenon, WorkerFrame DEF RequestInv, GrayTypes
  <1>2. work[n].at # "none" /\ \A m \in Notifs : m # n => work'[m] = work[m]
    BY Zenon, <1>1, WorkerHasShape
       DEF WorkerShape, Worker, WorkerCheck, WorkerCall, WorkerAnswer, WorkerNotify
  <1>3. NoLostWake'
    <2>1. CASE WorkerNotify(n)
      BY Zenon, <2>1 DEF WorkerNotify, NoLostWake
    <2>2. ASSUME NEW outcome, Complete(n, outcome)
          PROVE  NoLostWake'
      <3>1. work'[n].at = "notify"
        BY Zenon, <1>1, <2>2 DEF Complete, Idle
      <3> QED
        BY Zenon, <3>1 DEF NoLostWake
    <2>3. CASE chan' = chan /\ wake' = wake /\ work[n].at # "notify"
      BY Zenon, <1>1, <1>2, <2>3 DEF WakeInv, NoLostWake
    <2> QED
      BY Zenon, <2>1, <2>2, <2>3 DEF Worker, WorkerCheck, WorkerCall, WorkerAnswer
  <1> QED
    BY Zenon, <1>1, <1>2, <1>3 DEF WakeInv, RequestInv, FoundAgrees

\* The daemon leaves a completion only for a drain, or after an error.
LEMMA DaemonWakes ==
    ASSUME RequestInv, WakeInv, DaemonStep \/ BeginCycle \/ TakeFails
    PROVE  WakeInv'
  <1>1. work \in [Notifs -> Requests] /\ notif \in [Notifs -> Notifications]
    BY Zenon DEF RequestInv, GrayTypes
  <1>2. CASE DeferGray
    <2>1. PICK x : work' = [work EXCEPT ![daemon.n] = x]
      BY Zenon, <1>2, DeferStarts
    <2>2. /\ daemon.n \in Notifs /\ notif[daemon.n].st \in {"pending", "over"}
          /\ work[daemon.n].at = "none" /\ daemon'.at = "handle"
          /\ chan' = chan /\ wake' = wake /\ aborted' = aborted /\ daemon.at = "found"
      BY Zenon, <1>2 DEF DeferGray, At, WakeInv, RequestInv, FoundAgrees
    <2>3. /\ \A m \in Notifs : m # daemon.n => work'[m] = work[m] /\ notif'[m] = notif[m]
          /\ notif'[daemon.n].st \in {"deferred", "over"}
      BY <1>1, <1>2, <2>1, <2>2 DEF DeferGray, IsValid, Notifications
    <2> QED
      BY Zenon, <2>2, <2>3 DEF WakeInv, NoLostWake
  <1>3. CASE DaemonShape
    <2>1. \A m \in Notifs : notif'[m].st \in {"none", "pending"} => notif'[m] = notif[m]
      BY Zenon, <1>1, <1>3, EndsShape DEF DaemonShape
    <2>2. NoLostWake'
      <3>1. CASE BeginCycle \/ TakeFails \/ TakeCompletion \/ EndDrain
        <4>1. chan' = <<>> \/ daemon'.at = "drain" \/ aborted'
          <5>1. CASE BeginCycle
            BY Zenon, <5>1 DEF BeginCycle, At
          <5>2. CASE TakeFails \/ TakeCompletion
            BY Zenon, <5>2 DEF TakeFails, TakeCompletion
          <5>3. CASE EndDrain
            BY Zenon, <5>3 DEF EndDrain, threads
          <5> QED
            BY Zenon, <3>1, <5>1, <5>2, <5>3
        <4> QED
          BY Zenon, <4>1 DEF NoLostWake
      <3>2. CASE AnswerGray \/ EndHandle \/ \E n \in Notifs : Handle(n)
        <4>1. UNCHANGED <<chan, wake, work, aborted>> /\ daemon.at # "drain"
          BY Zenon, <3>2 DEF Handle, AnswerGray, EndHandle, threads
        <4> QED
          BY Zenon, <4>1 DEF WakeInv, NoLostWake
      <3>3. CASE DeferGray
        BY Zenon, <1>2, <3>3 DEF WakeInv
      <3> QED
        BY Zenon, <3>1, <3>2, <3>3 DEF DaemonStep
    <2>3. daemon'.at = "found" => work'[daemon'.n].at = "none"
      <3>1. work' = work /\ DaemonMoves
        BY Zenon, <1>3 DEF DaemonShape
      <3> QED
        BY Zenon, <3>1, MovesToPending DEF WakeInv
    <2> QED
      BY Zenon, <1>3, <2>1, <2>2, <2>3 DEF WakeInv, DaemonShape
  <1> QED
    BY Zenon, <1>2, <1>3, DaemonHasShape

\* For any number of workers: a completion in the channel always has somebody
\* woken for it, unless an error ended the last drain
\* (CommandWakeFd::notify after the send, the eventfd drained before the
\* channel).
THEOREM WakesReach == Spec => []NoLostWake
  <1>1. Init => WakeInv
    BY Zenon, InitQuiet DEF WakeInv, NoLostWake
  <1>2. RequestInv /\ WakeInv /\ [Next]_vars => WakeInv'
    <2> SUFFICES ASSUME RequestInv, WakeInv, [Next]_vars PROVE WakeInv'
      OBVIOUS
    <2>1. CASE Machine
      <3>1. notif \in [Notifs -> Notifications] /\ UNCHANGED <<work, chan, wake, daemon, aborted>>
        BY Zenon, <2>1, MachineFrame DEF RequestInv, GrayTypes
      <3>2. \A m \in Notifs : notif'[m].st \in {"none", "pending"} =>
                                notif[m].st \in {"none", "pending"}
        <4>1. ASSUME NEW n \in Notifs, NEW t \in Traces, NEW s \in Subjects, Raise(n, t, s)
              PROVE  \A m \in Notifs : notif'[m] = notif[m] \/ notif[m].st = "none"
          BY Zenon, <3>1, <4>1 DEF Raise
        <4>2. ASSUME NEW n \in Notifs, Die(n)
              PROVE  \A m \in Notifs : notif'[m] = notif[m] \/ notif'[m].st = "over"
          BY Zenon, <3>1, <4>2 DEF Die, Settled
        <4>3. ASSUME NEW t \in Traces, EndTrace(t) \/ ForgetTrace(t)
              PROVE  notif' = notif
          BY Zenon, <4>3 DEF EndTrace, ForgetTrace
        <4> QED
          BY Zenon, <2>1, <4>1, <4>2, <4>3 DEF Machine
      <3> QED
        BY Zenon, <3>1, <3>2 DEF WakeInv, NoLostWake
    <2>2. CASE PluginHost \/ UNCHANGED vars
      <3>1. UNCHANGED <<notif, work, chan, wake, daemon, aborted>>
        BY Zenon, <2>2, HostFrame DEF vars, threads
      <3> QED
        BY Zenon, <3>1 DEF WakeInv, NoLostWake
    <2> QED
      BY Zenon, <2>1, <2>2, WorkerWakes, DaemonWakes DEF Next
  <1>3. WakeInv => NoLostWake
    BY Zenon DEF WakeInv
  <1> QED
    BY <1>1, <1>2, <1>3, RequestInvariance, PTL DEF Spec

-----------------------------------------------------------------------------
(* The reusable decisions.                                                 *)

CacheInv == CacheTypes /\ ReusableStillGranted /\ ForgottenTraceNotCached

\* An entry that goes with its rule, its slot or its trace takes nothing else
\* along: what is left was there before.
LEMMA CacheShrinks ==
    ASSUME CacheTypes, cache' \subseteq cache, service' = service,
           traces' \in [Traces -> {"live", "terminal", "forgotten"}],
           DOMAIN byTrace' = Traces,
           service = "network" => \A e \in cache' : e.key \in byTrace'[e.key.trace]
    PROVE  CacheTypes'
BY Zenon DEF CacheTypes

\* Entries are removed with their keys, which no other entry has
\* (remove_cached_key).
LEMMA RemoveKeeps ==
    ASSUME CacheInv, service' = service, traces' = traces, rules' = rules,
           NEW p, RemoveEntries({e \in cache : e.instance = p}),
           deciders' = {s \in deciders : s.id # p}, daemon.at = "loop", daemon' = daemon
    PROVE  CacheInv'
  <1>1. /\ cache' = {e \in cache : e.instance # p}
        /\ byTrace' = [t \in Traces |->
                         byTrace[t] \ {e.key : e \in {f \in cache : f.instance = p}}]
    BY Zenon DEF RemoveEntries
  <1>2. \A e \in cache' : e \in cache /\ e.key.trace \in Traces /\ e.instance # p
    BY Zenon, <1>1 DEF CacheInv, CacheTypes
  <1>3. ASSUME service = "network", NEW e \in cache'
        PROVE  e.key \in byTrace'[e.key.trace]
    <2>1. e.key \notin {f.key : f \in {g \in cache : g.instance = p}}
      BY Zenon, <1>2 DEF CacheInv, CacheTypes
    <2> QED
      BY Zenon, <1>1, <1>2, <1>3, <2>1 DEF CacheInv, CacheTypes
  <1>4. CacheTypes'
    BY Zenon, <1>1, <1>3, CacheShrinks DEF CacheInv, CacheTypes
  <1>5. ReusableStillGranted'
    BY Zenon, <1>2 DEF CacheInv, ReusableStillGranted, Granted
  <1>6. ForgottenTraceNotCached'
    BY Zenon, <1>2 DEF CacheInv, ForgottenTraceNotCached
  <1> QED
    BY Zenon, <1>4, <1>5, <1>6 DEF CacheInv

\* An empty cache has nothing to be wrong.
LEMMA ClearKeeps ==
    ASSUME CacheInv, service' = service, traces' = traces, ClearReusableCache
    PROVE  CacheInv'
BY Zenon DEF ClearReusableCache, CacheInv, CacheTypes, ReusableStillGranted, Granted,
       ForgottenTraceNotCached

\* Plugins and their rules come and go: every decision that depends on what
\* goes is dropped.
LEMMA HostCache ==
    ASSUME CacheInv, PluginHost
    PROVE  CacheInv'
  <1>1. UNCHANGED <<service, traces, daemon>>
    BY Zenon, HostFrame
  <1>2. ASSUME NEW p \in Instances, LoadPlugin(p)
        PROVE  CacheInv'
    <2>1. /\ deciders \subseteq deciders'
          /\ UNCHANGED <<service, traces, daemon, rules, cache, byTrace>>
      BY Zenon, <1>1, <1>2 DEF LoadPlugin, policy, reusable
    <2> QED
      BY Zenon, <2>1 DEF CacheInv, CacheTypes, ReusableStillGranted, Granted,
         ForgottenTraceNotCached
  <1>3. ASSUME NEW p \in Instances, UnloadPlugin(p)
        PROVE  CacheInv'
    <2>1. /\ daemon.at = "loop" /\ deciders' = {s \in deciders : s.id # p}
          /\ \/ ClearReusableCache
             \/ RemoveEntries({e \in cache : e.instance = p}) /\ rules' = rules
      BY Zenon, <1>3 DEF UnloadPlugin, policy
    <2> QED
      BY Zenon, <1>1, <2>1, ClearKeeps, RemoveKeeps
  <1>4. ASSUME NEW p, NEW id, NEW s, NEW d, NEW target, RulesUpsert(p, id, s, d, target)
        PROVE  CacheInv'
    BY Zenon, <1>1, <1>4, ClearKeeps DEF RulesUpsert
  <1>5. ASSUME NEW p, NEW id, RulesDelete(p, id)
        PROVE  CacheInv'
    BY Zenon, <1>1, <1>5, ClearKeeps DEF RulesDelete
  <1> QED
    BY Zenon, <1>2, <1>3, <1>4, <1>5 DEF PluginHost

\* Traces end, and are forgotten with their decisions (forget_trace_cache).
LEMMA MachineCache ==
    ASSUME CacheInv, Machine
    PROVE  CacheInv'
  <1>1. UNCHANGED <<service, rules, deciders, daemon>>
    BY Zenon, MachineFrame
  <1>2. traces \in [Traces -> {"live", "terminal", "forgotten"}]
    BY Zenon DEF CacheInv, CacheTypes
  <1>3. CASE UNCHANGED <<cache, byTrace, traces>>
    BY Zenon, <1>1, <1>3 DEF CacheInv, CacheTypes, ReusableStillGranted, Granted,
       ForgottenTraceNotCached
  <1>4. ASSUME NEW t \in Traces, EndTrace(t)
        PROVE  CacheInv'
    <2>1. /\ UNCHANGED <<cache, byTrace>>
          /\ traces' = [traces EXCEPT ![t] = "terminal"]
      BY Zenon, <1>4 DEF EndTrace, reusable
    <2> QED
      BY Zenon, <1>1, <1>2, <2>1 DEF CacheInv, CacheTypes, ReusableStillGranted, Granted,
                              ForgottenTraceNotCached
  <1>5. ASSUME NEW t \in Traces, ForgetTrace(t)
        PROVE  CacheInv'
    <2>1. daemon.at = "loop" /\ traces' = [traces EXCEPT ![t] = "forgotten"]
      BY Zenon, <1>5 DEF ForgetTrace
    <2>2. CASE service = "network"
      <3>1. /\ cache' = {e \in cache : e.key \notin byTrace[t]}
            /\ byTrace' = [byTrace EXCEPT ![t] = {}]
        BY Zenon, <1>5, <2>2 DEF ForgetTrace, ForgetTraceCache
      <3>2. \A e \in cache' : e \in cache /\ e.key.trace \in Traces /\ e.key.trace # t
        BY Zenon, <2>2, <3>1 DEF CacheInv, CacheTypes
      <3>3. CacheTypes'
        BY Zenon, <1>1, <1>2, <2>1, <3>1, <3>2, CacheShrinks DEF CacheInv, CacheTypes
      <3>4. ReusableStillGranted' /\ ForgottenTraceNotCached'
        BY Zenon, <1>1, <1>2, <2>1, <2>2, <3>2
           DEF CacheInv, ReusableStillGranted, Granted, ForgottenTraceNotCached
      <3> QED
        BY Zenon, <3>3, <3>4 DEF CacheInv
    <2>3. CASE service # "network"
      <3>1. UNCHANGED <<cache, byTrace>>
        BY Zenon, <1>5, <2>3 DEF ForgetTrace
      <3> QED
        BY Zenon, <1>1, <1>2, <2>1, <2>3, <3>1
           DEF CacheInv, CacheTypes, ReusableStillGranted, Granted, ForgottenTraceNotCached
    <2> QED
      BY Zenon, <2>2, <2>3
  <1> QED
    BY Zenon, <1>3, <1>4, <1>5 DEF Machine, Raise, Die, reusable

\* A verdict is kept only if its rule is still in the store and its slot still
\* loaded, and for the network service only for a trace that runs
\* (drain_completions, is_rule_current, cache_decision).
LEMMA CachedKeeps ==
    ASSUME CacheInv, HostInv, NEW c \in Completions, Agrees(c),
           notif \in [Notifs -> Notifications],
           notif[c.n].st = "deferred", IsCached(c),
           CacheDecision(c.n, c.rule, c.outcome),
           UNCHANGED <<service, rules, deciders, traces>>, daemon'.at \in {"loop", "drain"}
    PROVE  CacheInv'
  <1>1. PICK key, entry, evicted, oldest :
          Cached(c.n, c.rule, c.outcome.by, key, entry, evicted, oldest)
    BY Zenon, CacheDecisionShape
  <1>2. entry.key = key /\ entry.instance = c.rule.target /\ entry.by = c.outcome.by
    BY Zenon, <1>1 DEF Cached
  <1>3. /\ \A e \in cache' : e = entry \/ (e \in cache /\ e.key # key)
        /\ \A e \in cache' : e.key \notin {f.key : f \in evicted}
    BY Zenon, <1>1 DEF Cached
  <1>4. /\ Genuine(c.rule) /\ Targets(c.rule, c.index)
        /\ notif[c.n].subject = c.rule.subject /\ notif[c.n].trace \in Traces
    BY Zenon DEF Agrees, Request
  <1>5. /\ entry.key.trace = notif[c.n].trace /\ entry.key.subject = notif[c.n].subject
        /\ c.rule.id = entry.key.id /\ c.rule.rev = entry.key.rev
        /\ c.rule.target = entry.instance
        /\ service = "network" => c.rule.owner = entry.key.owner
    BY Zenon, <1>1 DEF Cached
  <1>6. /\ c.outcome.kind = "plugin" /\ IsIndexActive(c.index) /\ IsRuleCurrent(c.rule)
        /\ service = "network" => traces[entry.key.trace] = "live"
    <2>1. Resolution(c).source = "plugin"
      BY Zenon DEF IsCached
    <2>2. c.outcome.kind \in {"plugin", "fallback"}
      BY Zenon DEF Completions, Outcomes
    <2>3. c.outcome.kind = "plugin" /\ IsIndexActive(c.index)
      BY Zenon, <2>1, <2>2 DEF Resolution
    <2> QED
      BY Zenon, <1>5, <2>3 DEF IsCached, NonTerminal
  <1>7. ReusableStillGranted'
    <2>1. c.rule \in rules
      BY Zenon, <1>4, <1>6 DEF IsRuleCurrent, Genuine
    <2>2. \E s \in deciders : s.id = c.rule.target /\ s.index = c.outcome.by
      BY Zenon, <1>4, <1>6 DEF Agrees, Targets, IsIndexActive
    <2>3. \A e \in cache : Granted(e)'
      BY Zenon DEF CacheInv, ReusableStillGranted, Granted
    <2>4. Granted(entry)'
      BY Zenon, <1>2, <1>4, <1>5, <2>1, <2>2 DEF Granted
    <2> QED
      BY Zenon, <1>3, <2>3, <2>4 DEF ReusableStillGranted
  <1>8. ForgottenTraceNotCached'
    BY Zenon, <1>3, <1>6 DEF CacheInv, ForgottenTraceNotCached
  <1>9. CacheTypes
    BY Zenon DEF CacheInv
  <1>10. /\ \A e \in cache' : e.key.trace \in Traces
         /\ \A e, f \in cache' : e.key = f.key => e = f
    <2>1. entry.key.trace \in Traces
      BY Zenon, <1>4, <1>5
    <2> QED
      BY Zenon, <1>2, <1>3, <1>9, <2>1 DEF CacheTypes
  <1>11. ASSUME service = "network", NEW e \in cache'
         PROVE  e.key \in byTrace'[e.key.trace]
    <2>1. e.key.trace \in Traces /\ e.key \notin {f.key : f \in evicted}
      BY Zenon, <1>3, <1>10
    <2>2. e.key \in byTrace[e.key.trace] \/ e.key = key
      BY Zenon, <1>2, <1>3, <1>9, <1>11 DEF CacheTypes
    <2> QED
      BY Zenon, <1>1, <1>11, <2>1, <2>2 DEF Cached
  <1>12. CacheTypes'
    <2>1. DOMAIN byTrace' = Traces
      BY Zenon, <1>1 DEF Cached
    <2> QED
      BY Zenon, <1>9, <1>10, <1>11, <2>1 DEF CacheTypes
  <1> QED
    BY Zenon, <1>7, <1>8, <1>12 DEF CacheInv

\* The daemon thread keeps a decision with what it depends on; the command
\* service drops those of ended traces before it looks one up.
LEMMA DaemonCache ==
    ASSUME RequestInv, CacheInv, DaemonStep \/ BeginCycle \/ TakeFails
    PROVE  CacheInv'
  <1>1. UNCHANGED <<service, rules, deciders, traces>>
    BY Zenon, DaemonFrame
  <1>2. CASE /\ UNCHANGED <<cache, byTrace>>
             /\ daemon'.at \in {"handle", "found"} => daemon.at \in {"handle", "found"}
    BY Zenon, <1>1, <1>2 DEF CacheInv, CacheTypes, ReusableStillGranted, Granted,
       ForgottenTraceNotCached
  <1>3. CASE EndDrain
    <2>1. /\ cache' \subseteq cache /\ UNCHANGED byTrace
          /\ service = "command" => \A e \in cache' : traces[e.key.trace] = "live"
      BY Zenon, <1>3 DEF EndDrain, NonTerminal
    <2>2. CacheTypes'
      BY Zenon, <1>1, <2>1, CacheShrinks DEF CacheInv, CacheTypes
    <2>3. ReusableStillGranted'
      BY Zenon, <1>1, <2>1 DEF CacheInv, ReusableStillGranted, Granted
    <2>4. ForgottenTraceNotCached'
      BY Zenon, <1>1, <2>1 DEF CacheInv, CacheTypes, ForgottenTraceNotCached
    <2> QED
      BY Zenon, <2>2, <2>3, <2>4 DEF CacheInv
  <1>4. CASE TakeCompletion \/ TakeFails
    <2>1. /\ chan # <<>> /\ daemon'.at \in {"loop", "drain"}
          /\ \/ UNCHANGED <<cache, byTrace>>
             \/ IsValid(Head(chan).n) /\ AnswerDeferred(Head(chan))
      <3>1. CASE TakeCompletion
        BY Zenon, <3>1 DEF TakeCompletion, reusable
      <3>2. CASE TakeFails
        BY Zenon, <3>2 DEF TakeFails, At, reusable
      <3> QED
        BY Zenon, <1>4, <3>1, <3>2
    <2>2. ASSUME IsValid(Head(chan).n), AnswerDeferred(Head(chan))
          PROVE  CacheInv'
      <3>1. PICK c \in Completions : c = Head(chan) /\ Agrees(c)
        BY Zenon, <2>1, TailShape DEF RequestInv, GrayTypes, ChanAgrees
      <3>2. notif[c.n].st = "deferred"
        BY Zenon, <2>2, <3>1 DEF IsValid, Agrees, Request
      <3>3. CASE IsCached(c)
        BY Zenon, <1>1, <2>1, <2>2, <3>1, <3>2, <3>3, CachedKeeps
           DEF AnswerDeferred, RequestInv, GrayTypes
      <3>4. CASE ~IsCached(c)
        BY Zenon, <1>2, <2>1, <2>2, <3>1, <3>4 DEF AnswerDeferred, reusable
      <3> QED
        BY Zenon, <3>3, <3>4
    <2> QED
      BY Zenon, <1>2, <2>1, <2>2
  <1>5. CASE AnswerGray \/ DeferGray
    BY Zenon, <1>2, <1>5 DEF AnswerGray, DeferGray, reusable
  <1>6. CASE BeginCycle \/ EndHandle
    <2>1. UNCHANGED <<cache, byTrace>> /\ daemon'.at \in {"loop", "drain"}
      <3>1. CASE BeginCycle
        BY Zenon, <3>1 DEF BeginCycle, At, reusable
      <3>2. CASE EndHandle
        BY Zenon, <3>2 DEF EndHandle, At, reusable
      <3> QED
        BY Zenon, <1>6, <3>1, <3>2
    <2> QED
      BY Zenon, <1>2, <2>1
  <1>7. ASSUME NEW n \in Notifs, Handle(n)
        PROVE  CacheInv'
    BY Zenon, <1>2, <1>7 DEF Handle, reusable
  <1> QED
    BY Zenon, <1>3, <1>4, <1>5, <1>6, <1>7 DEF DaemonStep

\* What is cached is granted and known, in every reachable state.
LEMMA CacheInvariance == Spec => []CacheInv
  <1>1. Init => CacheInv
    <2> SUFFICES ASSUME Init PROVE CacheInv
      OBVIOUS
    <2>1. /\ service \in Services /\ traces \in [Traces -> {"live", "forgotten"}]
          /\ cache = {} /\ byTrace = [t \in Traces |-> {}]
      BY Zenon DEF Init
    <2> QED
      BY Zenon, <2>1, GrayPolicyValid
         DEF CacheInv, CacheTypes, ReusableStillGranted, Granted, ForgottenTraceNotCached
  <1>2. RequestInv /\ CacheInv /\ [Next]_vars => CacheInv'
    <2> SUFFICES ASSUME RequestInv, CacheInv, [Next]_vars PROVE CacheInv'
      OBVIOUS
    <2>1. CASE UNCHANGED vars \/ \E n \in Notifs : Worker(n)
      <3>1. UNCHANGED <<service, rules, deciders, traces, cache, byTrace, daemon>>
        BY Zenon, <2>1, WorkerFrame DEF vars, policy, plugins, reusable
      <3> QED
        BY Zenon, <3>1 DEF CacheInv, CacheTypes, ReusableStillGranted, Granted,
           ForgottenTraceNotCached
    <2> QED
      BY Zenon, <2>1, MachineCache, HostCache, DaemonCache DEF Next
  <1> QED
    BY <1>1, <1>2, RequestInvariance, PTL DEF Spec

\* For any number of rules, plugins, traces and notifications, and any cache
\* size: a reusable decision is only kept for a rule that is in the store in
\* the revision it was made for, and for the slot its instance has now
\* (is_rule_current, remove_plugin_policy_owner, rules_apply).
THEOREM ReusableGranted == Spec => []ReusableStillGranted
  <1>1. CacheInv => ReusableStillGranted
    BY Zenon DEF CacheInv
  <1> QED
    BY <1>1, CacheInvariance, PTL

\* For any number of traces: no reusable decision outlives its trace's time in
\* the runtime (forget_trace_cache, the retain at the end of drain_completions).
THEOREM ForgottenNotCached == Spec => []ForgottenTraceNotCached
  <1>1. CacheInv => ForgottenTraceNotCached
    BY Zenon DEF CacheInv
  <1> QED
    BY <1>1, CacheInvariance, PTL

-----------------------------------------------------------------------------
(* The in-flight counts.                                                   *)

\* A worker that has still to complete its request.
Busy == {"check", "call", "asked"}

\* The requests about the rules R that a worker has.
Held(R) == {n \in Notifs : work[n].at \in Busy /\ work[n].rule \in R}

\* The completions about the rules R in a channel.
Places(q, R) == {i \in DOMAIN q : q[i].rule \in R}

\* The requests about the rules R in flight.
InFlight(R) == Cardinality(Held(R)) + Cardinality(Places(chan, R))

\* The revisions of a rule, which its count is about.
RuleOf(o, id) == {r \in Rules : r.owner = o /\ r.id = id}

\* The rules that ask an instance, which its count is about.
RulesTo(p) == {r \in Rules : r.target = p}

\* The counts of reserve and release.
CountsExact ==
    /\ globalPending = InFlight(Rules)
    /\ byRule \in [Owners \X RuleIds -> Int] /\ byInstance \in [Instances -> Int]
    /\ \A o \in Owners, id \in RuleIds : byRule[<<o, id>>] = InFlight(RuleOf(o, id))
    /\ \A p \in Instances : byInstance[p] = InFlight(RulesTo(p))

\* Finitely many requests are in flight, and none for the notification that
\* the daemon holds a rule for.
HeldInv ==
    /\ IsFiniteSet(Held(Rules))
    /\ daemon.at = "found" => work[daemon.n].at \notin Busy

\* The invariant of the counts.
FlightInv == HeldInv /\ CountsExact

\* The places of a channel can be counted.
LEMMA PlacesType ==
    ASSUME NEW q \in Seq(Completions), NEW R
    PROVE  IsFiniteSet(Places(q, R)) /\ Cardinality(Places(q, R)) \in Nat
  <1>1. IsFiniteSet(1 .. Len(q)) /\ DOMAIN q = 1 .. Len(q)
    BY FS_Interval
  <1>2. IsFiniteSet(Places(q, R))
    BY Zenon, <1>1, FS_Subset DEF Places
  <1> QED BY Zenon, <1>2, FS_CardinalityType

\* A completion is sent.
LEMMA PlacesAppend ==
    ASSUME NEW q \in Seq(Completions), NEW c \in Completions, NEW R
    PROVE  Cardinality(Places(Append(q, c), R))
             = Cardinality(Places(q, R)) + IF c.rule \in R THEN 1 ELSE 0
  <1>1. IsFiniteSet(Places(q, R)) /\ Cardinality(Places(q, R)) \in Nat
    BY Zenon, PlacesType
  <1>2. CASE c.rule \in R
    <2>1. Places(Append(q, c), R) = Places(q, R) \cup {Len(q) + 1}
      BY <1>2 DEF Places
    <2>2. Len(q) + 1 \notin Places(q, R)
      BY DEF Places
    <2> QED BY Zenon, <1>1, <1>2, <2>1, <2>2, FS_AddElement
  <1>3. CASE c.rule \notin R
    <2>1. Places(Append(q, c), R) = Places(q, R)
      BY <1>3 DEF Places
    <2> QED BY <1>1, <1>3, <2>1
  <1> QED BY Zenon, <1>2, <1>3

\* A completion is taken; the others move up by one place.
LEMMA PlacesTail ==
    ASSUME NEW q \in Seq(Completions), q # <<>>, NEW R
    PROVE  Cardinality(Places(q, R))
             = Cardinality(Places(Tail(q), R)) + IF Head(q).rule \in R THEN 1 ELSE 0
  <1> DEFINE P == Places(q, R)
             T == Places(Tail(q), R)
             f == [i \in T |-> i + 1]
  <1>1. /\ Tail(q) \in Seq(Completions) /\ Len(q) \in Nat /\ Len(q) >= 1
        /\ DOMAIN q = 1 .. Len(q) /\ DOMAIN Tail(q) = 1 .. Len(q) - 1
        /\ \A i \in 1 .. Len(q) - 1 : Tail(q)[i] = q[i + 1]
    OBVIOUS
  <1>2. IsFiniteSet(P) /\ IsFiniteSet(T) /\ Cardinality(T) \in Nat /\ Cardinality(P) \in Nat
    BY Zenon, <1>1, PlacesType
  <1>3. T \subseteq Int /\ P \subseteq Int
    BY <1>1 DEF Places
  <1>4. /\ \A i \in T : i + 1 \in P \ {1}
        /\ \A j \in P \ {1} : j - 1 \in T
    BY <1>1 DEF Places
  <1>5. 1 \in P <=> Head(q).rule \in R
    BY <1>1 DEF Places
  <1> HIDE DEF T, P
  <1>6. f \in Bijection(T, P \ {1})
    <2>1. f \in [T -> P \ {1}]
      BY Zenon, <1>4
    <2>2. \A i, j \in T : f[i] = f[j] => i = j
      BY <1>3
    <2>3. \A j \in P \ {1} : f[j - 1] = j
      BY <1>3, <1>4
    <2>4. \A j \in P \ {1} : \E i \in T : f[i] = j
      BY Zenon, <1>4, <2>3
    <2> HIDE DEF f
    <2> QED BY Zenon, <2>1, <2>2, <2>4 DEF Bijection, Injection, Surjection, IsInjective
  <1>7. Cardinality(P \ {1}) = Cardinality(T)
    BY Zenon, <1>2, <1>6, FS_Bijection DEF ExistsBijection
  <1>8. CASE Head(q).rule \in R
    <2>1. Cardinality(P \ {1}) = Cardinality(P) - 1
      BY Zenon, <1>2, <1>5, <1>8, FS_RemoveElement
    <2>2. Cardinality(P) = Cardinality(T) + 1
      BY <1>2, <1>7, <2>1
    <2> QED BY Zenon, <1>8, <2>2 DEF P, T
  <1>9. CASE Head(q).rule \notin R
    <2>1. P \ {1} = P
      BY Zenon, <1>5, <1>9
    <2>2. Cardinality(P) = Cardinality(T)
      BY <1>7, <2>1, Zenon
    <2>3. Cardinality(P) = Cardinality(T) + 0
      BY <1>2, <2>2
    <2> QED BY Zenon, <1>9, <2>3 DEF P, T
  <1> QED BY Zenon, <1>8, <1>9

\* The requests in flight can be counted.
LEMMA FlightType ==
    ASSUME chan \in Seq(Completions), IsFiniteSet(Held(Rules)), NEW R \in SUBSET Rules
    PROVE  /\ IsFiniteSet(Held(R)) /\ Cardinality(Held(R)) \in Nat
           /\ Cardinality(Places(chan, R)) \in Nat /\ InFlight(R) \in Nat
  <1>1. Held(R) \subseteq Held(Rules)
    BY Zenon DEF Held
  <1>2. IsFiniteSet(Held(R)) /\ Cardinality(Held(R)) \in Nat
    BY Zenon, <1>1, FS_Subset, FS_CardinalityType
  <1>3. Cardinality(Places(chan, R)) \in Nat
    BY Zenon, PlacesType
  <1> QED BY <1>2, <1>3 DEF InFlight

\* A worker goes on with its request, or without one.
LEMMA HeldStays ==
    ASSUME work \in [Notifs -> Requests], NEW n \in Notifs, NEW x,
           work' = [work EXCEPT ![n] = x], x.at \in Busy <=> work[n].at \in Busy,
           x.at \in Busy => x.rule = work[n].rule
    PROVE  \A R \in SUBSET Rules : Held(R)' = Held(R)
  <1>1. \A m \in Notifs : work'[m] = IF m = n THEN x ELSE work[m]
    OBVIOUS
  <1> QED BY Zenon, <1>1 DEF Held

\* A request starts.
LEMMA HeldStarts ==
    ASSUME work \in [Notifs -> Requests], NEW n \in Notifs, NEW x,
           work' = [work EXCEPT ![n] = x], x.at \in Busy, work[n].at \notin Busy,
           IsFiniteSet(Held(Rules)), NEW R \in SUBSET Rules
    PROVE  /\ Held(R)' = IF x.rule \in R THEN Held(R) \cup {n} ELSE Held(R)
           /\ n \notin Held(R)
  <1>1. \A m \in Notifs : work'[m] = IF m = n THEN x ELSE work[m]
    OBVIOUS
  <1> QED BY Zenon, <1>1 DEF Held

\* A request is completed.
LEMMA HeldEnds ==
    ASSUME work \in [Notifs -> Requests], NEW n \in Notifs, NEW x,
           work' = [work EXCEPT ![n] = x], x.at \notin Busy, work[n].at \in Busy,
           NEW R \in SUBSET Rules
    PROVE  /\ Held(R)' = Held(R) \ {n}
           /\ n \in Held(R) <=> work[n].rule \in R
  <1>1. \A m \in Notifs : work'[m] = IF m = n THEN x ELSE work[m]
    OBVIOUS
  <1> QED BY Zenon, <1>1 DEF Held

\* Nothing enters or leaves.
LEMMA FlightStays ==
    ASSUME FlightInv, chan' = chan, UNCHANGED counts,
           \A R \in SUBSET Rules : Held(R)' = Held(R),
           daemon'.at = "found" => work'[daemon'.n].at \notin Busy
    PROVE  FlightInv'
  <1>1. \A R \in SUBSET Rules : InFlight(R)' = InFlight(R)
    BY Zenon DEF InFlight, Places
  <1>2. /\ \A o, id : RuleOf(o, id) \in SUBSET Rules
        /\ \A p : RulesTo(p) \in SUBSET Rules
        /\ Rules \in SUBSET Rules
    BY Zenon DEF RuleOf, RulesTo
  <1>3. UNCHANGED <<globalPending, byRule, byInstance>>
    BY Zenon DEF counts
  <1>4. CountsExact'
    BY Zenon, <1>1, <1>2, <1>3 DEF FlightInv, CountsExact
  <1>5. IsFiniteSet(Held(Rules))'
    BY Zenon, <1>2 DEF FlightInv, HeldInv
  <1> QED BY Zenon, <1>4, <1>5 DEF FlightInv, HeldInv

\* A map of counters in which that of k goes up.
Up(f, k) == [f EXCEPT ![k] = @ + 1]

\* The others stay.
LEMMA CounterUp ==
    ASSUME NEW D, NEW f \in [D -> Int], NEW k
    PROVE  /\ Up(f, k) \in [D -> Int]
           /\ \A e \in D : f[e] \in Int /\ Up(f, k)[e] = f[e] + IF e = k THEN 1 ELSE 0
  <1>0. \A e \in D : f[e] \in Int /\ f[e] = f[e] + 0
    <2> SUFFICES ASSUME NEW e \in D PROVE f[e] \in Int /\ f[e] = f[e] + 0
      BY Zenon
    <2>1. f[e] \in Int
      BY Zenon
    <2> QED BY <2>1
  <1>1. CASE k \in D
    BY <1>1 DEF Up
  <1>2. CASE k \notin D
    <2>1. Up(f, k) = f /\ \A e \in D : e # k
      BY Zenon, <1>2 DEF Up
    <2>2. \A e \in D : (IF e = k THEN 1 ELSE 0) = 0
      BY <2>1, Zenon
    <2> QED BY <1>0, <2>1, <2>2, Zenon
  <1> QED BY Zenon, <1>1, <1>2

\* A map of counters in which that of k goes down.
Down(f, k) == [f EXCEPT ![k] = @ - 1]

\* The others stay.
LEMMA CounterDown ==
    ASSUME NEW D, NEW f \in [D -> Int], NEW k
    PROVE  /\ Down(f, k) \in [D -> Int]
           /\ \A e \in D : f[e] \in Int /\ Down(f, k)[e] = f[e] - IF e = k THEN 1 ELSE 0
  <1>0. \A e \in D : f[e] \in Int /\ f[e] = f[e] - 0
    <2> SUFFICES ASSUME NEW e \in D PROVE f[e] \in Int /\ f[e] = f[e] - 0
      OBVIOUS
    <2>1. f[e] \in Int
      BY Zenon
    <2> QED BY <2>1
  <1>1. CASE k \in D
    BY <1>1 DEF Down
  <1>2. CASE k \notin D
    <2>1. Down(f, k) = f /\ \A e \in D : e # k
      BY Zenon, <1>2 DEF Down
    <2>2. \A e \in D : (IF e = k THEN 1 ELSE 0) = 0
      BY <2>1, Zenon
    <2> QED BY <1>0, <2>1, <2>2, Zenon
  <1> QED BY Zenon, <1>1, <1>2

\* reserve counts the request that is made.
LEMMA ReserveExact ==
    ASSUME CountsExact, NEW r \in Rules, Reserve(r),
           \A R \in SUBSET Rules :
             InFlight(R) \in Nat /\ InFlight(R)' = InFlight(R) + IF r \in R THEN 1 ELSE 0
    PROVE  CountsExact'
  <1>1. globalPending' = InFlight(Rules)'
    BY Zenon DEF CountsExact, Reserve
  <1>2. /\ byRule' \in [Owners \X RuleIds -> Int]
        /\ \A o \in Owners, id \in RuleIds : byRule'[<<o, id>>] = InFlight(RuleOf(o, id))'
    <2>1. /\ byRule \in [Owners \X RuleIds -> Int]
          /\ byRule' = Up(byRule, <<r.owner, r.id>>)
      BY Zenon DEF CountsExact, Up, Reserve
    <2>2. /\ byRule' \in [Owners \X RuleIds -> Int]
          /\ \A e \in Owners \X RuleIds :
               byRule[e] \in Int /\ byRule'[e] = byRule[e] + IF e = <<r.owner, r.id>> THEN 1 ELSE 0
      BY <2>1, CounterUp
    <2>3. ASSUME NEW o \in Owners, NEW id \in RuleIds
          PROVE  byRule'[<<o, id>>] = InFlight(RuleOf(o, id))'
      <3>1. /\ byRule[<<o, id>>] = InFlight(RuleOf(o, id)) /\ InFlight(RuleOf(o, id)) \in Nat
            /\ InFlight(RuleOf(o, id))'
                 = InFlight(RuleOf(o, id)) + IF r \in RuleOf(o, id) THEN 1 ELSE 0
        <4>1. RuleOf(o, id) \in SUBSET Rules
          BY Zenon DEF RuleOf
        <4> QED BY Zenon, <4>1 DEF CountsExact
      <3>2. r \in RuleOf(o, id) <=> <<o, id>> = <<r.owner, r.id>>
        BY Zenon DEF RuleOf
      <3>3. byRule'[<<o, id>>]
              = byRule[<<o, id>>] + IF <<o, id>> = <<r.owner, r.id>> THEN 1 ELSE 0
        <4>1. <<o, id>> \in Owners \X RuleIds
          OBVIOUS
        <4> QED BY Zenon, <2>2, <4>1
      <3> QED BY Zenon, <3>1, <3>2, <3>3
    <2> QED BY Zenon, <2>2, <2>3
  <1>3. /\ byInstance' \in [Instances -> Int]
        /\ \A p \in Instances : byInstance'[p] = InFlight(RulesTo(p))'
    <2>1. /\ byInstance \in [Instances -> Int]
          /\ byInstance' = Up(byInstance, r.target)
      BY Zenon DEF CountsExact, Up, Reserve
    <2>2. /\ byInstance' \in [Instances -> Int]
          /\ \A e \in Instances :
               /\ byInstance[e] \in Int
               /\ byInstance'[e] = byInstance[e] + IF e = r.target THEN 1 ELSE 0
      BY <2>1, CounterUp
    <2>3. ASSUME NEW p \in Instances
          PROVE  byInstance'[p] = InFlight(RulesTo(p))'
      <3>1. /\ byInstance[p] = InFlight(RulesTo(p)) /\ InFlight(RulesTo(p)) \in Nat
            /\ InFlight(RulesTo(p))' = InFlight(RulesTo(p)) + IF r \in RulesTo(p) THEN 1 ELSE 0
        <4>1. RulesTo(p) \in SUBSET Rules
          BY Zenon DEF RulesTo
        <4> QED BY Zenon, <4>1 DEF CountsExact
      <3>2. r \in RulesTo(p) <=> p = r.target
        BY Zenon DEF RulesTo
      <3>3. byInstance'[p] = byInstance[p] + IF p = r.target THEN 1 ELSE 0
        BY Zenon, <2>2
      <3> QED BY Zenon, <3>1, <3>2, <3>3
    <2> QED BY Zenon, <2>2, <2>3
  <1> QED BY Zenon, <1>1, <1>2, <1>3 DEF CountsExact

\* release counts out the completion that is taken, be its process dead or alive.
LEMMA ReleaseExact ==
    ASSUME CountsExact, NEW r \in Rules, Release(r),
           \A R \in SUBSET Rules :
             InFlight(R)' \in Nat /\ InFlight(R) = InFlight(R)' + IF r \in R THEN 1 ELSE 0
    PROVE  CountsExact'
  <1>1. globalPending' = InFlight(Rules)'
    BY DEF CountsExact, Release
  <1>2. /\ byRule' \in [Owners \X RuleIds -> Int]
        /\ \A o \in Owners, id \in RuleIds : byRule'[<<o, id>>] = InFlight(RuleOf(o, id))'
    <2>1. /\ byRule \in [Owners \X RuleIds -> Int]
          /\ byRule' = Down(byRule, <<r.owner, r.id>>)
      BY Zenon DEF CountsExact, Down, Release
    <2>2. /\ byRule' \in [Owners \X RuleIds -> Int]
          /\ \A e \in Owners \X RuleIds :
               byRule[e] \in Int /\ byRule'[e] = byRule[e] - IF e = <<r.owner, r.id>> THEN 1 ELSE 0
      BY <2>1, CounterDown
    <2>3. ASSUME NEW o \in Owners, NEW id \in RuleIds
          PROVE  byRule'[<<o, id>>] = InFlight(RuleOf(o, id))'
      <3>1. /\ byRule[<<o, id>>] = InFlight(RuleOf(o, id)) /\ InFlight(RuleOf(o, id))' \in Nat
            /\ InFlight(RuleOf(o, id))
                 = InFlight(RuleOf(o, id))' + IF r \in RuleOf(o, id) THEN 1 ELSE 0
        <4>1. RuleOf(o, id) \in SUBSET Rules
          BY Zenon DEF RuleOf
        <4> QED BY Zenon, <4>1 DEF CountsExact
      <3>2. r \in RuleOf(o, id) <=> <<o, id>> = <<r.owner, r.id>>
        BY Zenon DEF RuleOf
      <3>3. byRule'[<<o, id>>]
              = byRule[<<o, id>>] - IF <<o, id>> = <<r.owner, r.id>> THEN 1 ELSE 0
        <4>1. <<o, id>> \in Owners \X RuleIds
          OBVIOUS
        <4> QED BY Zenon, <2>2, <4>1
      <3> QED BY <3>1, <3>2, <3>3
    <2> QED BY Zenon, <2>2, <2>3
  <1>3. /\ byInstance' \in [Instances -> Int]
        /\ \A p \in Instances : byInstance'[p] = InFlight(RulesTo(p))'
    <2>1. /\ byInstance \in [Instances -> Int]
          /\ byInstance' = Down(byInstance, r.target)
      BY Zenon DEF CountsExact, Down, Release
    <2>2. /\ byInstance' \in [Instances -> Int]
          /\ \A e \in Instances :
               /\ byInstance[e] \in Int
               /\ byInstance'[e] = byInstance[e] - IF e = r.target THEN 1 ELSE 0
      BY <2>1, CounterDown
    <2>3. ASSUME NEW p \in Instances
          PROVE  byInstance'[p] = InFlight(RulesTo(p))'
      <3>1. /\ byInstance[p] = InFlight(RulesTo(p)) /\ InFlight(RulesTo(p))' \in Nat
            /\ InFlight(RulesTo(p)) = InFlight(RulesTo(p))' + IF r \in RulesTo(p) THEN 1 ELSE 0
        <4>1. RulesTo(p) \in SUBSET Rules
          BY Zenon DEF RulesTo
        <4> QED BY Zenon, <4>1 DEF CountsExact
      <3>2. r \in RulesTo(p) <=> p = r.target
        BY Zenon DEF RulesTo
      <3>3. byInstance'[p] = byInstance[p] - IF p = r.target THEN 1 ELSE 0
        BY Zenon, <2>2
      <3> QED BY <3>1, <3>2, <3>3
    <2> QED BY Zenon, <2>2, <2>3
  <1> QED BY Zenon, <1>1, <1>2, <1>3 DEF CountsExact

\* A completion leaves the worker and is in the channel: it stays in flight.
LEMMA CompleteStays ==
    ASSUME FlightInv, RequestInv, NEW n \in Notifs, work[n].at \in Busy,
           NEW outcome \in Outcomes, Complete(n, outcome), UNCHANGED <<daemon, counts>>
    PROVE  FlightInv'
  <1> DEFINE w == work[n]
             c == [n |-> n, rule |-> w.rule, index |-> w.index, outcome |-> outcome]
             x == [Idle EXCEPT !.at = "notify"]
  <1>1. /\ work \in [Notifs -> Requests] /\ chan \in Seq(Completions) /\ w \in Requests
        /\ IsFiniteSet(Held(Rules)) /\ Rules \in SUBSET Rules
    BY Zenon DEF RequestInv, GrayTypes, FlightInv, HeldInv
  <1>2. chan' = Append(chan, c) /\ work' = [work EXCEPT ![n] = x]
    BY Zenon DEF Complete
  <1>3. c \in Completions /\ c.rule = w.rule /\ w.rule \in Rules
    BY Zenon, <1>1 DEF Completions, Requests
  <1>4. x.at \notin Busy
    BY Zenon DEF Idle, Busy
  <1> HIDE DEF c, x
  <1>5. \A R \in SUBSET Rules : Held(R)' = Held(R) \ {n} /\ (n \in Held(R) <=> w.rule \in R)
    BY Zenon, <1>1, <1>2, <1>4, HeldEnds
  <1>6. IsFiniteSet(Held(Rules))'
    BY <1>1, <1>5, FS_RemoveElement
  <1>7. ASSUME NEW R \in SUBSET Rules
        PROVE  InFlight(R)' = InFlight(R)
    <2>1. /\ IsFiniteSet(Held(R)) /\ Cardinality(Held(R)) \in Nat
          /\ Cardinality(Places(chan, R)) \in Nat
      BY Zenon, <1>1, FlightType
    <2>2. Cardinality(Places(chan', R))
            = Cardinality(Places(chan, R)) + IF w.rule \in R THEN 1 ELSE 0
      BY Zenon, <1>1, <1>2, <1>3, PlacesAppend
    <2>3. Cardinality(Held(R)') = Cardinality(Held(R)) - IF w.rule \in R THEN 1 ELSE 0
      <3>1. CASE w.rule \in R
        <4>1. Cardinality(Held(R) \ {n}) = Cardinality(Held(R)) - 1
          BY Zenon, <1>5, <2>1, <3>1, FS_RemoveElement
        <4> QED BY Zenon, <1>5, <3>1, <4>1
      <3>2. CASE w.rule \notin R
        <4>1. Held(R)' = Held(R)
          BY <1>5, <3>2
        <4> QED BY <2>1, <3>2, <4>1
      <3> QED BY Zenon, <3>1, <3>2
    <2>4. InFlight(R)' = Cardinality(Held(R)') + Cardinality(Places(chan', R))
      BY Zenon DEF InFlight, Places
    <2> QED BY <2>1, <2>2, <2>3, <2>4 DEF InFlight
  <1>8. CountsExact'
    <2>1. /\ \A o, id : RuleOf(o, id) \in SUBSET Rules
          /\ \A p : RulesTo(p) \in SUBSET Rules
      BY Zenon DEF RuleOf, RulesTo
    <2>2. UNCHANGED <<globalPending, byRule, byInstance>>
      BY Zenon DEF counts
    <2> QED BY Zenon, <1>1, <1>7, <2>1, <2>2 DEF FlightInv, CountsExact
  <1>9. daemon'.at = "found" => work'[daemon'.n].at \notin Busy
    <2>1. daemon.at = "found" => daemon.n \in Notifs /\ work[daemon.n].at \notin Busy
      BY Zenon DEF FlightInv, HeldInv, RequestInv, FoundAgrees
    <2> QED BY Zenon, <1>1, <1>2, <1>4, <2>1
  <1> QED BY Zenon, <1>6, <1>8, <1>9 DEF FlightInv, HeldInv

\* A worker keeps the counts exact: what it completes stays in flight.
LEMMA WorkerFlight ==
    ASSUME FlightInv, RequestInv, NEW n \in Notifs, Worker(n)
    PROVE  FlightInv'
  <1> DEFINE w == work[n]
  <1>1. /\ work \in [Notifs -> Requests] /\ w \in Requests
        /\ UNCHANGED <<daemon, counts>>
    BY Zenon DEF RequestInv, GrayTypes, Worker, WorkerCheck, WorkerCall, WorkerAnswer, WorkerNotify
  <1>2. daemon.at = "found" => daemon.n \in Notifs /\ work[daemon.n].at \notin Busy
    BY Zenon DEF FlightInv, HeldInv, RequestInv, FoundAgrees
  <1>3. ASSUME NEW x, work' = [work EXCEPT ![n] = x], chan' = chan,
               x.at \in Busy <=> w.at \in Busy, x.at \in Busy => x.rule = w.rule
        PROVE  FlightInv'
    <2>1. \A R \in SUBSET Rules : Held(R)' = Held(R)
      BY Zenon, <1>1, <1>3, HeldStays
    <2>2. daemon'.at = "found" => work'[daemon'.n].at \notin Busy
      BY Zenon, <1>1, <1>2, <1>3
    <2> QED BY Zenon, <1>1, <1>3, <2>1, <2>2, FlightStays
  <1>4. CASE WorkerCheck(n)
    <2>1. w.at = "check" /\ w.at \in Busy
      BY Zenon, <1>4 DEF WorkerCheck, Busy
    <2>2. CASE work' = [work EXCEPT ![n].at = "call"] /\ chan' = chan
      <3> DEFINE x == [w EXCEPT !.at = "call"]
      <3>1. work' = [work EXCEPT ![n] = x]
        BY Zenon, <1>1, <2>2
      <3>2. x.at \in Busy /\ x.rule = w.rule
        BY Zenon, <1>1 DEF Requests, Busy
      <3> HIDE DEF x
      <3> QED BY Zenon, <1>3, <2>1, <2>2, <3>1, <3>2
    <2>3. CASE Complete(n, Fallback("deny"))
      <3>1. Fallback("deny") \in Outcomes
        BY Zenon DEF Fallback, Outcomes
      <3> QED BY Zenon, <1>1, <2>1, <2>3, <3>1, CompleteStays
    <2> QED BY Zenon, <1>4, <2>2, <2>3 DEF WorkerCheck
  <1>5. CASE WorkerCall(n)
    <2> DEFINE i == (work'[n]).slot
               x == [w EXCEPT !.at = "asked", !.slot = i]
    <2>1. w.at \in Busy /\ chan' = chan
      BY Zenon, <1>5 DEF WorkerCall, Busy
    <2>2. work' = [work EXCEPT ![n] = x]
      <3>1. PICK j : work' = [work EXCEPT ![n].at = "asked", ![n].slot = j]
        BY Zenon, <1>5 DEF WorkerCall
      <3>2. work' = [work EXCEPT ![n] = [w EXCEPT !.at = "asked", !.slot = j]]
        BY Zenon, <1>1, <3>1
      <3>3. i = j
        BY Zenon, <1>1, <3>2 DEF Requests
      <3> QED BY Zenon, <3>2, <3>3
    <2> HIDE DEF i
    <2>3. x.at \in Busy /\ x.rule = w.rule
      BY Zenon, <1>1 DEF Requests, Busy
    <2> HIDE DEF x
    <2> QED BY Zenon, <1>3, <2>1, <2>2, <2>3
  <1>6. CASE WorkerAnswer(n)
    <2>1. w.at \in Busy
      BY Zenon, <1>6 DEF WorkerAnswer, Busy
    <2>2. PICK outcome \in WorkerOutcomes(n) : Complete(n, outcome)
      BY Zenon, <1>6 DEF WorkerAnswer
    <2>3. outcome \in Outcomes
      BY Zenon, <1>1, <2>2, OutcomeShape DEF Requests
    <2> QED BY Zenon, <1>1, <2>1, <2>2, <2>3, CompleteStays
  <1>7. CASE WorkerNotify(n)
    <2>1. /\ w.at \notin Busy /\ chan' = chan /\ work' = [work EXCEPT ![n] = Idle]
          /\ Idle.at \notin Busy
      BY Zenon, <1>7 DEF WorkerNotify, Busy, Idle
    <2> QED BY Zenon, <1>3, <2>1
  <1> QED BY Zenon, <1>4, <1>5, <1>6, <1>7 DEF Worker

\* A completion that is taken leaves its place in the channel and in the counts,
\* whether its notification is still valid or not and whether an error ends the
\* drain.
LEMMA TakeFlight ==
    ASSUME FlightInv, RequestInv, TakeCompletion \/ TakeFails
    PROVE  FlightInv'
  <1> DEFINE r == Head(chan).rule
  <1>1. /\ chan \in Seq(Completions) /\ chan # <<>> /\ chan' = Tail(chan) /\ work' = work
        /\ Release(r) /\ daemon'.at # "found" /\ IsFiniteSet(Held(Rules))
    <2>1. chan \in Seq(Completions) /\ IsFiniteSet(Held(Rules))
      BY Zenon DEF RequestInv, GrayTypes, FlightInv, HeldInv
    <2>2. CASE TakeCompletion
      <3>1. daemon' = daemon /\ daemon.at = "drain" /\ work' = work
        BY Zenon, <2>2 DEF TakeCompletion
      <3> QED BY Zenon, <2>1, <2>2, <3>1 DEF TakeCompletion
    <2>3. CASE TakeFails
      <3>1. At("loop").at # "found"
        BY DEF At
      <3> QED BY Zenon, <2>1, <2>3, <3>1 DEF TakeFails
    <2> QED BY Zenon, <2>2, <2>3
  <1>2. Head(chan) \in Completions /\ r \in Rules /\ Tail(chan) \in Seq(Completions)
    <2>1. Head(chan) \in Completions /\ Tail(chan) \in Seq(Completions)
      BY Zenon, <1>1, TailShape
    <2> QED BY Zenon, <2>1 DEF Completions
  <1>3. \A R \in SUBSET Rules : Held(R)' = Held(R)
    BY Zenon, <1>1 DEF Held
  <1>4. IsFiniteSet(Held(Rules))'
    BY Zenon, <1>1, <1>3
  <1> HIDE DEF r
  <1>5. ASSUME NEW R \in SUBSET Rules
        PROVE  InFlight(R)' \in Nat /\ InFlight(R) = InFlight(R)' + IF r \in R THEN 1 ELSE 0
    <2>1. Cardinality(Held(R)) \in Nat /\ Cardinality(Places(Tail(chan), R)) \in Nat
      BY Zenon, <1>1, <1>2, FlightType, PlacesType
    <2>2. Cardinality(Places(chan, R))
            = Cardinality(Places(Tail(chan), R)) + IF r \in R THEN 1 ELSE 0
      BY Zenon, <1>1, PlacesTail DEF r
    <2>3. InFlight(R)' = Cardinality(Held(R)) + Cardinality(Places(Tail(chan), R))
      <3>1. InFlight(R)' = Cardinality(Held(R)') + Cardinality(Places(chan', R))
        BY Zenon DEF InFlight, Places
      <3> QED BY Zenon, <1>1, <1>3, <3>1
    <2> QED BY <2>1, <2>2, <2>3 DEF InFlight
  <1>6. CountsExact'
    BY Zenon, <1>1, <1>2, <1>5, ReleaseExact DEF FlightInv
  <1> QED BY Zenon, <1>1, <1>4, <1>6 DEF FlightInv, HeldInv

\* A request that is deferred is counted, even when its process has died since
\* the rule was copied.
LEMMA DeferFlight ==
    ASSUME FlightInv, RequestInv, DeferGray
    PROVE  FlightInv'
  <1>1. /\ work \in [Notifs -> Requests] /\ chan \in Seq(Completions) /\ chan' = chan
        /\ IsFiniteSet(Held(Rules)) /\ daemon'.at # "found" /\ Reserve(daemon.rule)
    BY Zenon DEF RequestInv, GrayTypes, FlightInv, HeldInv, DeferGray, At
  <1>2. PICK n \in Notifs, r \in Rules :
          /\ n = daemon.n /\ r = daemon.rule /\ work[n].at \notin Busy
    <2>1. daemon.at = "found" /\ daemon \in Positions
      BY Zenon DEF DeferGray, RequestInv, GrayTypes
    <2>2. daemon.n \in Notifs /\ work[daemon.n].at \notin Busy
      BY Zenon, <2>1 DEF RequestInv, FoundAgrees, FlightInv, HeldInv
    <2>3. daemon.rule \in Rules
      BY Zenon, <2>1 DEF Positions
    <2> QED BY Zenon, <2>2, <2>3
  <1>3. PICK s \in deciders :
          work' = [work EXCEPT ![n] = [Idle EXCEPT !.at = "check", !.rule = r,
                                                   !.index = s.index]]
    BY Zenon, <1>2 DEF DeferGray
  <1> DEFINE x == [Idle EXCEPT !.at = "check", !.rule = r, !.index = s.index]
  <1>4. x.at \in Busy /\ x.rule = r
    BY Zenon DEF Idle, Busy
  <1>5. work' = [work EXCEPT ![n] = x]
    BY Zenon, <1>3
  <1> HIDE DEF x
  <1>6. \A R \in SUBSET Rules :
          /\ Held(R)' = IF r \in R THEN Held(R) \cup {n} ELSE Held(R)
          /\ n \notin Held(R)
    <2> SUFFICES ASSUME NEW R \in SUBSET Rules
                 PROVE  /\ Held(R)' = IF r \in R THEN Held(R) \cup {n} ELSE Held(R)
                        /\ n \notin Held(R)
      OBVIOUS
    <2>1. /\ Held(R)' = IF x.rule \in R THEN Held(R) \cup {n} ELSE Held(R)
          /\ n \notin Held(R)
      BY Zenon, <1>1, <1>2, <1>4, <1>5, HeldStarts
    <2> QED BY Zenon, <1>4, <2>1
  <1>7. IsFiniteSet(Held(Rules))'
    <2>1. Held(Rules)' = Held(Rules) \cup {n}
      BY Zenon, <1>6
    <2> QED BY Zenon, <1>1, <2>1, FS_AddElement
  <1>8. ASSUME NEW R \in SUBSET Rules
        PROVE  InFlight(R) \in Nat /\ InFlight(R)' = InFlight(R) + IF r \in R THEN 1 ELSE 0
    <2>1. /\ IsFiniteSet(Held(R)) /\ Cardinality(Held(R)) \in Nat
          /\ Cardinality(Places(chan, R)) \in Nat
      BY Zenon, <1>1, FlightType
    <2>2. Cardinality(Held(R)') = Cardinality(Held(R)) + IF r \in R THEN 1 ELSE 0
      <3>1. CASE r \in R
        <4>1. Cardinality(Held(R) \cup {n}) = Cardinality(Held(R)) + 1
          BY Zenon, <1>6, <2>1, FS_AddElement
        <4> QED BY Zenon, <1>6, <3>1, <4>1
      <3>2. CASE r \notin R
        <4>1. Held(R)' = Held(R)
          BY Zenon, <1>6, <3>2
        <4> QED BY <2>1, <3>2, <4>1
      <3> QED BY Zenon, <3>1, <3>2
    <2>3. InFlight(R)' = Cardinality(Held(R)') + Cardinality(Places(chan, R))
      BY Zenon, <1>1 DEF InFlight, Places
    <2> QED BY <2>1, <2>2, <2>3 DEF InFlight
  <1>9. CountsExact'
    BY Zenon, <1>1, <1>2, <1>8, ReserveExact DEF FlightInv
  <1> QED BY Zenon, <1>1, <1>7, <1>9 DEF FlightInv, HeldInv

\* The other steps leave requests and counts alone; a rule is copied for a
\* notification that waits, and none that waits has a request.
LEMMA RestFlight ==
    ASSUME FlightInv, RequestInv,
           \/ Machine \/ PluginHost \/ BeginCycle \/ EndDrain \/ AnswerGray \/ EndHandle
           \/ (\E n \in Notifs : Handle(n)) \/ UNCHANGED vars
    PROVE  FlightInv'
  <1>1. /\ work' = work /\ chan' = chan /\ UNCHANGED counts
        /\ \/ daemon' = daemon
           \/ daemon'.at # "found"
           \/ \E n \in Notifs : /\ notif[n].st = "pending"
                                 /\ daemon'.n = n
    <2> DEFINE kept == work' = work /\ chan' = chan /\ UNCHANGED counts
    <2>1. CASE Machine
      <3>1. UNCHANGED counts
        BY Zenon, <2>1 DEF Machine, Raise, Die, EndTrace, ForgetTrace
      <3> QED BY Zenon, <2>1, <3>1, MachineFrame
    <2>2. CASE PluginHost
      <3>1. UNCHANGED counts
        BY <2>2, Zenon DEF PluginHost, LoadPlugin, UnloadPlugin, RulesUpsert, RulesDelete
      <3> QED BY Zenon, <2>2, <3>1, HostFrame
    <2>3. CASE BeginCycle \/ EndDrain \/ AnswerGray \/ EndHandle
      BY <2>3 DEF BeginCycle, EndDrain, AnswerGray, EndHandle, At, threads
    <2>4. ASSUME NEW n \in Notifs, Handle(n)
          PROVE  /\ kept
                 /\ daemon' = daemon \/ (notif[n].st = "pending" /\ daemon'.n = n)
      <3>1. kept /\ notif[n].st = "pending"
        BY Zenon, <2>4 DEF Handle, Pending, threads
      <3>2. daemon' = daemon \/ daemon'.n = n
        BY <2>4, HandleShape
      <3> QED BY Zenon, <3>1, <3>2
    <2>5. CASE UNCHANGED vars
      BY Zenon, <2>5 DEF vars, threads
    <2> HIDE DEF kept
    <2>6. kept => work' = work /\ chan' = chan /\ UNCHANGED counts
      BY Zenon DEF kept
    <2> QED BY Zenon, <2>1, <2>2, <2>3, <2>4, <2>5, <2>6
  <1>2. \A R \in SUBSET Rules : Held(R)' = Held(R)
    BY Zenon, <1>1 DEF Held
  <1>3. ASSUME NEW n \in Notifs, notif[n].st = "pending"
        PROVE  work[n].at \notin Busy
    <2>1. work[n] \in Requests /\ WorkOf(n, work[n])
      BY Zenon DEF RequestInv, GrayTypes, WorkAgrees
    <2> QED BY Zenon, <1>3, <2>1 DEF WorkOf, Request, Busy
  <1>4. daemon'.at = "found" => work'[daemon'.n].at \notin Busy
    BY Zenon, <1>1, <1>3 DEF FlightInv, HeldInv
  <1> QED BY Zenon, <1>1, <1>2, <1>4, FlightStays

\* At the start nothing is in flight.
LEMMA InitFlight == Init => FlightInv
  <1> SUFFICES ASSUME Init PROVE FlightInv
    OBVIOUS
  <1>1. chan = <<>> /\ daemon.at = "loop" /\ \A n \in Notifs : work[n].at = "none"
    BY Zenon, InitQuiet
  <1>2. \A R : Held(R) = {} /\ Places(chan, R) = {}
    BY <1>1 DEF Held, Places, Busy
  <1>3. IsFiniteSet(Held(Rules)) /\ \A R : InFlight(R) = 0
    BY <1>2, FS_EmptySet DEF InFlight
  <1>4. CountsExact
    <2>1. /\ globalPending = 0 /\ byRule = [k \in Owners \X RuleIds |-> 0]
          /\ byInstance = [p \in Instances |-> 0]
      BY Zenon DEF Init
    <2> QED BY <1>3, <2>1 DEF CountsExact
  <1> QED BY Zenon, <1>1, <1>3, <1>4 DEF FlightInv, HeldInv

\* What the three counts count, in the words of the property.
LEMMA FlightCounted ==
    ASSUME RequestInv, CountsExact
    PROVE  InFlightExact
  <1>1. /\ \A n \in Notifs : /\ work[n].rule \in Rules
                             /\ work[n].at \notin {"none", "notify"} <=> work[n].at \in Busy
        /\ \A i \in DOMAIN chan : chan[i].rule \in Rules
    <2>1. \A n \in Notifs : work[n] \in Requests
      BY Zenon DEF RequestInv, GrayTypes
    <2>2. \A i \in DOMAIN chan : chan[i] \in Completions
      BY DEF RequestInv, GrayTypes
    <2> QED BY Zenon, <2>1, <2>2 DEF Requests, Completions, Busy
  <1>2. globalPending
          = Cardinality({n \in Notifs : work[n].at \notin {"none", "notify"} /\ TRUE})
              + Cardinality({i \in DOMAIN chan : TRUE})
    <2>1. /\ {n \in Notifs : work[n].at \notin {"none", "notify"} /\ TRUE} = Held(Rules)
          /\ {i \in DOMAIN chan : TRUE} = Places(chan, Rules)
      BY Zenon, <1>1 DEF Held, Places
    <2> QED BY Zenon, <2>1 DEF CountsExact, InFlight
  <1>3. ASSUME NEW o \in Owners, NEW id \in RuleIds
        PROVE  byRule[o, id]
                 = Cardinality({n \in Notifs : /\ work[n].at \notin {"none", "notify"}
                                               /\ work[n].rule.owner = o
                                               /\ work[n].rule.id = id})
                     + Cardinality({i \in DOMAIN chan : /\ chan[i].rule.owner = o
                                                        /\ chan[i].rule.id = id})
    <2>1. /\ {n \in Notifs : /\ work[n].at \notin {"none", "notify"}
                             /\ work[n].rule.owner = o
                             /\ work[n].rule.id = id} = Held(RuleOf(o, id))
          /\ {i \in DOMAIN chan : chan[i].rule.owner = o /\ chan[i].rule.id = id}
                = Places(chan, RuleOf(o, id))
      BY Zenon, <1>1 DEF Held, Places, RuleOf
    <2> QED BY Zenon, <2>1 DEF CountsExact, InFlight
  <1>4. ASSUME NEW p \in Instances
        PROVE  byInstance[p]
                 = Cardinality({n \in Notifs : /\ work[n].at \notin {"none", "notify"}
                                               /\ work[n].rule.target = p})
                     + Cardinality({i \in DOMAIN chan : chan[i].rule.target = p})
    <2>1. /\ {n \in Notifs : /\ work[n].at \notin {"none", "notify"}
                             /\ work[n].rule.target = p} = Held(RulesTo(p))
          /\ {i \in DOMAIN chan : chan[i].rule.target = p} = Places(chan, RulesTo(p))
      BY Zenon, <1>1 DEF Held, Places, RulesTo
    <2> QED BY Zenon, <2>1 DEF CountsExact, InFlight
  <1> QED BY Zenon, <1>2, <1>3, <1>4 DEF InFlightExact, CountInFlight

\* The three in-flight counts are exact (reserve, release): no order of deaths,
\* unloads, rule changes, late completions and failed drains leaks a slot or
\* lets one too many in, for any number of notifications, rules and plugins.
THEOREM CountsAreExact == Spec => []InFlightExact
  <1>1. RequestInv /\ FlightInv /\ [Next]_vars => FlightInv'
    <2> SUFFICES ASSUME RequestInv, FlightInv, [Next]_vars PROVE FlightInv'
      OBVIOUS
    <2>1. CASE DaemonStep
      BY Zenon, <2>1, TakeFlight, RestFlight, DeferFlight DEF DaemonStep
    <2>2. CASE Machine \/ PluginHost \/ BeginCycle \/ UNCHANGED vars
      BY Zenon, <2>2, RestFlight
    <2>3. CASE TakeFails
      BY Zenon, <2>3, TakeFlight
    <2> QED BY Zenon, <2>1, <2>2, <2>3, WorkerFlight DEF Next
  <1>2. RequestInv /\ FlightInv => InFlightExact
    BY Zenon, FlightCounted DEF FlightInv
  <1> QED BY <1>1, <1>2, InitFlight, RequestInvariance, PTL DEF Spec

=============================================================================
