---------------------------- MODULE GrayControl ----------------------------
(***************************************************************************)
(* Gray decisions: how actraild answers the exec and connect system calls  *)
(* that a policy rule leaves to a plugin                                   *)
(* (crates/apps/daemon/src/services: command_control/, network_control/,   *)
(* control_runtime.rs, seccomp_notify/, live/seccomp.rs; the rule stores   *)
(* of crates/access_control/src/policy).                                   *)
(*                                                                         *)
(* A process stopped in a notified system call waits for one answer.  The  *)
(* daemon thread answers it from a rule, from a reusable decision, or      *)
(* hands it to a worker thread that asks the plugin and sends a completion *)
(* back through a bounded channel and an eventfd.  Meanwhile plugins are   *)
(* loaded and unloaded, their rules change, traces end, processes die.     *)
(*                                                                         *)
(* The two services are twins that differ in their cache and in how a rule *)
(* is found; the variable service says which of them a behaviour is about. *)
(***************************************************************************)
EXTENDS Integers, Sequences, FiniteSets

CONSTANTS
    Services,        \* the services to explore: "command", "network"
    Notifs,          \* seccomp notification ids
    Traces,
    Subjects,        \* what is executed with which argv, or the endpoint
    Instances,       \* plugin instance ids
    Loaded,          \* the instances loaded at start-up, in order
    PolicyOwners,    \* the instances granted rules.apply
    Static,          \* STATIC_POLICY_OWNER
    RuleIds,
    StaticRules,     \* the rules file of each service, at most one a subject
    Verdicts,        \* the decision and scope of the answers a plugin gives
    PendingMax,      \* pending_decision_max, the channel's capacity too
    RuleLimit,       \* gray.concurrency_limit, or the rule's own
    InstanceLimit,   \* instance_concurrency_limit of the plugins, by service
    Running,         \* how many traces run, by service
    CacheMax,        \* reusable_cache_max_entries
    GrayFallback,    \* gray.fallback, or the rule's own
    DefaultDecision, FailureDecision,
    MaxRevision,     \* bound on the rule changes
    MaxIndex         \* bound on the plugin loads

ASSUME GrayBoundsValid ==
    /\ Verdicts \subseteq {"allow", "deny"} \X {"once", "reusable"}
    /\ {PendingMax, RuleLimit, CacheMax} \subseteq Nat \ {0}
    /\ \A s \in Services : {InstanceLimit[s], Running[s]} \subseteq Nat \ {0}
    /\ {MaxRevision, MaxIndex} \subseteq Nat

NoName == ""

\* A rules file names no id twice and its rules get revision 1 (PolicyStore::load);
\* an instance is loaded once under its id (add_decider).
ASSUME GrayPolicyValid ==
    /\ Services \subseteq {"command", "network"}
    /\ \A s \in Services :
         /\ StaticRules[s] \subseteq
              [owner : {Static}, id : RuleIds, subject : Subjects,
               decision : {"allow", "deny", "gray"},
               target : Instances \cup {NoName}, rev : {1}]
         /\ \A q, r \in StaticRules[s] : q.id = r.id => q = r
    /\ Loaded \in Seq(Instances)
    /\ \A i, j \in DOMAIN Loaded : Loaded[i] = Loaded[j] => i = j
    /\ PolicyOwners \subseteq Instances
    /\ {GrayFallback, DefaultDecision, FailureDecision} \subseteq {"allow", "deny"}

VARIABLES
    service,
    \* PolicyStore: by_owner as a set of rules, revision
    rules, revision,
    \* ControlPluginRuntime: the slots, and the next instance index
    deciders, nextIndex,
    \* the machine: what became of each notified system call; TraceRuntime
    notif, traces,
    \* the backend behind its mutex: the in-flight counts, and the reusable
    \* decisions with the two indexes that only the network service keeps
    globalPending, byRule, byInstance, cache, order, byTrace, nextSeq,
    \* the gray workers, the completion channel and the eventfd
    work, chan, wake,
    \* the daemon thread: where it is, with which notification and rule; an
    \* error ended its last drain (history)
    daemon, aborted

policy == <<rules, revision>>
plugins == <<deciders, nextIndex>>
counts == <<globalPending, byRule, byInstance>>
reusable == <<cache, order, byTrace, nextSeq>>
threads == <<work, chan, wake>>
vars == <<service, policy, plugins, notif, traces, counts, reusable,
          threads, daemon, aborted>>

Decisions == {"allow", "deny"}
NoTrace == "no trace"
NoSubject == "no subject"
Owners == {Static} \cup Instances
NoRule == [owner |-> Static, id |-> NoName, subject |-> NoSubject,
           decision |-> "default", target |-> NoName, rev |-> 0]
Idle == [at |-> "none", rule |-> NoRule, index |-> 0, slot |-> 0]
Fallback(d) == [kind |-> "fallback", decision |-> d, scope |-> "once", by |-> 0]
At(p) == [at |-> p, n |-> NoName, rule |-> NoRule]

\* What is left of a notification: its process was let through, or it is over
\* (denied, or stale because the process died).
Settled(st) == [st |-> st, trace |-> NoTrace, subject |-> NoSubject]
Pending == {n \in DOMAIN notif : notif[n].st = "pending"}
IsValid(n) == notif[n].st \in {"pending", "deferred"}
IsIndexActive(i) == \E s \in deciders : s.index = i
NonTerminal(t) == traces[t] = "live"

Init ==
    /\ service \in Services
    /\ rules = StaticRules[service]
    /\ revision = IF rules = {} THEN 0 ELSE 1
    /\ deciders = {[id |-> Loaded[i], index |-> i] : i \in DOMAIN Loaded}
    /\ nextIndex = Len(Loaded) + 1
    /\ notif = [n \in Notifs |-> Settled("none")]
    \* the runtime does not know a trace that does not run
    /\ traces \in [Traces -> {"live", "forgotten"}]
    /\ Cardinality({t \in Traces : NonTerminal(t)}) = Running[service]
    /\ globalPending = 0
    /\ byRule = [k \in Owners \X RuleIds |-> 0]
    /\ byInstance = [p \in Instances |-> 0]
    /\ cache = {}
    /\ order = {}
    /\ byTrace = [t \in Traces |-> {}]
    /\ nextSeq = 0
    /\ work = [n \in Notifs |-> Idle]
    /\ chan = <<>>
    /\ wake = FALSE
    /\ daemon = At("loop")
    /\ aborted = FALSE

-----------------------------------------------------------------------------
(* The reusable decisions.                                                 *)

Key(n, r) ==
    [trace |-> notif[n].trace, subject |-> notif[n].subject,
     owner |-> IF service = "network" THEN r.owner ELSE Static,
     id |-> r.id, rev |-> r.rev]

\* BTreeMap::clear, and the network service's clear_reusable_cache.
ClearReusableCache ==
    /\ cache' = {}
    /\ order' = {}
    /\ byTrace' = [t \in Traces |-> {}]

\* retain of the command service; remove_cached_key of the network service,
\* for each of the entries.
RemoveEntries(gone) ==
    /\ cache' = cache \ gone
    /\ order' = order \ {<<e.seq, e.key>> : e \in gone}
    /\ byTrace' = [t \in Traces |-> byTrace[t] \ {e.key : e \in gone}]

\* cache_decision: replace the entry of the key, then drop the entry with
\* the lowest sequence while there are too many.
CacheDecision(n, r, outcome) ==
    LET key == Key(n, r)
        seq == nextSeq + 1
        entry == [key |-> key, decision |-> outcome.decision,
                  instance |-> r.target, seq |-> seq, by |-> outcome.by]
        previous == {e \in cache : e.key = key}
        added == (cache \ previous) \cup {entry}
        network == service = "network"
        order1 == IF network
                    THEN (order \ {<<e.seq, key>> : e \in previous})
                           \cup {<<seq, key>>}
                    ELSE order
        oldestSeen == IF network THEN order1
                                 ELSE {<<e.seq, e.key>> : e \in added}
        oldest == CHOOSE o \in oldestSeen : \A q \in oldestSeen : o[1] <= q[1]
        evicted == IF Cardinality(added) > CacheMax
                     THEN {e \in added : e.key = oldest[2]}
                     ELSE {}
    IN  /\ nextSeq' = seq
        /\ cache' = added \ evicted
        /\ order' = order1 \ {<<e.seq, e.key>> : e \in evicted}
        /\ byTrace' = [t \in Traces |->
             (byTrace[t] \cup (IF network /\ t = key.trace THEN {key} ELSE {}))
                \ {e.key : e \in evicted}]

-----------------------------------------------------------------------------
(* The in-flight counts.                                                   *)

\* admission_rejection
AdmissionRejected(r) ==
    \/ globalPending >= PendingMax
    \/ byRule[r.owner, r.id] >= RuleLimit
    \/ byInstance[r.target] >= InstanceLimit[service]

Reserve(r) ==
    /\ globalPending' = globalPending + 1
    /\ byRule' = [byRule EXCEPT ![<<r.owner, r.id>>] = @ + 1]
    /\ byInstance' = [byInstance EXCEPT ![r.target] = @ + 1]

Release(r) ==
    /\ globalPending' = globalPending - 1
    /\ byRule' = [byRule EXCEPT ![<<r.owner, r.id>>] = @ - 1]
    /\ byInstance' = [byInstance EXCEPT ![r.target] = @ - 1]

-----------------------------------------------------------------------------
(* The machine, the plugins and the traces.                                *)

\* A traced process enters a system call its filter reports.
Raise(n, t, s) ==
    /\ notif[n].st = "none"
    /\ traces[t] = "live"
    /\ notif' = [notif EXCEPT ![n] = [st |-> "pending", trace |-> t,
                                      subject |-> s]]
    /\ UNCHANGED <<service, policy, plugins, traces, counts, reusable, threads,
                   daemon, aborted>>

\* The process dies while it waits: the notification id becomes stale.
Die(n) ==
    /\ IsValid(n)
    /\ notif' = [notif EXCEPT ![n] = Settled("over")]
    /\ UNCHANGED <<service, policy, plugins, traces, counts, reusable, threads,
                   daemon, aborted>>

\* add_decider
LoadPlugin(p) ==
    /\ daemon.at = "loop"
    /\ nextIndex <= MaxIndex
    /\ ~\E s \in deciders : s.id = p
    /\ deciders' = deciders \cup {[id |-> p, index |-> nextIndex]}
    /\ nextIndex' = nextIndex + 1
    /\ UNCHANGED <<service, policy, notif, traces, counts, reusable, threads,
                   daemon, aborted>>

\* remove_plugin_runtime_impl for a control plugin: the rules it owns and the
\* decisions it made go first, then its slot.
UnloadPlugin(p) ==
    /\ daemon.at = "loop"
    /\ \E s \in deciders : s.id = p
    /\ LET owned == {r \in rules : r.owner = p}
       IN  IF owned # {}
             THEN /\ rules' = rules \ owned
                  /\ revision' = revision + 1
                  /\ ClearReusableCache
             ELSE /\ RemoveEntries({e \in cache : e.instance = p})
                  /\ UNCHANGED policy
    /\ deciders' = {s \in deciders : s.id # p}
    /\ UNCHANGED <<service, nextIndex, nextSeq, notif, traces, counts, threads,
                   daemon, aborted>>

\* A plugin changes its rules through the policy host, from any thread that
\* runs it: it is loaded, or a worker is still inside its decide.  The base
\* revision is current, or the request is rejected and nothing changes.
MayApply(p) ==
    /\ \/ \E s \in deciders : s.id = p
       \/ \E n \in Notifs : work[n].at = "asked" /\ work[n].rule.target = p
    /\ daemon.at # "drain"

RulesUpsert(p, id, s, d, target) ==
    /\ MayApply(p)
    /\ revision < MaxRevision
    /\ ~\E r \in rules : r.subject = s /\ r.owner = p /\ r.id # id
    /\ service = "network" => ~\E r \in rules : r.subject = s /\ r.owner # p
    /\ rules' = {r \in rules : ~(r.owner = p /\ r.id = id)}
                  \cup {[owner |-> p, id |-> id, subject |-> s, decision |-> d,
                         target |-> target, rev |-> revision + 1]}
    /\ revision' = revision + 1
    /\ ClearReusableCache
    /\ UNCHANGED <<service, plugins, notif, traces, counts, nextSeq, threads,
                   daemon, aborted>>

RulesDelete(p, id) ==
    /\ MayApply(p)
    /\ \E r \in rules : r.owner = p /\ r.id = id
    /\ rules' = {r \in rules : ~(r.owner = p /\ r.id = id)}
    /\ revision' = revision + 1
    /\ ClearReusableCache
    /\ UNCHANGED <<service, plugins, notif, traces, counts, nextSeq, threads,
                   daemon, aborted>>

\* The trace becomes terminal; at the end of a cycle it is forgotten, which
\* empties the network service's cache of it.
EndTrace(t) ==
    /\ daemon.at = "loop"
    /\ traces[t] = "live"
    /\ traces' = [traces EXCEPT ![t] = "terminal"]
    /\ UNCHANGED <<service, policy, plugins, notif, counts, reusable, threads,
                   daemon, aborted>>

\* forget_trace_cache
ForgetTraceCache(t) ==
    LET gone == {e \in cache : e.key \in byTrace[t]}
    IN  /\ cache' = cache \ gone
        /\ order' = order \ {<<e.seq, e.key>> : e \in gone}
        /\ byTrace' = [byTrace EXCEPT ![t] = {}]

ForgetTrace(t) ==
    /\ daemon.at = "loop"
    /\ traces[t] = "terminal"
    /\ traces' = [traces EXCEPT ![t] = "forgotten"]
    /\ IF service = "network" THEN ForgetTraceCache(t)
                              ELSE UNCHANGED <<cache, order, byTrace>>
    /\ UNCHANGED <<service, policy, plugins, notif, counts, nextSeq, threads,
                   daemon, aborted>>

-----------------------------------------------------------------------------
(* The daemon thread: drain_seccomp_notifications_impl.                    *)

\* continue_now or deny_errno: the answer to a stale id is not an error.
Respond(n, d) ==
    notif' = IF IsValid(n)
             THEN [notif EXCEPT ![n] = Settled(IF d = "allow" THEN d ELSE "over")]
             ELSE notif

\* The loop wakes for the eventfd, a listener or anything else it polls; the
\* eventfd is drained before the channel is.
BeginCycle ==
    /\ daemon.at = "loop"
    /\ daemon' = At("drain")
    /\ wake' = FALSE
    /\ aborted' = FALSE
    /\ UNCHANGED <<service, policy, plugins, notif, traces, counts, reusable,
                   work, chan>>

\* find: the last updated rule that matches the subject.
Find(s) ==
    {r \in rules : r.subject = s /\ \A q \in rules : q.subject = s => q.rev <= r.rev}

IsRuleCurrent(r) ==
    \E q \in rules : q.owner = r.owner /\ q.id = r.id /\ q.rev = r.rev

\* Mutant: the verdict counts whatever became of the plugin.
ResolutionTrusting(c) ==
    [decision |-> c.outcome.decision,
     source |-> IF IsIndexActive(c.index) THEN c.outcome.kind ELSE "unloaded"]

\* What drain_completions answers: a verdict only counts while the slot that
\* was asked is still there.
Resolution(c) ==
    CASE c.outcome.kind = "plugin" /\ IsIndexActive(c.index) ->
           [decision |-> c.outcome.decision, source |-> "plugin"]
      [] c.outcome.kind = "plugin" /\ ~IsIndexActive(c.index) ->
           [decision |-> "deny", source |-> "unloaded"]
      [] c.outcome.kind = "fallback" ->
           [decision |-> c.outcome.decision, source |-> "fallback"]

\* Mutant: the rule is not looked up again after the plugin was asked.
IsCachedUnchecked(c) ==
    /\ Resolution(c).source = "plugin"
    /\ c.outcome.scope = "reusable"
    /\ service = "network" => NonTerminal(notif[c.n].trace)

\* Mutant: the trace is not looked up again.
IsCachedForAnyTrace(c) ==
    /\ Resolution(c).source = "plugin"
    /\ c.outcome.scope = "reusable"
    /\ IsRuleCurrent(c.rule)

IsCached(c) ==
    /\ Resolution(c).source = "plugin"
    /\ c.outcome.scope = "reusable"
    /\ IsRuleCurrent(c.rule)
    /\ service = "network" => NonTerminal(notif[c.n].trace)

\* The answer to a notification that is still valid, and what is kept of it.
AnswerDeferred(c) ==
    /\ Respond(c.n, Resolution(c).decision)
    /\ IF IsCached(c) THEN CacheDecision(c.n, c.rule, c.outcome)
                      ELSE UNCHANGED reusable

\* Mutant: a stale notification is skipped before its slot is given back.
TakeCompletionLeaks ==
    /\ daemon.at = "drain"
    /\ chan # <<>>
    /\ chan' = Tail(chan)
    /\ IF IsValid(Head(chan).n)
         THEN AnswerDeferred(Head(chan)) /\ Release(Head(chan).rule)
         ELSE UNCHANGED <<notif, reusable, counts>>
    /\ UNCHANGED <<service, policy, plugins, traces, work, wake, daemon, aborted>>

\* One turn of the loop of drain_completions.
TakeCompletion ==
    /\ daemon.at = "drain"
    /\ chan # <<>>
    /\ chan' = Tail(chan)
    /\ Release(Head(chan).rule)
    /\ IF IsValid(Head(chan).n) THEN AnswerDeferred(Head(chan))
                                ELSE UNCHANGED <<notif, reusable>>
    /\ UNCHANGED <<service, policy, plugins, traces, work, wake, daemon, aborted>>

\* An error ends the drain and the cycle: the ioctl on the id fails before
\* the answer, or the network service cannot build the audit event after it.
TakeFails ==
    /\ daemon.at = "drain"
    /\ chan # <<>>
    /\ aborted' = TRUE
    /\ chan' = Tail(chan)
    /\ Release(Head(chan).rule)
    /\ IsValid(Head(chan).n)
    /\ \/ UNCHANGED <<notif, reusable>>
       \/ service = "network" /\ AnswerDeferred(Head(chan))
    /\ daemon' = At("loop")
    /\ UNCHANGED <<service, policy, plugins, traces, work, wake>>

\* The channel is empty: the command service then drops the decisions of
\* terminal traces.
EndDrain ==
    /\ daemon.at = "drain"
    /\ chan = <<>>
    /\ cache' = IF service = "command"
                  THEN {e \in cache : NonTerminal(e.key.trace)}
                  ELSE cache
    /\ daemon' = At("handle")
    /\ UNCHANGED <<service, policy, plugins, notif, traces, counts, order,
                   byTrace, nextSeq, threads, aborted>>

\* handle_notification up to the rule, which is a copy: the lock is released.
\* A trace the runtime no longer knows is not controlled.
Handle(n) ==
    /\ daemon.at = "handle"
    /\ n \in Pending
    /\ LET found == Find(notif[n].subject)
       IN  \/ /\ traces[notif[n].trace] = "forgotten"
              /\ Respond(n, "allow")
              /\ UNCHANGED daemon
           \/ /\ traces[notif[n].trace] # "forgotten"
              /\ Respond(n, FailureDecision)
              /\ UNCHANGED daemon
           \/ /\ traces[notif[n].trace] # "forgotten"
              /\ found = {}
              /\ Respond(n, DefaultDecision)
              /\ UNCHANGED daemon
           \/ /\ traces[notif[n].trace] # "forgotten"
              /\ \E r \in found :
                   IF r.decision = "gray"
                     THEN /\ daemon' = [at |-> "found", n |-> n, rule |-> r]
                          /\ UNCHANGED notif
                     ELSE /\ Respond(n, r.decision)
                          /\ UNCHANGED daemon
    /\ UNCHANGED <<service, policy, plugins, traces, counts, reusable, threads,
                   aborted>>

\* handle_gray with the copied rule: a reusable decision, a slot to ask, room
\* for the request, a thread to ask from.
GrayNow ==
    LET n == daemon.n
        r == daemon.rule
        hit == {e \in cache : e.key = Key(n, r)}
        slot == {s \in deciders : s.id = r.target}
    IN  \/ /\ service = "command"
           /\ Respond(n, FailureDecision)
        \/ \E e \in hit : Respond(n, e.decision)
        \/ hit = {} /\ slot = {} /\ Respond(n, "deny")
        \* no room (admission_rejection), or the thread does not start
        \/ hit = {} /\ slot # {} /\ Respond(n, GrayFallback)

AnswerGray ==
    /\ daemon.at = "found"
    /\ GrayNow
    /\ daemon' = At("handle")
    /\ UNCHANGED <<service, policy, plugins, traces, counts, reusable, threads,
                   aborted>>

DeferGray ==
    /\ daemon.at = "found"
    /\ LET n == daemon.n
           r == daemon.rule
       IN  /\ ~\E e \in cache : e.key = Key(n, r)
           /\ ~AdmissionRejected(r)
           /\ \E s \in deciders :
                /\ s.id = r.target
                /\ work' = [work EXCEPT ![n] = [Idle EXCEPT !.at = "check",
                                   !.rule = r, !.index = s.index]]
           /\ Reserve(r)
           /\ notif' = IF IsValid(n) THEN [notif EXCEPT ![n].st = "deferred"]
                                     ELSE notif
    /\ daemon' = At("handle")
    /\ UNCHANGED <<service, policy, plugins, traces, reusable, chan, wake,
                   aborted>>

EndHandle ==
    /\ daemon.at = "handle"
    /\ Pending = {}
    /\ daemon' = At("loop")
    /\ UNCHANGED <<service, policy, plugins, notif, traces, counts, reusable,
                   threads, aborted>>

-----------------------------------------------------------------------------
(* GrayDecisionWorker::run, one thread for each deferred notification.     *)

\* completion_sender.send: the channel has room for every request in flight.
Complete(n, outcome) ==
    /\ Len(chan) < PendingMax
    /\ chan' = Append(chan, [n |-> n, rule |-> work[n].rule,
                             index |-> work[n].index, outcome |-> outcome])
    /\ work' = [work EXCEPT ![n] = [Idle EXCEPT !.at = "notify"]]

\* is_instance_index_active before the plugin is asked
WorkerCheck(n) ==
    /\ work[n].at = "check"
    /\ \/ /\ IsIndexActive(work[n].index)
          /\ work' = [work EXCEPT ![n].at = "call"]
          /\ UNCHANGED chan
       \/ /\ ~IsIndexActive(work[n].index)
          /\ Complete(n, Fallback("deny"))
    /\ UNCHANGED <<service, policy, plugins, notif, traces, counts, reusable,
                   wake, daemon, aborted>>

\* ControlPluginRuntime::decide finds the slot by its id; no slot is an error.
WorkerCall(n) ==
    /\ work[n].at = "call"
    /\ LET slot == {s \in deciders : s.id = work[n].rule.target}
       IN  work' = [work EXCEPT ![n].at = "asked",
                                ![n].slot = IF slot = {} THEN 0
                                            ELSE (CHOOSE s \in slot : TRUE).index]
    /\ UNCHANGED <<service, policy, plugins, notif, traces, counts, reusable,
                   chan, wake, daemon, aborted>>

\* The plugin answers, fails, panics or runs out of its budget; the result
\* counts only if the slot of the request is still there.
WorkerOutcomes(n) ==
    IF ~IsIndexActive(work[n].index) THEN {Fallback("deny")}
    ELSE {Fallback(GrayFallback)} \cup
           (IF work[n].slot = 0 THEN {}
            ELSE {[kind |-> "plugin", decision |-> v[1], scope |-> v[2],
                   by |-> work[n].slot] : v \in Verdicts})

\* The answer is sent at once: until then only this thread knows of it, and
\* what changes before it is sent can change before it is drained.
WorkerAnswer(n) ==
    /\ work[n].at = "asked"
    /\ \E outcome \in WorkerOutcomes(n) : Complete(n, outcome)
    /\ UNCHANGED <<service, policy, plugins, notif, traces, counts, reusable,
                   wake, daemon, aborted>>

\* Mutant: a daemon that is busy is not woken.
WorkerNotifyIdle(n) ==
    /\ work[n].at = "notify"
    /\ wake' = (wake \/ daemon.at = "loop")
    /\ work' = [work EXCEPT ![n] = Idle]
    /\ UNCHANGED <<service, policy, plugins, notif, traces, counts, reusable,
                   chan, daemon, aborted>>

\* CommandWakeFd::notify
WorkerNotify(n) ==
    /\ work[n].at = "notify"
    /\ wake' = TRUE
    /\ work' = [work EXCEPT ![n] = Idle]
    /\ UNCHANGED <<service, policy, plugins, notif, traces, counts, reusable,
                   chan, daemon, aborted>>

Worker(n) ==
    \/ WorkerCheck(n)
    \/ WorkerCall(n)
    \/ WorkerAnswer(n)
    \/ WorkerNotify(n)

Machine ==
    \/ \E n \in Notifs, t \in Traces, s \in Subjects : Raise(n, t, s)
    \/ \E n \in Notifs : Die(n)
    \/ \E t \in Traces : EndTrace(t)
    \/ \E t \in Traces : ForgetTrace(t)

PluginHost ==
    \/ \E p \in Instances : LoadPlugin(p)
    \/ \E p \in Instances : UnloadPlugin(p)
    \/ \E p \in PolicyOwners, id \in RuleIds, s \in Subjects :
         \E d \in Decisions \cup {"gray"} :
           \E target \in IF d = "gray" THEN Instances \ {p} ELSE {NoName} :
             RulesUpsert(p, id, s, d, target)
    \/ \E p \in PolicyOwners, id \in RuleIds : RulesDelete(p, id)

DaemonStep ==
    \/ TakeCompletion
    \/ EndDrain
    \/ \E n \in Notifs : Handle(n)
    \/ AnswerGray
    \/ DeferGray
    \/ EndHandle

Next ==
    \/ Machine
    \/ PluginHost
    \/ BeginCycle
    \/ DaemonStep
    \/ TakeFails
    \/ \E n \in Notifs : Worker(n)

\* The loop runs a cycle when the eventfd or a listener is readable, a cycle
\* runs to its end, and a worker thread is scheduled; decide returns because
\* it is called with a time budget.
Fairness ==
    /\ WF_vars((wake \/ Pending # {}) /\ BeginCycle)
    /\ WF_vars(DaemonStep)
    /\ \A n \in Notifs : WF_vars(Worker(n))

Spec == Init /\ [][Next]_vars /\ Fairness

-----------------------------------------------------------------------------
(* Properties.                                                             *)

\* The number of requests in flight that satisfy a test on their rule: those a
\* worker still holds and those waiting in the channel.
CountInFlight(Test(_)) ==
      Cardinality({n \in Notifs : /\ work[n].at \notin {"none", "notify"}
                                  /\ Test(work[n].rule)})
    + Cardinality({i \in DOMAIN chan : Test(chan[i].rule)})

\* The three in-flight counts are exactly the deferred requests whose
\* completion was not taken yet, whatever dies, unloads, changes or fails
\* meanwhile: no slot leaks and no limit is bypassed (reserve, release).
InFlightExact ==
    /\ LET Any(r) == TRUE IN globalPending = CountInFlight(Any)
    /\ \A o \in Owners, id \in RuleIds :
         LET Of(r) == r.owner = o /\ r.id = id
         IN  byRule[o, id] = CountInFlight(Of)
    /\ \A p \in Instances :
         LET To(r) == r.target = p
         IN  byInstance[p] = CountInFlight(To)

\* The rule and the slot a reusable decision depends on.
Granted(e) ==
    /\ \E r \in rules :
         /\ r.id = e.key.id /\ r.rev = e.key.rev
         /\ r.subject = e.key.subject /\ r.target = e.instance
         /\ service = "network" => r.owner = e.key.owner
    /\ \E s \in deciders : s.id = e.instance /\ s.index = e.by

\* A reusable decision is only kept for a rule that is in the store, in the
\* revision it was made for, and comes from the slot its instance has now: no
\* order of rule changes, unloads, reloads and late completions revives one
\* (is_rule_current, remove_plugin_policy_owner, rules_apply).
ReusableStillGranted == \A e \in cache : Granted(e)

\* Outside a drain no reusable decision outlives its trace's time in the
\* runtime, so a later trace cannot be answered from it.
ForgottenTraceNotCached ==
    service = "network" \/ daemon.at \in {"handle", "found"} =>
        \A e \in cache : traces[e.key.trace] # "forgotten"

\* A step that lets a deferred process through, and one that completes a
\* request with an approval.
AllowedByLiveTarget ==
    /\ \A n \in Notifs :
         (notif[n].st = "deferred" /\ notif'[n].st = "allow") =>
            LET c == Head(chan)
            IN  /\ c.n = n
                /\ c.outcome.kind = "plugin" =>
                     c.outcome.by = c.index /\ IsIndexActive(c.index)
    /\ \A n \in Notifs :
         (work[n].at = "asked" /\ work'[n].at = "notify"
            /\ chan'[Len(chan')].outcome.decision = "allow") =>
            IsIndexActive(work[n].index)

\* A deferred process is only let through by the verdict of the slot that was
\* asked, still loaded when the answer is given; a target unloaded before the
\* outcome is known means denial, not the fallback
\* (GrayDecisionWorker::run, drain_completions).
AllowNeedsLiveTarget == [][AllowedByLiveTarget]_vars

\* A completion in the channel is never left with nobody woken for it: the
\* daemon is draining, the eventfd is set, or the worker is about to set it
\* (unless an error ended the last drain, which waits for any other wake-up).
\* It is what lets every process stopped in a gray system call get its answer.
NoLostWake ==
    chan # <<>> => \/ wake \/ daemon.at = "drain"
                   \/ \E n \in Notifs : work[n].at = "notify"
                   \/ aborted

=============================================================================
