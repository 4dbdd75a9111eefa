--------------------------- MODULE MCGrayControl ---------------------------
(***************************************************************************)
(* Instance of GrayControl: two plugins, the second of which may apply     *)
(* rules; commands start with a static gray rule, the network with none.   *)
(***************************************************************************)
EXTENDS GrayControl, TLC

CONSTANTS p, q, s1

MCLoaded == <<p, q>>

MCStaticRules ==
    [command |-> {[owner |-> Static, id |-> "r", subject |-> s1,
                   decision |-> "gray", target |-> p, rev |-> 1]},
     network |-> {}]

MCVerdicts == {<<"allow", "reusable">>, <<"deny", "once">>}

\* Commands: both requests of a trace in flight at once.  Connections: two
\* traces compete for the cache, and the second request may find no room.
MCInstanceLimit == [command |-> 2, network |-> 1]
MCRunning == [command |-> 1, network |-> 2]

MCSymmetry == Permutations(Notifs) \cup Permutations(Traces)
=============================================================================
