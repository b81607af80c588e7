----------------------------- MODULE MCInbound -----------------------------
(***************************************************************************)
(* Inbound and Usage on small instances.  What the environment may do is   *)
(* limited by a budget, and each initial budget is a scenario: senders and *)
(* the bandwidth limit, pairs that come and go, rendezvous, statistics.    *)
(***************************************************************************)
EXTENDS Inbound

CONSTANTS d1, d2, d3, i1, i2, r1, s1, s2, s3

Device3 == {d1, d2, d3}
Instance2 == {i1, i2}
Rv1 == {r1}
Salt3 == {s1, s2, s3}

VARIABLES
    scenario,
    left        \* what the environment may still do

MCHome == [d \in Device |-> IF d = d2 THEN i2 ELSE i1]

Act == {"frame", "tick", "pair", "news", "connect", "end", "rv", "lose",
        "count", "take", "try", "crash", "day"}

\* A scenario: the pairs at the start, the devices that connect, those that
\* send frames, to whom and of which lengths, and how often the environment may do
\* each thing.
Scenario(ps, who, from, to, lens, f) ==
    [pairs |-> ps, who |-> who, from |-> from, to |-> to, lens |-> lens,
     left |-> [x \in Act |-> IF x \in DOMAIN f THEN f[x] ELSE 0]]

Throughput ==
    Scenario({{d1, d2}, {d1, d3}}, {d1, d2}, {d1}, {d2, d3}, FrameLen,
             [frame |-> 4, tick |-> 5, connect |-> 2])
Reloads ==
    Scenario({{d1, d2}}, {d1, d2}, {d1}, {d2}, {2},
             [frame |-> 4, tick |-> 3, pair |-> 2, news |-> 3, connect |-> 1])
Lookups ==
    Scenario({{d1, d2}}, {d1, d2}, {d1}, {d2}, {2},
             [frame |-> 3, tick |-> 4, pair |-> 2, news |-> 1, connect |-> 2])
Meetings ==
    Scenario({}, {d1, d2, d3}, {}, {}, {},
             [rv |-> 4, tick |-> 2, connect |-> 4, end |-> 1, lose |-> 1])
Flushes ==
    Scenario({}, {d1}, {}, {}, {},
             [count |-> 3, take |-> 3, crash |-> 1, try |-> 1, day |-> 1])
Cleanups ==
    Scenario({}, {d1}, {}, {}, {},
             [count |-> 1, take |-> 1, try |-> 4, crash |-> 1, day |-> 3])

CONSTANT Scenarios
AllScenarios == {Throughput, Reloads, Lookups, Meetings, Flushes, Cleanups}

MCInit ==
    /\ Init
    /\ \E s \in Scenarios : pairs = s.pairs /\ scenario = s /\ left = s.left

Free == UNCHANGED <<scenario, left>>
Spend(x) == left[x] > 0 /\ UNCHANGED scenario /\ left' = [left EXCEPT ![x] = @ - 1]

MCFrame == Spend("frame") /\ 
    \E d \in scenario.from, t \in scenario.to, n \in scenario.lens : Frame(d, t, n)
MCRelease == Free /\ \E d \in Device : Release(d)
MCRvJoin == Spend("rv") /\ \E d \in Device, r \in Rv : rv_join(d, r)
MCRvMsg == Spend("rv") /\ \E d \in Device, r \in Rv : rv_msg(d, r)
MCRvJoined == Free /\ \E d \in Device : rv_joined(d)
MCDelivery == Free /\ \E d \in Device : on_delivery(d)
MCConnect == Spend("connect") /\ \E d \in scenario.who : Connect(d)
MCDisconnect == Spend("end") /\ \E d \in Device : Disconnect(d)
MCPairNews == Spend("news") /\ \E d \in Device : PairNews(d)
MCLose == Spend("lose") /\ \E d \in Device : Lose(d)
MCAddPair == Spend("pair") /\ \E p \in Pair \intersect SUBSET scenario.who : AddPair(p)
MCRemovePair == Spend("pair") /\ \E p \in Pair \intersect SUBSET scenario.who : RemovePair(p)
MCTick == Spend("tick") /\ Tick

Aside == UNCHANGED <<now, pairs, since, connVars, inbox, rvVars, meter>>
MCCount == Spend("count") /\ Aside /\ \E i \in Instance, d \in scenario.who : Count(i, d, 1)
MCTake == Spend("take") /\ Aside /\ \E i \in Instance : take(i)
MCSalt == Free /\ Aside /\ \E i \in Instance : monthly_salt(i)
MCBatch == Free /\ Aside /\ \E i \in Instance : add_batch(i)
MCCrash == Spend("crash") /\ Aside /\ \E i \in Instance : Crash(i)
MCTryCleanup == Spend("try") /\ Aside /\ \E i \in Instance : TryCleanup(i)
MCCleanup == Free /\ Aside /\ \E i \in Instance : run_cleanup(i)
MCMidnight == Spend("day") /\ Aside /\ Midnight

MCNext ==
    \/ MCFrame \/ MCRelease \/ MCRvJoin \/ MCRvMsg \/ MCRvJoined \/ MCDelivery
    \/ MCConnect \/ MCDisconnect \/ MCPairNews \/ MCLose
    \/ MCAddPair \/ MCRemovePair \/ MCTick
    \/ MCCount \/ MCTake \/ MCSalt \/ MCBatch \/ MCCrash
    \/ MCTryCleanup \/ MCCleanup \/ MCMidnight

MCSpec == MCInit /\ [][MCNext]_<<vars, scenario, left>>
=============================================================================
