------------------------------ MODULE MCPairs ------------------------------
(***************************************************************************)
(* Pairs for TLC: the REST calls, the cleanups, the reconnections and the  *)
(* lost pub/sub connections are bounded by the scenario.                   *)
(***************************************************************************)
EXTENDS Pairs, TLC

CONSTANTS
    d1, d2, d3, p1, p2, h1, h2,
    Scenarios       \* one is chosen at the start

VARIABLES
    cast,           \* the devices that take part
    failures,       \* whether a failure may cost a message or a statement
    fresh,          \* devices that have yet to register, before all else
    left            \* how often each thing may still happen

mcVars == <<cast, failures, fresh, left>>

\* One phone with two tablets.
Star == p1 :> d1 @@ p2 :> d1
StarTips == p1 :> d2 @@ p2 :> d3

Scenario(devs, fail, counts) ==
    [cast |-> devs, failures |-> fail,
     left |-> [x \in {"calls", "cuts", "cleanups", "again", "connects"} |->
                 IF x \in DOMAIN counts THEN counts[x] ELSE 0]]

Calls ==
    {Scenario({d1, d2}, FALSE, [calls |-> 3, connects |-> 2]),
     Scenario({d1, d2}, FALSE, [calls |-> 2, cuts |-> 1, connects |-> 2]),
     Scenario({d1, d2}, FALSE, [calls |-> 2, cleanups |-> 1, connects |-> 2]),
     Scenario({d1, d2}, FALSE, [calls |-> 3, again |-> 1, connects |-> 1]),
     Scenario({d1, d2}, TRUE, [calls |-> 2, cuts |-> 1, connects |-> 1]),
     Scenario({d1, d2, d3}, TRUE, [calls |-> 2, connects |-> 1])}
Removal == {Scenario({d1, d2}, FALSE, [calls |-> 3, connects |-> 1])}

MCInit ==
    /\ Init
    /\ \E s \in Scenarios :
          /\ cast = s.cast /\ failures = s.failures
          /\ left = s.left /\ fresh = s.cast

Spend(x) ==
    /\ fresh = {} /\ left[x] > 0
    /\ left' = [left EXCEPT ![x] = @ - 1]
    /\ UNCHANGED <<cast, failures, fresh>>

\* Statements only for pairs of devices that take part.
MCCall(h) ==
    /\ Call(h)
    /\ \A p \in task'[h].body.items : Members(p) \subseteq cast

MCNext ==
    \/ \E d \in fresh :
          RegisterDevice(d) /\ fresh' = fresh \ {d} /\ UNCHANGED <<cast, failures, left>>
    \/ Spend("again") /\ \E d \in cast : RegisterDevice(d)
    \/ Spend("calls") /\ \E h \in Handler : MCCall(h)
    \/ Spend("cuts") /\ \E d \in Device : \E n \in 0 .. Len(mail[d]) : LinkCut(d, n)
    \/ Spend("cleanups") /\ \E d \in Device : delete_expired(d)
    \/ Spend("connects") /\ \E d \in Device : Connect(d)
    \/ failures /\ (\E h \in Handler : Abandon(h)) /\ UNCHANGED mcVars
    \/ /\ \/ \E h \in Handler : Continue(h)
          \/ \E d \in Device : ConnStep(d) /\ conn[d] # "off"
          \/ \E d \in Device : LinkBack(d)
       /\ ~failures => missed' \cup dropped' = {}
       /\ UNCHANGED mcVars

MCSpec == MCInit /\ [][MCNext]_<<vars, mcVars>>

Symmetry == Permutations(Handler)
=============================================================================
