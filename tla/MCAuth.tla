------------------------------- MODULE MCAuth -------------------------------
(***************************************************************************)
(* Auth on small instances.  Requests arrive within a budget, and each     *)
(* initial budget is a scenario: addresses, challenges and tokens,         *)
(* registrations.                                                          *)
(***************************************************************************)
EXTENDS Auth, SequencesExt, TLC

CONSTANTS x, y, px, px6     \* two clients, a proxy and its IPv4-mapped form

CONSTANTS d1, d2

VARIABLES scenario, left

Addr4 == {x, y, px, px6}
MCCanonical == [z \in Addr4 |-> IF z = px6 THEN px ELSE z]
MCTrusted == {px6}
Device2 == {d1, d2}

\* A scenario has a budget, and the ways its requests come in: the peer and
\* the lines of X-Forwarded-For.
Act == {"challenge", "token", "register", "unsigned", "tick", "delete"}

Budget ==
    [addresses |-> [challenge |-> 1],
     unsigned |-> [unsigned |-> 1],
     reuse |-> [challenge |-> 1, token |-> 2, tick |-> 2, delete |-> 1],
     more |-> [challenge |-> 3, token |-> 1, tick |-> 1],
     late |-> [challenge |-> 3, tick |-> 2],
     registrations |-> [register |-> 3, tick |-> 2],
     cap |-> [register |-> 3],
     deletions |-> [register |-> 2, tick |-> 2, delete |-> 1]]

Routes ==
    [addresses |-> Addr4 \X ({<<l>> : l \in SeqOf({x, px, px6, Bad}, 3)}
                               \union SeqOf({Unreadable, <<x>>, <<y, px>>}, 2)),
     unsigned |-> {<<x, <<>>>>},
     reuse |-> {<<x, <<>>>>},
     more |-> {<<x, <<>>>>},
     late |-> {<<x, <<>>>>},
     registrations |-> {<<x, <<>>>>, <<y, <<>>>>},
     cap |-> {<<x, <<>>>>, <<y, <<>>>>, <<px, <<>>>>},
     deletions |-> {<<x, <<>>>>}]

Rows ==      \* the devices registered at the start
    [addresses |-> {{d1}}, unsigned |-> {{}}, reuse |-> {{d1}}, more |-> {{}, {d1}},
     late |-> {{d1}}, registrations |-> {{}}, cap |-> {{}}, deletions |-> {{}, {d1}}]

CONSTANT Scenarios

MCInit ==
    /\ Init
    /\ scenario \in Scenarios
    /\ devices \in Rows[scenario]
    /\ left = [z \in Act |-> IF z \in DOMAIN Budget[scenario] THEN Budget[scenario][z] ELSE 0]

Spend(z) == left[z] > 0 /\ left' = [left EXCEPT ![z] = @ - 1] /\ UNCHANGED scenario

\* Requests are numbered as they arrive.
NextRequest == 1 + Cardinality({h \in Request : req[h] # None})

MCArrive(act, op, ds, values, proofs) ==
    /\ Spend(act)
    /\ \E d \in ds, r \in Routes[scenario], v \in values, proof \in proofs :
         Arrive(NextRequest, op, d, r[1], r[2], v, proof)

MCChallenge == MCArrive("challenge", "challenge", {d1}, {None}, {TRUE})
MCToken == MCArrive("token", "token", Device, {c.value : c \in issued}, BOOLEAN)
MCRegister == MCArrive("register", "register", Device, {None}, {TRUE})
MCUnsigned == MCArrive("unsigned", "register", {d1}, {None}, {FALSE})
MCDelete == Spend("delete") /\ Delete(d1)
MCTick == Spend("tick") /\ Tick
MCStep == UNCHANGED <<scenario, left>> /\ \E h \in Request : Step(h)

MCNext ==
    \/ MCChallenge \/ MCToken \/ MCRegister \/ MCUnsigned \/ MCDelete \/ MCTick \/ MCStep

MCSpec == MCInit /\ [][MCNext]_<<vars, scenario, left>>

Symmetry == Permutations(Challenge)
=============================================================================
