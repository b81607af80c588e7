---------------------------- MODULE PairsProofs ----------------------------
(***************************************************************************)
(* Proofs about Pairs, for any number of devices, pairs and handlers:      *)
(* type correctness, that delete_with_peers has read every pair it         *)
(* removes, that a connection which routes for a pair that is gone is      *)
(* about to be corrected, and that the statements of a removal reach the   *)
(* peer.                                                                   *)
(***************************************************************************)
EXTENDS Pairs, TLAPS

\* Every leaf that names no prover is left to SMT.
USE SMTT(60)

\* The helpers return what the variables hold: members of a pair are devices,
\* and the pairs a connection loads are its own.
LEMMA PeerFacts ==
    ASSUME NEW d \in Device
    PROVE  /\ PairsOf(d) \subseteq Pair
           /\ active_peers(d) \subseteq PairsOf(d)
           /\ recently_revoked(d) \subseteq PairsOf(d)
           /\ \A p \in Pair : Peer(p, d) \in Device
           /\ \A p \in Pair : p \in PairsOf(Peer(p, d))
  BY PairsAssumption DEF PairsOf, Unrevoked, active_peers, recently_revoked, Peer, Members

LEMMA MessageFacts ==
    /\ \A p \in Pair : PairRevoked(p) \in Message
    /\ PairsChanged \in Message
    /\ Resync \in Message
    /\ Close \in Message
  BY DEF Message, PairRevoked, PairsChanged, Resync, Close

LEMMA IdleFacts ==
    Idle \in Task
  BY DEF Idle, Task, Steps, PairSteps, DeviceSteps, Bodies, Silent

\* A function with one value replaced; the same for pairs of a device's own.
LEMMA ExceptFacts ==
    ASSUME NEW S, NEW T, NEW f \in [S -> T], NEW x \in S, NEW v \in T
    PROVE  [f EXCEPT ![x] = v] \in [S -> T]
  OBVIOUS

LEMMA OwnFacts ==
    ASSUME NEW f \in [Device -> SUBSET Pair], \A e \in Device : f[e] \subseteq PairsOf(e),
           NEW d \in Device, NEW S \in SUBSET PairsOf(d)
    PROVE  /\ [f EXCEPT ![d] = S] \in [Device -> SUBSET Pair]
           /\ \A e \in Device : [f EXCEPT ![d] = S][e] \subseteq PairsOf(e)
  BY DEF PairsOf

\* notify appends to one queue or to none.
LEMMA NotifyFacts ==
    ASSUME mail \in [Device -> Seq(Message)], missed \subseteq Device,
           NEW d \in Device, NEW m \in Message, notify(d, m)
    PROVE  mail' \in [Device -> Seq(Message)] /\ missed' \subseteq Device
  <1>1. [mail EXCEPT ![d] = Append(@, m)] \in [Device -> Seq(Message)]
    OBVIOUS
  <1>2. missed \cup {d} \subseteq Device
    OBVIOUS
  <1> QED
    BY Zenon, <1>1, <1>2 DEF notify

\* A handler names what it works on,
LEMMA TaskFacts ==
    ASSUME NEW t \in Task
    PROVE  /\ t.at \in PairSteps => t.pair \in Pair
           /\ t.at \in DeviceSteps => t.dev \in Device
           /\ t.held \subseteq Pair
           /\ t.lock \subseteq Device
  BY DEF Task

\* and keeps doing so in the next step of its call.
LEMMA GotoFacts ==
    ASSUME NEW t \in Task, NEW s \in Steps,
           s \in PairSteps => t.at \in PairSteps,
           s \in DeviceSteps => t.at \in DeviceSteps
    PROVE  [t EXCEPT !.at = s] \in Task
  BY DEF Task

LEMMA LockFacts ==
    ASSUME NEW t \in Task, t.at = "lock", NEW lock \in SUBSET Device
    PROVE  [t EXCEPT !.at = "read", !.lock = lock] \in Task
  BY Zenon DEF Task, Steps, PairSteps, DeviceSteps

LEMMA ReadFacts ==
    ASSUME NEW t \in Task, t.at = "read", NEW held \in SUBSET Pair
    PROVE  [t EXCEPT !.at = "delete", !.held = held] \in Task
  BY Zenon DEF Task, Steps, PairSteps, DeviceSteps

LEMMA DeleteFacts ==
    ASSUME NEW t \in Task, t.at = "delete"
    PROVE  [t EXCEPT !.at = "each", !.lock = {}] \in Task
  BY Zenon DEF Task, Steps, PairSteps, DeviceSteps

LEMMA EachFacts ==
    ASSUME NEW t \in Task, t.at \in {"each", "tell_each"}, NEW p \in Pair
    PROVE  /\ [t EXCEPT !.at = "tell_each", !.pair = p] \in Task
           /\ [t EXCEPT !.held = t.held \ {p}] \in Task
           /\ [t EXCEPT !.at = "each", !.held = t.held \ {p}] \in Task
  BY Zenon DEF Task, Steps, PairSteps, DeviceSteps

\* The calls that start and the steps of the handlers keep the types.
LEMMA HandlerTypes ==
    ASSUME TypeOK, NEW h \in Handler, Call(h) \/ Continue(h)
    PROVE  TypeOK'
  <1> USE DEF TypeOK, dbVars, connVars, sendVars, mailVars, noticeVars
  <1>0. task[h] \in Task
    OBVIOUS
  <1>1. ASSUME NEW p \in Pair, register(h, p)
        PROVE  TypeOK'
    <2>1. [Idle EXCEPT !.at = "insert", !.pair = p] \in Task
      BY Zenon DEF Idle, Task, Steps, PairSteps, DeviceSteps, Bodies, Silent
    <2> QED
      BY <1>1, <2>1 DEF register
  <1>2. ASSUME NEW p \in Pair, NEW d \in Device, revoke(h, p, d)
        PROVE  TypeOK'
    <2>1. [Idle EXCEPT !.at = "update", !.pair = p, !.dev = d] \in Task
      BY Zenon DEF Idle, Task, Steps, PairSteps, DeviceSteps, Bodies, Silent
    <2> QED
      BY <1>2, <2>1 DEF revoke
  <1>3. ASSUME NEW d \in Device, NEW body \in Bodies, delete_me(h, d, body)
        PROVE  TypeOK'
    <2>1. [Idle EXCEPT !.at = "lock", !.dev = d, !.body = body] \in Task
      BY Zenon DEF Idle, Task, Steps, PairSteps, DeviceSteps, Bodies, Silent
    <2> QED
      BY <1>3, <2>1 DEF delete_me
  <1>4. CASE insert(h)
    <2>1. task' \in {[task EXCEPT ![h].at = "tell_a"], [task EXCEPT ![h] = Idle]}
      BY <1>4 DEF insert, Goto, Respond
    <2>2. task[h].at = "insert" /\ task[h].pair \in Pair
      BY <1>0, <1>4, TaskFacts DEF insert, PairSteps
    <2>3. task' \in [Handler -> Task]
      <3>1. [task[h] EXCEPT !.at = "tell_a"] \in Task
        BY Zenon, <1>0, <2>2, GotoFacts DEF Steps, PairSteps, DeviceSteps
      <3> QED
        BY ZenonT(60), <2>1, <3>1, IdleFacts
    <2>4. /\ pairs' \in [Pair -> {"absent", "valid", "revoked"}]
          /\ revokedBy' \in [Pair -> Device \cup {None}]
          /\ removedBy' \in [Pair -> Device \cup {None}]
      <3>1. /\ pairs' \in {pairs, [pairs EXCEPT ![task[h].pair] = "valid"]}
            /\ revokedBy' \in {revokedBy, [revokedBy EXCEPT ![task[h].pair] = None]}
            /\ removedBy' \in {removedBy, [removedBy EXCEPT ![task[h].pair] = None]}
        BY <1>4 DEF insert
      <3>2. /\ [pairs EXCEPT ![task[h].pair] = "valid"]
                  \in [Pair -> {"absent", "valid", "revoked"}]
            /\ [revokedBy EXCEPT ![task[h].pair] = None] \in [Pair -> Device \cup {None}]
            /\ [removedBy EXCEPT ![task[h].pair] = None] \in [Pair -> Device \cup {None}]
        BY <2>2, ExceptFacts
      <3> QED
        BY ZenonT(60), <3>1, <3>2
    <2>5. unchecked' \subseteq Pair /\ dropped' \subseteq Pair /\ told' \in [Device -> SUBSET Pair]
      BY <1>4, <2>2 DEF insert
    <2> QED
      BY <1>4, <2>3, <2>4, <2>5 DEF insert
  <1>5. CASE TellA(h)
    <2>1. task' \in [Handler -> Task]
      BY Zenon, <1>0, <1>5, GotoFacts DEF TellA, Goto, Steps, PairSteps, DeviceSteps
    <2>2. mail' \in [Device -> Seq(Message)] /\ missed' \subseteq Device
      BY <1>0, <1>5, TaskFacts, NotifyFacts, MessageFacts, PairsAssumption
      DEF TellA, PairSteps, DeviceSteps
    <2> QED
      BY <1>0, <1>5, <2>1, <2>2 DEF TellA
  <1>6. CASE TellB(h)
    <2>1. task' \in [Handler -> Task]
      BY <1>6, IdleFacts DEF TellB, Respond
    <2>2. mail' \in [Device -> Seq(Message)] /\ missed' \subseteq Device
      BY <1>0, <1>6, TaskFacts, NotifyFacts, MessageFacts, PairsAssumption
      DEF TellB, PairSteps, DeviceSteps
    <2> QED
      BY <1>0, <1>6, <2>1, <2>2 DEF TellB
  <1>7. CASE Update(h)
    <2>0. task' \in {[task EXCEPT ![h].at = "tell_peer"], [task EXCEPT ![h] = Idle]}
      BY <1>7 DEF Update, Goto, Respond
    <2>1. task' \in [Handler -> Task]
      <3>1. [task[h] EXCEPT !.at = "tell_peer"] \in Task
        BY ZenonT(60), <1>0, <1>7, GotoFacts DEF Update, Steps, PairSteps, DeviceSteps
      <3> QED
        BY Zenon, <2>0, <3>1, IdleFacts
    <2> QED
      BY ZenonT(60), <1>0, <1>7, <2>1, TaskFacts DEF Update, DeviceSteps
  <1>8. CASE TellPeer(h)
    <2>1. task' \in [Handler -> Task]
      BY ZenonT(60), <1>0, <1>8, GotoFacts DEF TellPeer, Goto, Steps, PairSteps, DeviceSteps
    <2>2. mail' \in [Device -> Seq(Message)] /\ missed' \subseteq Device
      BY <1>0, <1>8, TaskFacts, NotifyFacts, MessageFacts, PeerFacts
      DEF TellPeer, PairSteps, DeviceSteps
    <2> QED
      BY <1>0, <1>8, <2>1, <2>2 DEF TellPeer
  <1>9. CASE TellMe(h)
    <2>1. task' \in [Handler -> Task]
      BY <1>9, IdleFacts DEF TellMe, Respond
    <2>2. mail' \in [Device -> Seq(Message)] /\ missed' \subseteq Device
      BY <1>0, <1>9, TaskFacts, NotifyFacts, MessageFacts DEF TellMe, PairSteps, DeviceSteps
    <2> QED
      BY <1>0, <1>9, <2>1, <2>2 DEF TellMe
  <1>10. CASE LockDevice(h)
    <2>1. task' \in [Handler -> Task]
      BY Zenon, <1>0, <1>10, LockFacts DEF LockDevice
    <2> QED
      BY <1>0, <1>10, <2>1 DEF LockDevice
  <1>11. CASE ReadPairs(h)
    <2>0. PICK held \in SUBSET Pair :
             task' \in {[task EXCEPT ![h].at = "delete", ![h].held = held],
                        [task EXCEPT ![h] = Idle]}
      BY Zenon, <1>11 DEF ReadPairs, Respond, Unrevoked, PairsOf
    <2>1. task' \in [Handler -> Task]
      <3>1. [task[h] EXCEPT !.at = "delete", !.held = held] \in Task
        BY ZenonT(60), <1>0, <1>11, ReadFacts DEF ReadPairs
      <3> QED
        BY ZenonT(60), <2>0, <3>1, IdleFacts
    <2> QED
      BY <1>0, <1>11, <2>1 DEF ReadPairs
  <1>12. CASE DeleteDevice(h)
    <2>1. task' \in [Handler -> Task]
      BY Zenon, <1>0, <1>12, DeleteFacts DEF DeleteDevice
    <2>2. task[h].dev \in Device
      BY <1>0, <1>12, TaskFacts DEF DeleteDevice, DeviceSteps
    <2>3. pairs' \in [Pair -> {"absent", "valid", "revoked"}]
      BY <1>12 DEF DeleteDevice
    <2>4. removedBy' \in [Pair -> Device \cup {None}]
      BY <1>12, <2>2 DEF DeleteDevice
    <2>5. devices' \subseteq Device /\ unchecked' \subseteq Pair
      BY <1>12 DEF DeleteDevice, Unrevoked, PairsOf
    <2> QED
      BY <1>12, <2>1, <2>3, <2>4, <2>5 DEF DeleteDevice
  <1>13. ASSUME NEW p \in Pair, AddNotice(h, p)
        PROVE  TypeOK'
    <2>1. task' \in [Handler -> Task]
      BY Zenon, <1>0, <1>13, EachFacts DEF AddNotice
    <2>2. Peer(p, task[h].dev) \in Device /\ p \in PairsOf(Peer(p, task[h].dev))
      BY <1>0, <1>13, TaskFacts, PeerFacts DEF AddNotice, DeviceSteps
    <2>3. /\ notices' \in [Device -> SUBSET Pair]
          /\ \A d \in Device : notices'[d] \subseteq PairsOf(d)
      <3> DEFINE e == Peer(p, task[h].dev)
                 S == notices[e] \cup {p}
      <3>1. notices' = notices \/ notices' = [notices EXCEPT ![e] = S]
        BY <1>13 DEF AddNotice
      <3>2. \A d \in Device : notices[d] \subseteq PairsOf(d)
        BY Zenon
      <3>3. S \in SUBSET PairsOf(e)
        BY <2>2, <3>2
      <3> HIDE DEF S
      <3>4. /\ [notices EXCEPT ![e] = S] \in [Device -> SUBSET Pair]
            /\ \A d \in Device : [notices EXCEPT ![e] = S][d] \subseteq PairsOf(d)
        <4>1. notices \in [Device -> SUBSET Pair] /\ e \in Device
          BY <2>2
        <4> HIDE DEF e, TypeOK
        <4> QED
          BY <3>2, <3>3, <4>1, OwnFacts
      <3> QED
        BY ZenonT(60), <3>1, <3>2, <3>4
    <2>4. dropped' \subseteq Pair
      BY <1>13 DEF AddNotice
    <2> QED
      BY <1>13, <2>1, <2>3, <2>4 DEF AddNotice
  <1>14. ASSUME NEW p \in Pair, TellChanged(h, p)
        PROVE  TypeOK'
    <2>1. task' \in [Handler -> Task]
      BY Zenon, <1>0, <1>14, EachFacts DEF TellChanged
    <2>2. mail' \in [Device -> Seq(Message)] /\ missed' \subseteq Device
      BY <1>0, <1>14, TaskFacts, NotifyFacts, MessageFacts, PeerFacts
      DEF TellChanged, PairSteps, DeviceSteps
    <2> QED
      BY <1>0, <1>14, <2>1, <2>2 DEF TellChanged
  <1>15. CASE TellRevoked(h)
    <2>1. task' \in [Handler -> Task]
      BY ZenonT(60), <1>0, <1>15, TaskFacts, EachFacts DEF TellRevoked, PairSteps
    <2>2. mail' \in [Device -> Seq(Message)] /\ missed' \subseteq Device
      BY <1>0, <1>15, TaskFacts, NotifyFacts, MessageFacts, PeerFacts
      DEF TellRevoked, PairSteps, DeviceSteps
    <2> QED
      BY <1>0, <1>15, <2>1, <2>2 DEF TellRevoked
  <1>16. CASE TellClose(h)
    <2>1. task' \in [Handler -> Task]
      BY <1>16, IdleFacts DEF TellClose, Respond
    <2>2. mail' \in [Device -> Seq(Message)] /\ missed' \subseteq Device
      BY <1>0, <1>16, TaskFacts, NotifyFacts, MessageFacts DEF TellClose, PairSteps, DeviceSteps
    <2> QED
      BY <1>0, <1>16, <2>1, <2>2 DEF TellClose
  <1> HIDE DEF TypeOK, dbVars, connVars, sendVars, mailVars, noticeVars
  <1> QED
    BY Zenon, <1>1, <1>2, <1>3, <1>4, <1>5, <1>6, <1>7, <1>8, <1>9, <1>10, <1>11, <1>12, <1>13,
       <1>14, <1>15, <1>16 DEF Call, Continue

\* Drop leaves a connection with nothing.
LEMMA DropFacts ==
    ASSUME TypeOK, NEW d \in Device, Drop(d)
    PROVE  /\ conn' \in [Device -> {"off", "accepted", "subscribed", "loaded", "read", "taken",
                                     "serving"}]
           /\ mail' \in [Device -> Seq(Message)]
           /\ cut' \subseteq Device /\ missed' \subseteq Device
           /\ cache' \in [Device -> SUBSET Pair]
           /\ replay' \in [Device -> SUBSET Pair]
           /\ \A e \in Device : cache'[e] \cup replay'[e] \subseteq cache[e] \cup replay[e]
  <1>1. /\ conn' \in [Device -> {"off", "accepted", "subscribed", "loaded", "read", "taken",
                                  "serving"}]
        /\ cut' \subseteq Device /\ missed' \subseteq Device
    BY DEF Drop, TypeOK
  <1>2. mail' \in [Device -> Seq(Message)]
    BY DEF Drop, TypeOK
  <1>3. /\ cache' \in [Device -> SUBSET Pair]
        /\ replay' \in [Device -> SUBSET Pair]
        /\ \A e \in Device : cache'[e] \cup replay'[e] \subseteq cache[e] \cup replay[e]
    BY DEF Drop, TypeOK
  <1> QED
    BY <1>1, <1>2, <1>3

\* A lookup leaves a connection with pairs of its own device.
LEMMA ReloadFacts ==
    ASSUME TypeOK, NEW d \in Device, reload_peers(d)
    PROVE  /\ cache' \in [Device -> SUBSET Pair]
           /\ \A e \in Device : cache'[e] \subseteq PairsOf(e)
           /\ missed' \subseteq Device
  <1>1. active_peers(d) \in SUBSET PairsOf(d)
    BY PeerFacts
  <1>2. cache \in [Device -> SUBSET Pair] /\ \A e \in Device : cache[e] \subseteq PairsOf(e)
    BY DEF TypeOK
  <1>3. cache' = [cache EXCEPT ![d] = active_peers(d)]
    BY DEF reload_peers
  <1>4. missed' \subseteq Device
    BY DEF reload_peers, TypeOK
  <1> QED
    BY <1>1, <1>2, <1>3, <1>4, OwnFacts

\* The steps of a connection keep the types.
LEMMA ConnTypes ==
    ASSUME TypeOK, NEW d \in Device, ConnStep(d) \/ LinkBack(d)
    PROVE  TypeOK'
  <1> USE DEF TypeOK, dbVars, connVars, sendVars, mailVars, noticeVars
  <1>1. CASE Connect(d)
    BY <1>1 DEF Connect
  <1>2. CASE Subscribe(d)
    BY <1>2 DEF Subscribe
  <1>3. CASE LoadPeers(d)
    BY <1>3, ReloadFacts DEF LoadPeers
  <1>4. CASE ReadRevoked(d)
    <2>1. replay' \in {replay, [replay EXCEPT ![d] = recently_revoked(d)]}
      BY <1>4 DEF ReadRevoked
    <2>2. /\ replay' \in [Device -> SUBSET Pair]
          /\ \A e \in Device : replay'[e] \subseteq PairsOf(e)
      <3>1. recently_revoked(d) \in SUBSET PairsOf(d) /\ \A e \in Device : replay[e] \subseteq PairsOf(e)
        BY PeerFacts
      <3>2. /\ [replay EXCEPT ![d] = recently_revoked(d)] \in [Device -> SUBSET Pair]
            /\ \A e \in Device : [replay EXCEPT ![d] = recently_revoked(d)][e] \subseteq PairsOf(e)
        <4>1. replay \in [Device -> SUBSET Pair]
          OBVIOUS
        <4> HIDE DEF TypeOK
        <4> QED
          BY <3>1, <4>1, OwnFacts
      <3> QED
        BY ZenonT(60), <2>1, <3>1, <3>2
    <2> QED
      BY Zenon, <1>4, <2>2 DEF ReadRevoked
  <1>5. CASE take_revoked_notices(d)
    <2>1. /\ notices' \in {notices, [notices EXCEPT ![d] = {}]}
          /\ replay' \in {replay, [replay EXCEPT ![d] = replay[d] \cup notices[d]]}
      BY <1>5 DEF take_revoked_notices
    <2>2. /\ replay' \in [Device -> SUBSET Pair]
          /\ \A e \in Device : replay'[e] \subseteq PairsOf(e)
      <3>1. /\ replay[d] \cup notices[d] \in SUBSET PairsOf(d)
            /\ \A e \in Device : replay[e] \subseteq PairsOf(e)
        OBVIOUS
      <3>2. /\ [replay EXCEPT ![d] = replay[d] \cup notices[d]] \in [Device -> SUBSET Pair]
            /\ \A e \in Device : [replay EXCEPT ![d] = replay[d] \cup notices[d]][e] \subseteq PairsOf(e)
        <4>1. replay \in [Device -> SUBSET Pair]
          OBVIOUS
        <4> HIDE DEF TypeOK
        <4> QED
          BY <3>1, <4>1, OwnFacts
      <3> QED
        BY Zenon, <2>1, <3>1, <3>2
    <2>3. /\ notices' \in [Device -> SUBSET Pair]
          /\ \A e \in Device : notices'[e] \subseteq PairsOf(e)
      BY ZenonT(60), <2>1
    <2>4. dropped' \subseteq Pair
      <3>1. dropped' \in {dropped, dropped \cup notices[d]}
        BY Zenon, <1>5 DEF take_revoked_notices
      <3> QED
        BY <3>1
    <2> QED
      BY Zenon, <1>5, <2>2, <2>3, <2>4 DEF take_revoked_notices
  <1>6. CASE WriteReplay(d)
    BY <1>6 DEF WriteReplay
  <1>7. CASE OpenFails(d)
    <2>1. told' \in [Device -> SUBSET Pair] /\ dropped' \subseteq Pair
      <3>1. \/ told' = told /\ dropped' = dropped
            \/ \E sent \in SUBSET replay[d] :
                  /\ told' = [told EXCEPT ![d] = told[d] \cup sent]
                  /\ dropped' = dropped \cup (replay[d] \ sent)
        BY Zenon, <1>7 DEF OpenFails
      <3>2. \A sent \in SUBSET replay[d] : told[d] \cup sent \in SUBSET Pair
        OBVIOUS
      <3>3. \A sent \in SUBSET replay[d] : [told EXCEPT ![d] = told[d] \cup sent] \in [Device -> SUBSET Pair]
        BY <3>2, ExceptFacts
      <3>4. \A sent \in SUBSET replay[d] : dropped \cup (replay[d] \ sent) \subseteq Pair
        OBVIOUS
      <3>5. told \in [Device -> SUBSET Pair] /\ dropped \subseteq Pair
        OBVIOUS
      <3> HIDE DEF TypeOK
      <3> QED
        BY Zenon, <3>1, <3>3, <3>4, <3>5
    <2>2. Drop(d)
      BY <1>7 DEF OpenFails
    <2> QED
      BY <1>7, <2>1, <2>2, DropFacts DEF OpenFails
  <1>8. CASE Deliver(d)
    <2>1. mail' \in [Device -> Seq(Message)]
      BY <1>8 DEF Deliver
    <2>2. reload_peers(d) \/ ReloadFails(d)
      BY Zenon, <1>8 DEF Deliver
    <2>3. /\ cache' \in [Device -> SUBSET Pair]
          /\ \A e \in Device : cache'[e] \subseteq PairsOf(e)
          /\ missed' \subseteq Device
      <3>1. CASE reload_peers(d)
        BY <3>1, ReloadFacts
      <3>2. CASE ReloadFails(d)
        BY <3>2 DEF ReloadFails
      <3> QED
        BY Zenon, <2>2, <3>1, <3>2
    <2>4. Head(mail[d]) \in Message
      BY <1>8 DEF Deliver
    <2>5. Head(mail[d]).type = "pair_revoked" => Head(mail[d]).pair \in Pair
      BY <2>4 DEF Message
    <2>6. \/ told' = told
          \/ /\ Head(mail[d]).type = "pair_revoked"
             /\ told' = [told EXCEPT ![d] = told[d] \cup {Head(mail[d]).pair}]
      BY <1>8 DEF Deliver
    <2>7. told' \in [Device -> SUBSET Pair]
      <3>1. CASE told' = told
        BY <3>1
      <3>2. CASE /\ Head(mail[d]).type = "pair_revoked"
                 /\ told' = [told EXCEPT ![d] = told[d] \cup {Head(mail[d]).pair}]
        <4>1. told[d] \cup {Head(mail[d]).pair} \in SUBSET Pair
          BY <2>5, <3>2
        <4> QED
          BY <3>2, <4>1, ExceptFacts
      <3> QED
        BY <2>6, <3>1, <3>2
    <2>8. conn' = conn
      BY <1>8 DEF Deliver
    <2> QED
      BY <1>8, <2>1, <2>3, <2>7, <2>8 DEF Deliver
  <1>9. CASE Disconnect(d)
    BY <1>9, DropFacts DEF Disconnect
  <1>10. CASE is_peer_miss(d)
    BY <1>10, ReloadFacts DEF is_peer_miss
  <1>11. CASE LinkBack(d)
    <2>1. Append(mail[d], Resync) \in Seq(Message)
      BY MessageFacts
    <2>2. mail' \in [Device -> Seq(Message)]
      BY <1>11, <2>1, ExceptFacts DEF LinkBack
    <2> QED
      BY <1>11, <2>2 DEF LinkBack
  <1> HIDE DEF TypeOK, dbVars, connVars, sendVars, mailVars, noticeVars
  <1> QED
    BY Zenon, <1>1, <1>2, <1>3, <1>4, <1>5, <1>6, <1>7, <1>8, <1>9, <1>10, <1>11 DEF ConnStep

LEMMA LinkTypes ==
    ASSUME TypeOK, NEW d \in Device, NEW n \in Nat, LinkCut(d, n)
    PROVE  TypeOK'
  <1>0. mail \in [Device -> Seq(Message)] /\ cut \subseteq Device
    BY DEF TypeOK
  <1>1. SubSeq(mail[d], 1, Len(mail[d]) - n) \in Seq(Message)
    BY <1>0 DEF LinkCut
  <1>2. mail' \in [Device -> Seq(Message)] /\ cut' \subseteq Device
    BY <1>0, <1>1 DEF LinkCut
  <1> QED
    BY <1>2 DEF LinkCut, TypeOK, dbVars, sendVars, noticeVars

\* A call that ends halfway keeps the types.
LEMMA AbandonTypes ==
    ASSUME TypeOK, NEW h \in Handler, Abandon(h)
    PROVE  TypeOK'
  <1>0. task[h] \in Task
    BY DEF TypeOK
  <1>1. Owed(h) \subseteq Device
    <2>1. \A p \in Pair : EndA[p] \in Device /\ EndB[p] \in Device
      BY PairsAssumption
    <2>2. CASE task[h].at \in {"tell_a", "tell_peer", "tell_b"}
      <3>1. task[h].pair \in Pair
        BY <1>0, <2>2 DEF Task, PairSteps
      <3> QED
        BY <2>1, <2>2, <3>1 DEF Owed, Members
    <2>3. CASE task[h].at \in {"tell_me", "each", "tell_each"}
      <3>1. task[h].dev \in Device /\ task[h].held \subseteq Pair
        BY <1>0, <2>3 DEF Task, DeviceSteps
      <3> QED
        BY <2>1, <2>3, <3>1 DEF Owed, Peer
    <2>4. CASE task[h].at \notin {"tell_a", "tell_peer", "tell_b", "tell_me", "each", "tell_each"}
      BY <2>4 DEF Owed
    <2> QED
      BY <2>2, <2>3, <2>4
  <1>2. Unstored(h) \subseteq Pair
    BY <1>0 DEF Unstored, Task
  <1>3. task' \in [Handler -> Task]
    BY IdleFacts, ExceptFacts DEF Abandon, Respond, TypeOK
  <1>4. missed' \subseteq Device /\ dropped' \subseteq Pair
    BY <1>1, <1>2 DEF Abandon, TypeOK
  <1> QED
    BY <1>3, <1>4 DEF Abandon, TypeOK, dbVars, connVars

\* Every variable keeps its type, and a connection only ever holds pairs of its
\* own device: what the routes, the store and the relay connection pass to each
\* other is well formed, for any number of devices, pairs and calls.
THEOREM PairsTypeCorrect == Spec => []TypeOK
  <1>1. Init => TypeOK
    BY IdleFacts DEF Init, TypeOK
  <1>2. TypeOK /\ [Next]_vars => TypeOK'
    <2> SUFFICES ASSUME TypeOK, [Next]_vars
                 PROVE  TypeOK'
      OBVIOUS
    <2>1. ASSUME NEW h \in Handler, Call(h) \/ Continue(h)
          PROVE  TypeOK'
      BY <2>1, HandlerTypes
    <2>2. ASSUME NEW d \in Device, RegisterDevice(d)
          PROVE  TypeOK'
      BY <2>2 DEF RegisterDevice, TypeOK, connVars, mailVars, noticeVars
    <2>3. ASSUME NEW d \in Device, ConnStep(d) \/ LinkBack(d)
          PROVE  TypeOK'
      BY <2>3, ConnTypes
    <2>4. ASSUME NEW d \in Device, NEW n \in Nat, LinkCut(d, n)
          PROVE  TypeOK'
      BY <2>4, LinkTypes
    <2>5. ASSUME NEW d \in Device, delete_expired(d)
          PROVE  TypeOK'
      <3>1. /\ devices' \subseteq Device
            /\ pairs' \in [Pair -> {"absent", "valid", "revoked"}]
            /\ unchecked' \subseteq Pair
        BY <2>5 DEF delete_expired, TypeOK, Unrevoked, PairsOf
      <3> QED
        BY <2>5, <3>1 DEF delete_expired, TypeOK, connVars, mailVars, noticeVars
    <2>6. ASSUME NEW h \in Handler, Abandon(h)
          PROVE  TypeOK'
      BY <2>6, AbandonTypes
    <2>7. CASE UNCHANGED vars
      BY <2>7 DEF vars, dbVars, connVars, mailVars, noticeVars, TypeOK
    <2> QED
      BY <2>1, <2>2, <2>3, <2>4, <2>5, <2>6, <2>7 DEF Next
  <1> QED
    BY <1>1, <1>2, PTL DEF Spec

-----------------------------------------------------------------------------

\* A step changes only its own handler, and ReadPairs alone leads to "delete".
LEMMA OwnTask ==
    ASSUME task \in [Handler -> Task], NEW h \in Handler, Call(h) \/ Continue(h), ~ReadPairs(h)
    PROVE  /\ \A g \in Handler \ {h} : task'[g] = task[g]
           /\ task'[h].at # "delete"
  <1>0. task[h] \in Task
    OBVIOUS
  <1>1. ASSUME NEW p \in Pair, register(h, p)
        PROVE  task'[h].at # "delete" /\ \A g \in Handler \ {h} : task'[g] = task[g]
    BY <1>1 DEF register, Idle
  <1>2. ASSUME NEW p \in Pair, NEW d \in Device, revoke(h, p, d)
        PROVE  task'[h].at # "delete" /\ \A g \in Handler \ {h} : task'[g] = task[g]
    BY <1>2 DEF revoke, Idle
  <1>3. ASSUME NEW d \in Device, NEW body \in Bodies, delete_me(h, d, body)
        PROVE  task'[h].at # "delete" /\ \A g \in Handler \ {h} : task'[g] = task[g]
    BY <1>3 DEF delete_me, Idle
  <1>4. CASE Respond(h)
    BY <1>4 DEF Respond, Idle
  <1>5. ASSUME NEW s \in {"tell_a", "tell_b", "tell_peer", "tell_me"}, Goto(h, s)
        PROVE  task'[h].at # "delete" /\ \A g \in Handler \ {h} : task'[g] = task[g]
    BY <1>0, <1>5 DEF Goto, Task
  <1>6. CASE insert(h)
    BY <1>4, <1>5, <1>6 DEF insert
  <1>7. CASE TellA(h)
    BY <1>5, <1>7 DEF TellA
  <1>8. CASE TellB(h)
    BY <1>4, <1>8 DEF TellB
  <1>9. CASE Update(h)
    BY <1>4, <1>5, <1>9 DEF Update
  <1>10. CASE TellPeer(h)
    BY <1>5, <1>10 DEF TellPeer
  <1>11. CASE TellMe(h)
    BY <1>4, <1>11 DEF TellMe
  <1>12. CASE LockDevice(h)
    BY <1>0, <1>12 DEF LockDevice, Task
  <1>13. CASE DeleteDevice(h)
    BY <1>0, <1>13 DEF DeleteDevice, Task
  <1>14. ASSUME NEW p \in Pair, AddNotice(h, p)
         PROVE  task'[h].at # "delete" /\ \A g \in Handler \ {h} : task'[g] = task[g]
    BY <1>0, <1>14 DEF AddNotice, Task
  <1>15. ASSUME NEW p \in Pair, TellChanged(h, p)
         PROVE  task'[h].at # "delete" /\ \A g \in Handler \ {h} : task'[g] = task[g]
    BY <1>0, <1>15 DEF TellChanged, Task
  <1>16. CASE TellRevoked(h)
    BY <1>0, <1>16 DEF TellRevoked, Task
  <1>17. CASE TellClose(h)
    BY <1>4, <1>17 DEF TellClose
  <1> QED
    BY ZenonT(60), <1>1, <1>2, <1>3, <1>6, <1>7, <1>8, <1>9, <1>10, <1>11, <1>12, <1>13, <1>14, <1>15,
       <1>16, <1>17 DEF Call, Continue

\* The rows that keep a removal's reading valid: if the unrevoked pairs of every
\* device that is being removed stay the same, HeldIsComplete stays true.
LEMMA HeldFrame ==
    ASSUME HeldIsComplete, NEW h \in Handler,
           \A g \in Handler \ {h} : task'[g] = task[g],
           task'[h].at # "delete",
           \A g \in Handler \ {h} : task[g].at = "delete" /\ task[g].dev \in task[g].lock
               => \A p \in PairsOf(task[g].dev) : pairs'[p] = "valid" <=> pairs[p] = "valid"
    PROVE  HeldIsComplete'
  <1> SUFFICES ASSUME NEW g \in Handler, task'[g].at = "delete", task'[g].dev \in task'[g].lock
               PROVE  task'[g].held = Unrevoked(task[g].dev)'
    BY DEF HeldIsComplete
  <1>1. g # h /\ task'[g] = task[g]
    OBVIOUS
  <1>2. task[g].held = Unrevoked(task[g].dev)
    BY <1>1 DEF HeldIsComplete
  <1>3. \A p \in PairsOf(task[g].dev) : pairs'[p] = "valid" <=> pairs[p] = "valid"
    BY <1>1
  <1> QED
    BY <1>1, <1>2, <1>3 DEF Unrevoked, PairsOf, Members

\* A handler between "read" and its commit keeps all the unrevoked pairs of its
\* device: insert waits for the device's row, Update for the pair's, and another
\* removal for both.
LEMMA HeldHandler ==
    ASSUME pairs \in [Pair -> {"absent", "valid", "revoked"}], task \in [Handler -> Task],
           HeldIsComplete, NEW h \in Handler, Call(h) \/ Continue(h)
    PROVE  HeldIsComplete'
  <1>1. ASSUME ~ReadPairs(h),
               \A g \in Handler \ {h} : task[g].at = "delete" /\ task[g].dev \in task[g].lock
                   => \A p \in PairsOf(task[g].dev) : pairs'[p] = "valid" <=> pairs[p] = "valid"
        PROVE  HeldIsComplete'
    BY <1>1, OwnTask, HeldFrame
  <1>2. CASE insert(h)
    <2>1. ~ReadPairs(h)
      BY <1>2 DEF insert, ReadPairs
    <2>2. CASE pairs' = pairs
      BY <1>1, <2>1, <2>2
    <2>3. CASE /\ pairs' = [pairs EXCEPT ![task[h].pair] = "valid"]
               /\ \A d \in Members(task[h].pair) : ~DeviceLocked(d)
      <3>1. ASSUME NEW g \in Handler, task[g].dev \in task[g].lock
            PROVE  task[h].pair \notin PairsOf(task[g].dev)
        BY <2>3, <3>1 DEF PairsOf, DeviceLocked
      <3>2. ASSUME NEW g \in Handler, task[g].dev \in task[g].lock
            PROVE  \A p \in PairsOf(task[g].dev) : pairs'[p] = pairs[p]
        BY <2>3, <3>1, <3>2 DEF PairsOf
      <3> QED
        BY <1>1, <2>1, <3>2
    <2> QED
      BY <1>2, <2>2, <2>3 DEF insert
  <1>3. CASE Update(h)
    <2>1. ~ReadPairs(h)
      BY <1>3 DEF Update, ReadPairs
    <2>2. CASE pairs' = pairs
      BY <1>1, <2>1, <2>2
    <2>3. CASE /\ pairs' = [pairs EXCEPT ![task[h].pair] = "revoked"]
               /\ pairs[task[h].pair] = "valid"
               /\ ~PairLocked(task[h].pair)
      <3>1. ASSUME NEW g \in Handler, task[g].at = "delete", task[g].dev \in task[g].lock
            PROVE  task[h].pair \notin PairsOf(task[g].dev)
        BY <2>3, <3>1 DEF HeldIsComplete, PairLocked, Unrevoked
      <3>2. ASSUME NEW g \in Handler, task[g].at = "delete", task[g].dev \in task[g].lock
            PROVE  \A p \in PairsOf(task[g].dev) : pairs'[p] = pairs[p]
        BY <2>3, <3>1, <3>2 DEF PairsOf
      <3> QED
        BY <1>1, <2>1, <3>2
    <2> QED
      BY <1>3, <2>2, <2>3 DEF Update
  <1>4. CASE DeleteDevice(h)
    <2>1. ~ReadPairs(h)
      BY <1>4 DEF DeleteDevice, ReadPairs
    <2>2. \A p \in Pair : pairs'[p] = IF p \in PairsOf(task[h].dev) THEN "absent" ELSE pairs[p]
      BY <1>4 DEF DeleteDevice
    <2>3. ASSUME NEW g \in Handler \ {h}, task[g].at = "delete", task[g].dev \in task[g].lock,
                 NEW p \in PairsOf(task[g].dev)
          PROVE  pairs'[p] = "valid" <=> pairs[p] = "valid"
      <3>1. p \in Pair
        BY DEF PairsOf
      <3>2. CASE p \in PairsOf(task[h].dev)
        <4>1. p \notin task[g].held
          BY <1>4, <2>3, <3>2 DEF DeleteDevice
        <4>2. pairs[p] # "valid"
          BY <2>3, <4>1 DEF HeldIsComplete, Unrevoked
        <4> QED
          BY <2>2, <3>1, <3>2, <4>2
      <3>3. CASE p \notin PairsOf(task[h].dev)
        BY <2>2, <3>1, <3>3
      <3> QED
        BY <3>2, <3>3
    <2> QED
      BY <1>1, <2>1, <2>3
  <1>5. CASE ReadPairs(h)
    <2> DEFINE held == Unrevoked(task[h].dev)
    <2>1. CASE task' = [task EXCEPT ![h].at = "delete", ![h].held = held]
      <3>1. \A g \in Handler \ {h} : task'[g] = task[g]
        BY <2>1
      <3>2. task[h] \in Task
        OBVIOUS
      <3>3. task'[h].held = held /\ task'[h].dev = task[h].dev
        BY <2>1, <3>2 DEF Task
      <3>4. pairs' = pairs
        BY <1>5 DEF ReadPairs, dbVars
      <3>5. \A d : Unrevoked(d)' = Unrevoked(d)
        BY <3>4 DEF Unrevoked, PairsOf, Members
      <3> QED
        BY <3>1, <3>3, <3>5 DEF HeldIsComplete
    <2>2. CASE Respond(h)
      <3>1. task'[h].at # "delete" /\ \A g \in Handler \ {h} : task'[g] = task[g]
        BY <2>2 DEF Respond, Idle
      <3>2. pairs' = pairs
        BY <1>5 DEF ReadPairs, dbVars
      <3> QED
        BY <3>1, <3>2, HeldFrame
    <2> QED
      BY <1>5, <2>1, <2>2 DEF ReadPairs
  <1>6. CASE pairs' = pairs
    BY <1>1, <1>5, <1>6
  <1>7. insert(h) \/ Update(h) \/ DeleteDevice(h) \/ pairs' = pairs
    BY ZenonT(60) DEF Call, Continue, register, revoke, delete_me, TellA, TellB, TellPeer, TellMe, LockDevice,
           ReadPairs, AddNotice, TellChanged, TellRevoked, TellClose, dbVars
  <1> QED
    BY <1>2, <1>3, <1>4, <1>6, <1>7

\* delete_with_peers never removes an unrevoked pair it has not checked, once it
\* holds the lock on the row of its device.
THEOREM HeldAlwaysComplete == Spec => []HeldIsComplete
  <1>1. Init => HeldIsComplete
    BY DEF Init, HeldIsComplete, Idle
  <1>2. TypeOK /\ HeldIsComplete /\ [Next]_vars => HeldIsComplete'
    <2> SUFFICES ASSUME TypeOK, HeldIsComplete, [Next]_vars
                 PROVE  HeldIsComplete'
      OBVIOUS
    <2>1. ASSUME NEW h \in Handler, Call(h) \/ Continue(h)
          PROVE  HeldIsComplete'
      BY <2>1, HeldHandler DEF TypeOK
    <2>2. ASSUME pairs' = pairs /\ task' = task
          PROVE  HeldIsComplete'
      BY <2>2 DEF HeldIsComplete, Unrevoked, PairsOf, Members
    <2>3. ASSUME NEW d \in Device, RegisterDevice(d)
          PROVE  HeldIsComplete'
      BY <2>2, <2>3 DEF RegisterDevice
    <2>4. ASSUME NEW d \in Device, ConnStep(d) \/ LinkBack(d)
          PROVE  HeldIsComplete'
      BY ZenonT(60), <2>2, <2>4 DEF ConnStep, LinkBack, Connect, Subscribe, LoadPeers, ReadRevoked,
         take_revoked_notices, WriteReplay, OpenFails, Deliver, Disconnect, is_peer_miss, dbVars
    <2>5. ASSUME NEW d \in Device, NEW n \in Nat, LinkCut(d, n)
          PROVE  HeldIsComplete'
      BY <2>2, <2>5 DEF LinkCut, dbVars
    <2>6. ASSUME NEW d \in Device, delete_expired(d)
          PROVE  HeldIsComplete'
      <3>1. task' = task /\ \A p \in Pair : ~PairLocked(p) \/ p \notin PairsOf(d)
        BY <2>6 DEF delete_expired
      <3>2. \A p \in Pair : pairs'[p] = IF p \in PairsOf(d) THEN "absent" ELSE pairs[p]
        BY <2>6 DEF delete_expired
      <3>3. ASSUME NEW h \in Handler, task[h].at = "delete", task[h].dev \in task[h].lock,
                   NEW p \in PairsOf(task[h].dev)
            PROVE  pairs'[p] = "valid" <=> pairs[p] = "valid"
        <4>1. p \in Pair
          BY DEF PairsOf
        <4>2. pairs[p] = "valid" => PairLocked(p)
          BY <3>3, <4>1 DEF HeldIsComplete, Unrevoked, PairLocked
        <4> QED
          BY <3>1, <3>2, <4>1, <4>2
      <3>4. ASSUME NEW h \in Handler, task[h].at = "delete", task[h].dev \in task[h].lock
            PROVE  Unrevoked(task[h].dev)' = Unrevoked(task[h].dev)
        BY <3>1, <3>3, <3>4 DEF Unrevoked, PairsOf, Members
      <3> QED
        BY <3>1, <3>4 DEF HeldIsComplete
    <2>7. ASSUME NEW h \in Handler, Abandon(h)
          PROVE  HeldIsComplete'
      <3>1. pairs' = pairs
        BY <2>7 DEF Abandon, dbVars
      <3>2. task'[h].at # "delete" /\ \A g \in Handler \ {h} : task'[g] = task[g]
        BY <2>7 DEF Abandon, Respond, Idle, TypeOK
      <3> QED
        BY <3>1, <3>2, HeldFrame DEF TypeOK
    <2>8. CASE UNCHANGED vars
      BY <2>2, <2>8 DEF vars, dbVars
    <2> QED
      BY <2>1, <2>3, <2>4, <2>5, <2>6, <2>7, <2>8 DEF Next
  <1> QED
    BY <1>1, <1>2, PairsTypeCorrect, PTL DEF Spec
-----------------------------------------------------------------------------
(* What the connections are told.  From here on a leaf that names no prover *)
(* is left to Zenon.                                                       *)
USE Zenon

\* What a call works on is its own: the caller of revoke is a member of the
\* pair, and the pairs a removal holds are those of its device.
OwnWork(t) ==
    /\ t.at \in {"update", "tell_peer", "tell_me"} => t.dev \in Members(t.pair)
    /\ t.at \in {"delete", "each", "tell_each"} => t.held \subseteq PairsOf(t.dev)
    /\ t.at = "tell_each" => t.pair \in t.held

\* A connection has no pairs before it loads them, and statements to write
\* only while it opens.
Opening ==
    \A d \in Device :
        /\ conn[d] \in {"off", "accepted", "subscribed"} => cache[d] = {}
        /\ conn[d] \notin {"read", "taken"} => replay[d] = {}

\* The removal t has yet to store the statement of p.
Keeps(t, p) ==
    /\ t.at \in {"each", "tell_each"}
    /\ t.body.revoke
    /\ p \in t.held
    /\ t.at = "tell_each" => t.pair # p

\* RemovalReachesPeer, with the handler that has yet to store the statement.
Reached ==
    \A p \in Pair : removedBy[p] # None /\ p \notin dropped =>
        \/ LET d == Peer(p, removedBy[p]) IN p \in told[d] \cup notices[d] \cup replay[d]
        \/ \E h \in Handler : Keeps(task[h], p) /\ task[h].dev = removedBy[p]

ToldInv ==
    /\ \A h \in Handler : OwnWork(task[h])
    /\ Opening
    /\ StaleCacheIsNotified
    /\ Reached

-----------------------------------------------------------------------------

\* notify: no queue shrinks, and a connection that is subscribed gets the
\* message, has lost its link or misses it.
LEMMA NotifyReaches ==
    ASSUME mail \in [Device -> Seq(Message)],
           NEW d \in Device, NEW m \in Message, notify(d, m)
    PROVE  /\ \A e \in Device : mail[e] # <<>> => mail'[e] # <<>>
           /\ missed \subseteq missed'
           /\ conn[d] \notin {"off", "accepted"} => mail'[d] # <<>> \/ d \in cut \cup missed'
  <1>1. CASE missed' = missed \cup {d} /\ mail' = mail
    BY <1>1
  <1>2. CASE missed' = missed /\ mail' = mail /\ (conn[d] \in {"off", "accepted"} \/ d \in cut)
    BY <1>2
  <1>3. CASE missed' = missed /\ mail' = [mail EXCEPT ![d] = Append(mail[d], m)]
    <2>1. mail[d] \in Seq(Message)
      OBVIOUS
    <2>2. Append(mail[d], m) # <<>>
      BY SMT, <2>1
    <2> QED
      BY <1>3, <2>2
  <1> QED
    BY <1>1, <1>2, <1>3 DEF notify

\* A step of the handler h keeps StaleCacheIsNotified if whoever it stops owing
\* a message has got it, and it owes one for every pair it makes invalid.
LEMMA StaleFrame ==
    ASSUME StaleCacheIsNotified, NEW h \in Handler, cache' = cache, cut' = cut,
           \A g \in Handler \ {h} : task'[g] = task[g],
           \A e \in Device : mail[e] # <<>> => mail'[e] # <<>>,
           missed \subseteq missed',
           \A e \in Device, p \in Pair : p \in cache[e] /\ pairs'[p] # "valid" /\ p \notin unchecked'
               => (pairs[p] # "valid" /\ p \notin unchecked) \/ Notifies(task'[h], p, e),
           \A e \in Device, p \in Pair : p \in cache[e] /\ Notifies(task[h], p, e)
               => Notifies(task'[h], p, e) \/ mail'[e] # <<>> \/ e \in cut \cup missed'
    PROVE  StaleCacheIsNotified'
  <1> SUFFICES ASSUME NEW e \in Device, NEW p \in Pair,
                      p \in cache[e], pairs'[p] # "valid", p \notin unchecked'
               PROVE  mail'[e] # <<>> \/ e \in cut \cup missed' \/ \E g \in Handler : Notifies(task'[g], p, e)
    BY DEF StaleCacheIsNotified, Notifying
  <1>1. CASE Notifies(task'[h], p, e)
    BY <1>1
  <1>2. CASE pairs[p] # "valid" /\ p \notin unchecked
    <2>1. mail[e] # <<>> \/ e \in cut \cup missed \/ \E g \in Handler : Notifies(task[g], p, e)
      BY <1>2 DEF StaleCacheIsNotified, Notifying
    <2>2. ASSUME NEW g \in Handler, Notifies(task[g], p, e)
          PROVE  mail'[e] # <<>> \/ e \in cut \cup missed' \/ Notifies(task'[g], p, e)
      <3>1. CASE g = h
        BY <2>2, <3>1
      <3>2. CASE g # h
        BY <2>2, <3>2
      <3> QED
        BY <3>1, <3>2
    <2> QED
      BY <2>1, <2>2
  <1> QED
    BY <1>1, <1>2

\* It keeps Reached if it holds or has stored what it has yet to tell.
LEMMA ReachedFrame ==
    ASSUME Reached, NEW h \in Handler, replay' = replay,
           \A g \in Handler \ {h} : task'[g] = task[g],
           \A p \in Pair : removedBy'[p] # None /\ p \notin dropped' =>
              \/ Keeps(task'[h], p) /\ task'[h].dev = removedBy'[p]
              \/ /\ removedBy'[p] = removedBy[p] /\ p \notin dropped
                 /\ \A d \in Device : p \in told[d] \cup notices[d] => p \in told'[d] \cup notices'[d]
                 /\ Keeps(task[h], p) => \/ Keeps(task'[h], p) /\ task'[h].dev = task[h].dev
                                         \/ p \in notices'[Peer(p, task[h].dev)]
    PROVE  Reached'
  <1> SUFFICES ASSUME NEW p \in Pair, removedBy'[p] # None, p \notin dropped'
               PROVE  \/ LET d == Peer(p, removedBy'[p]) IN p \in told'[d] \cup notices'[d] \cup replay'[d]
                      \/ \E g \in Handler : Keeps(task'[g], p) /\ task'[g].dev = removedBy'[p]
    BY DEF Reached
  <1>1. CASE Keeps(task'[h], p) /\ task'[h].dev = removedBy'[p]
    BY <1>1
  <1>2. CASE /\ removedBy'[p] = removedBy[p] /\ p \notin dropped
             /\ \A d \in Device : p \in told[d] \cup notices[d] => p \in told'[d] \cup notices'[d]
             /\ Keeps(task[h], p) => \/ Keeps(task'[h], p) /\ task'[h].dev = task[h].dev
                                     \/ p \in notices'[Peer(p, task[h].dev)]
    <2>1. \/ p \in told[Peer(p, removedBy[p])] \cup notices[Peer(p, removedBy[p])] \cup replay[Peer(p, removedBy[p])]
          \/ \E g \in Handler : Keeps(task[g], p) /\ task[g].dev = removedBy[p]
      BY <1>2 DEF Reached
    <2>2. ASSUME NEW g \in Handler, Keeps(task[g], p), task[g].dev = removedBy[p]
          PROVE  \/ p \in notices'[Peer(p, removedBy[p])]
                 \/ Keeps(task'[g], p) /\ task'[g].dev = removedBy[p]
      <3>1. CASE g = h
        BY <1>2, <2>2, <3>1
      <3>2. CASE g # h
        BY <2>2, <3>2
      <3> QED
        BY <3>1, <3>2
    <2>3. Peer(p, removedBy[p]) \in Device
      BY PairsAssumption DEF Peer
    <2> QED
      BY <1>2, <2>1, <2>2, <2>3
  <1> QED
    BY <1>1, <1>2

\* A step of a handler leaves the others alone.
LEMMA OthersSame ==
    ASSUME task \in [Handler -> Task], NEW h \in Handler, Call(h) \/ Continue(h) \/ Abandon(h)
    PROVE  \A g \in Handler \ {h} : task'[g] = task[g]
  <1>1. CASE ReadPairs(h)
    <2>1. CASE task' = [task EXCEPT ![h].at = "delete", ![h].held = Unrevoked(task[h].dev)]
      BY <2>1
    <2>2. CASE Respond(h)
      BY <2>2 DEF Respond
    <2> QED
      BY <1>1, <2>1, <2>2 DEF ReadPairs
  <1>2. CASE (Call(h) \/ Continue(h)) /\ ~ReadPairs(h)
    BY <1>2, OwnTask
  <1>3. CASE Abandon(h)
    BY <1>3 DEF Abandon, Respond
  <1> QED
    BY <1>1, <1>2, <1>3

\* The connections are not touched by it.
LEMMA HandlerFrame ==
    ASSUME ToldInv, NEW h \in Handler, UNCHANGED <<conn, cache, replay>>,
           \A g \in Handler \ {h} : task'[g] = task[g],
           OwnWork(task'[h]), StaleCacheIsNotified', Reached'
    PROVE  ToldInv'
  <1>1. Opening'
    BY DEF ToldInv, Opening
  <1>2. \A g \in Handler : OwnWork(task'[g])
    BY DEF ToldInv
  <1> QED
    BY <1>1, <1>2 DEF ToldInv

\* A call that owes nobody anything yet.
LEMMA QuietStep ==
    ASSUME ToldInv, NEW h \in Handler, UNCHANGED <<conn, cut, cache, replay>>,
           \A g \in Handler \ {h} : task'[g] = task[g],
           task[h].at \notin {"tell_peer", "tell_me", "each", "tell_each"},
           OwnWork(task'[h]),
           \A e \in Device : mail[e] # <<>> => mail'[e] # <<>>,
           missed \subseteq missed',
           \A e \in Device, p \in Pair : p \in cache[e] /\ pairs'[p] # "valid" /\ p \notin unchecked'
               => (pairs[p] # "valid" /\ p \notin unchecked) \/ Notifies(task'[h], p, e),
           UNCHANGED <<removedBy, told, notices, dropped>>
    PROVE  ToldInv'
  <1>1. /\ \A p, e : ~Notifies(task[h], p, e)
        /\ \A p : ~Keeps(task[h], p)
    BY DEF Notifies, Keeps
  <1>2. StaleCacheIsNotified /\ Reached
    BY DEF ToldInv
  <1>3. StaleCacheIsNotified'
    BY <1>1, <1>2, StaleFrame
  <1>4. Reached'
    BY <1>1, <1>2, ReachedFrame
  <1> QED
    BY <1>3, <1>4, HandlerFrame

\* The first step of a call.
LEMMA ToldCall ==
    ASSUME TypeOK, ToldInv, NEW h \in Handler, Call(h)
    PROVE  ToldInv'
  <1>1. \A g \in Handler \ {h} : task'[g] = task[g]
    BY OthersSame DEF TypeOK
  <1>2. ASSUME task[h].at = "idle", OwnWork(task'[h]),
               UNCHANGED <<dbVars, noticeVars, mailVars, connVars>>
        PROVE  ToldInv'
    <2>1. /\ UNCHANGED <<conn, cut, cache, replay>> /\ UNCHANGED <<removedBy, told, notices, dropped>>
          /\ pairs' = pairs /\ unchecked' = unchecked /\ mail' = mail /\ missed' = missed
      BY <1>2 DEF dbVars, noticeVars, mailVars, connVars
    <2> QED
      BY <1>1, <1>2, <2>1, QuietStep
  <1>3. ASSUME NEW p \in Pair, register(h, p)
        PROVE  ToldInv'
    <2>1. task'[h].at = "insert"
      BY <1>3 DEF register, TypeOK, Idle
    <2> QED
      BY <1>2, <1>3, <2>1 DEF register, OwnWork
  <1>4. ASSUME NEW p \in Pair, NEW d \in Device, revoke(h, p, d)
        PROVE  ToldInv'
    <2>1. task'[h].at = "update" /\ task'[h].pair = p /\ task'[h].dev = d
      BY <1>4 DEF revoke, TypeOK, Idle
    <2> QED
      BY <1>2, <1>4, <2>1 DEF revoke, OwnWork
  <1>5. ASSUME NEW d \in Device, NEW body \in Bodies, delete_me(h, d, body)
        PROVE  ToldInv'
    <2>1. task'[h].at = "lock"
      BY <1>5 DEF delete_me, TypeOK, Idle
    <2> QED
      BY <1>2, <1>5, <2>1 DEF delete_me, OwnWork
  <1> QED
    BY <1>3, <1>4, <1>5 DEF Call

\* The steps of register and the locks of a removal.
LEMMA ToldQuiet ==
    ASSUME TypeOK, ToldInv, NEW h \in Handler,
           TellA(h) \/ TellB(h) \/ LockDevice(h) \/ ReadPairs(h)
    PROVE  ToldInv'
  <1>0. task \in [Handler -> Task] /\ task[h] \in Task /\ mail \in [Device -> Seq(Message)]
    BY DEF TypeOK
  <1>1. \A g \in Handler \ {h} : task'[g] = task[g]
    BY <1>0, OthersSame DEF Continue
  <1>2. ASSUME task[h].at \in {"tell_a", "tell_b", "lock", "read"}, OwnWork(task'[h]),
               UNCHANGED <<dbVars, noticeVars, connVars>>,
               \A e \in Device : mail[e] # <<>> => mail'[e] # <<>>,
               missed \subseteq missed'
        PROVE  ToldInv'
    <2>1. /\ UNCHANGED <<conn, cut, cache, replay>> /\ UNCHANGED <<removedBy, told, notices, dropped>>
          /\ pairs' = pairs /\ unchecked' = unchecked
      BY <1>2 DEF dbVars, noticeVars, connVars
    <2> QED
      BY <1>1, <1>2, <2>1, QuietStep
  <1>3. CASE TellA(h)
    <2>1. task'[h].at = "tell_b"
      BY <1>0, <1>3 DEF TellA, Goto, Task
    <2>2. task[h].at = "tell_a" /\ task[h].pair \in Pair
      BY <1>0, <1>3, TaskFacts DEF TellA, PairSteps
    <2>3. EndA[task[h].pair] \in Device /\ notify(EndA[task[h].pair], PairsChanged)
      BY <1>3, <2>2, PairsAssumption DEF TellA
    <2>4. (\A e \in Device : mail[e] # <<>> => mail'[e] # <<>>) /\ missed \subseteq missed'
      BY <1>0, <2>3, NotifyReaches, MessageFacts
    <2>5. UNCHANGED <<dbVars, noticeVars, connVars>>
      BY <1>3 DEF TellA
    <2> QED
      BY <1>2, <2>1, <2>2, <2>4, <2>5 DEF OwnWork
  <1>4. CASE TellB(h)
    <2>1. task'[h].at = "idle"
      BY <1>0, <1>4 DEF TellB, Respond, Idle
    <2>2. task[h].at = "tell_b" /\ task[h].pair \in Pair
      BY <1>0, <1>4, TaskFacts DEF TellB, PairSteps
    <2>3. EndB[task[h].pair] \in Device /\ notify(EndB[task[h].pair], PairsChanged)
      BY <1>4, <2>2, PairsAssumption DEF TellB
    <2>4. (\A e \in Device : mail[e] # <<>> => mail'[e] # <<>>) /\ missed \subseteq missed'
      BY <1>0, <2>3, NotifyReaches, MessageFacts
    <2>5. UNCHANGED <<dbVars, noticeVars, connVars>>
      BY <1>4 DEF TellB
    <2> QED
      BY <1>2, <2>1, <2>2, <2>4, <2>5 DEF OwnWork
  <1>5. CASE LockDevice(h)
    <2>1. task'[h].at = "read" /\ task[h].at = "lock"
      BY <1>0, <1>5 DEF LockDevice, Task
    <2>2. UNCHANGED <<dbVars, noticeVars, connVars>> /\ mail' = mail /\ missed' = missed
      BY <1>5 DEF LockDevice, mailVars
    <2> QED
      BY <1>2, <2>1, <2>2 DEF OwnWork
  <1>6. CASE ReadPairs(h)
    <2>1. UNCHANGED <<dbVars, noticeVars, connVars>> /\ mail' = mail /\ missed' = missed
          /\ task[h].at = "read"
      BY <1>6 DEF ReadPairs, mailVars
    <2>2. OwnWork(task'[h])
      <3>1. CASE task' = [task EXCEPT ![h].at = "delete", ![h].held = Unrevoked(task[h].dev)]
        <4>1. task'[h].at = "delete" /\ task'[h].held = Unrevoked(task[h].dev) /\ task'[h].dev = task[h].dev
          BY <1>0, <3>1 DEF Task
        <4> QED
          BY <4>1 DEF OwnWork, Unrevoked
      <3>2. CASE Respond(h)
        BY <1>0, <3>2 DEF Respond, Idle, OwnWork
      <3> QED
        BY <1>6, <3>1, <3>2 DEF ReadPairs
    <2> QED
      BY <1>2, <2>1, <2>2
  <1> QED
    BY <1>3, <1>4, <1>5, <1>6

\* insert: a new pair starts without a statement.
LEMMA ToldInsert ==
    ASSUME TypeOK, ToldInv, NEW h \in Handler, insert(h)
    PROVE  ToldInv'
  <1> DEFINE q == task[h].pair
  <1>0. task \in [Handler -> Task] /\ task[h] \in Task /\ task[h].at = "insert" /\ q \in Pair
    BY TaskFacts DEF TypeOK, insert, PairSteps
  <1>1. \A g \in Handler \ {h} : task'[g] = task[g]
    BY <1>0, OthersSame DEF Continue
  <1>2. UNCHANGED <<conn, cut, cache, replay>> /\ notices' = notices /\ mail' = mail /\ missed' = missed
    BY DEF insert, mailVars
  <1>3. OwnWork(task'[h])
    <2>1. CASE Goto(h, "tell_a")
      BY <1>0, <2>1 DEF Goto, Task, OwnWork
    <2>2. CASE Respond(h)
      BY <1>0, <2>2 DEF Respond, Idle, OwnWork
    <2> QED
      BY <2>1, <2>2 DEF insert
  <1>4. CASE UNCHANGED <<pairs, revokedBy, removedBy, unchecked, told, dropped>>
    BY <1>0, <1>1, <1>2, <1>3, <1>4, QuietStep
  <1>5. CASE /\ pairs' = [pairs EXCEPT ![q] = "valid"]
             /\ removedBy' = [removedBy EXCEPT ![q] = None]
             /\ unchecked' = unchecked \ {q}
             /\ told' = [d \in Device |-> told[d] \ {q}]
             /\ dropped' = dropped \ {q}
    <2>1. /\ \A p, e : ~Notifies(task[h], p, e)
          /\ \A p : ~Keeps(task[h], p)
      BY <1>0 DEF Notifies, Keeps
    <2>2. StaleCacheIsNotified /\ Reached
      BY DEF ToldInv
    <2>3. StaleCacheIsNotified'
      <3>1. \A e \in Device, p \in Pair : p \in cache[e] /\ pairs'[p] # "valid" /\ p \notin unchecked'
               => pairs[p] # "valid" /\ p \notin unchecked
        BY <1>0, <1>5 DEF TypeOK
      <3> QED
        BY <1>1, <1>2, <2>1, <2>2, <3>1, StaleFrame
    <2>4. Reached'
      <3> SUFFICES ASSUME NEW p \in Pair, removedBy'[p] # None, p \notin dropped'
                   PROVE  \/ LET d == Peer(p, removedBy'[p])
                             IN p \in told'[d] \cup notices'[d] \cup replay'[d]
                          \/ \E g \in Handler : Keeps(task'[g], p) /\ task'[g].dev = removedBy'[p]
        BY DEF Reached
      <3>1. p # q /\ removedBy'[p] = removedBy[p] /\ p \notin dropped /\ removedBy[p] \in Device
        BY <1>0, <1>5 DEF TypeOK
      <3>2. \/ p \in told[Peer(p, removedBy[p])] \cup notices[Peer(p, removedBy[p])] \cup replay[Peer(p, removedBy[p])]
            \/ \E g \in Handler : Keeps(task[g], p) /\ task[g].dev = removedBy[p]
        BY <2>2, <3>1 DEF Reached
      <3>3. Peer(p, removedBy[p]) \in Device
        BY <3>1, PeerFacts
      <3>4. p \in told[Peer(p, removedBy[p])] => p \in told'[Peer(p, removedBy[p])]
        BY <1>5, <3>1, <3>3
      <3>5. ASSUME NEW g \in Handler, Keeps(task[g], p) /\ task[g].dev = removedBy[p]
            PROVE  Keeps(task'[g], p) /\ task'[g].dev = removedBy[p]
        BY <1>1, <2>1, <3>5
      <3> QED
        BY <1>2, <3>1, <3>2, <3>4, <3>5
    <2> QED
      BY <1>1, <1>2, <1>3, <2>3, <2>4, HandlerFrame
  <1> QED
    BY <1>4, <1>5 DEF insert

\* revoke: once the row is changed the call owes both members a message.
LEMMA ToldUpdate ==
    ASSUME TypeOK, ToldInv, NEW h \in Handler, Update(h)
    PROVE  ToldInv'
  <1> DEFINE q == task[h].pair
  <1>0. /\ task \in [Handler -> Task] /\ task[h] \in Task /\ task[h].at = "update" /\ q \in Pair
        /\ OwnWork(task[h])
    BY TaskFacts DEF TypeOK, Update, PairSteps, ToldInv
  <1>1. \A g \in Handler \ {h} : task'[g] = task[g]
    BY <1>0, OthersSame DEF Continue
  <1>2. /\ UNCHANGED <<conn, cut, cache, replay>> /\ UNCHANGED <<removedBy, told, notices, dropped>>
        /\ unchecked' = unchecked /\ mail' = mail /\ missed' = missed
    BY DEF Update, mailVars, noticeVars, connVars
  <1>3. CASE pairs' = [pairs EXCEPT ![q] = "revoked"] /\ Goto(h, "tell_peer")
    <2>1. task'[h].at = "tell_peer" /\ task'[h].pair = q /\ task'[h].dev = task[h].dev
      BY <1>0, <1>3 DEF Goto, Task
    <2>2. OwnWork(task'[h])
      BY <1>0, <2>1 DEF OwnWork
    <2>3. \A e \in Device : Notifies(task'[h], q, e)
      BY <2>1 DEF Notifies
    <2>4. \A e \in Device, p \in Pair : p \in cache[e] /\ pairs'[p] # "valid" /\ p \notin unchecked'
               => (pairs[p] # "valid" /\ p \notin unchecked) \/ Notifies(task'[h], p, e)
      BY <1>0, <1>2, <1>3, <2>3 DEF TypeOK
    <2> QED
      BY <1>0, <1>1, <1>2, <2>2, <2>4, QuietStep
  <1>4. CASE pairs' = pairs /\ Respond(h)
    <2>1. OwnWork(task'[h])
      BY <1>0, <1>4 DEF Respond, Idle, OwnWork
    <2> QED
      BY <1>0, <1>1, <1>2, <1>4, <2>1, QuietStep
  <1> QED
    BY <1>3, <1>4 DEF Update

\* A connection that routes for a pair is subscribed.
LEMMA RoutingIsSubscribed ==
    ASSUME ToldInv, NEW e \in Device, NEW p \in cache[e]
    PROVE  conn[e] \notin {"off", "accepted"}
  BY DEF ToldInv, Opening

\* The messages of revoke.
LEMMA ToldRevoke ==
    ASSUME TypeOK, ToldInv, NEW h \in Handler, TellPeer(h) \/ TellMe(h)
    PROVE  ToldInv'
  <1> DEFINE q == task[h].pair
             me == task[h].dev
  <1>0. /\ task \in [Handler -> Task] /\ task[h] \in Task /\ task[h].at \in {"tell_peer", "tell_me"}
        /\ q \in Pair /\ me \in Device /\ OwnWork(task[h]) /\ mail \in [Device -> Seq(Message)]
        /\ \A e \in Device : cache[e] \subseteq PairsOf(e)
    BY TaskFacts DEF TypeOK, TellPeer, TellMe, PairSteps, DeviceSteps, ToldInv
  <1>1. \A g \in Handler \ {h} : task'[g] = task[g]
    BY <1>0, OthersSame DEF Continue
  <1>2. /\ UNCHANGED <<conn, cut, cache, replay>> /\ UNCHANGED <<removedBy, told, notices, dropped>>
        /\ pairs' = pairs /\ unchecked' = unchecked
    BY DEF TellPeer, TellMe, dbVars, noticeVars, connVars
  <1>3. me \in Members(q)
    BY <1>0 DEF OwnWork
  <1>4. StaleCacheIsNotified /\ Reached /\ \A p : ~Keeps(task[h], p)
    BY <1>0 DEF ToldInv, Keeps
  <1>5. Reached'
    BY <1>1, <1>2, <1>4, ReachedFrame
  <1>6. CASE TellPeer(h)
    <2>1. task[h].at = "tell_peer" /\ task'[h].at = "tell_me" /\ task'[h].pair = q /\ task'[h].dev = me
      BY <1>0, <1>6 DEF TellPeer, Goto, Task
    <2>2. Peer(q, me) \in Device /\ PairRevoked(q) \in Message /\ notify(Peer(q, me), PairRevoked(q))
      BY <1>0, <1>6, PeerFacts, MessageFacts DEF TellPeer
    <2>3. /\ \A e \in Device : mail[e] # <<>> => mail'[e] # <<>>
          /\ missed \subseteq missed'
          /\ conn[Peer(q, me)] \notin {"off", "accepted"}
                => mail'[Peer(q, me)] # <<>> \/ Peer(q, me) \in cut \cup missed'
      BY <1>0, <2>2, NotifyReaches
    <2>4. ASSUME NEW e \in Device, NEW p \in Pair, p \in cache[e], Notifies(task[h], p, e)
          PROVE  Notifies(task'[h], p, e) \/ mail'[e] # <<>> \/ e \in cut \cup missed'
      <3>1. p = q
        BY <2>1, <2>4 DEF Notifies
      <3>2. e = me \/ e = Peer(q, me)
        BY <1>0, <1>3, <2>4, <3>1 DEF PairsOf, Members, Peer
      <3>3. CASE e = me
        BY <2>1, <3>1, <3>3 DEF Notifies
      <3>4. CASE e = Peer(q, me)
        BY <2>3, <2>4, <3>4, RoutingIsSubscribed
      <3> QED
        BY <3>2, <3>3, <3>4
    <2>5. StaleCacheIsNotified'
      BY <1>1, <1>2, <1>4, <2>3, <2>4, StaleFrame
    <2>6. OwnWork(task'[h])
      BY <1>3, <2>1 DEF OwnWork
    <2> QED
      BY <1>1, <1>2, <1>5, <2>5, <2>6, HandlerFrame
  <1>7. CASE TellMe(h)
    <2>1. task[h].at = "tell_me" /\ OwnWork(task'[h])
      BY <1>0, <1>7 DEF TellMe, Respond, Idle, OwnWork
    <2>2. PairsChanged \in Message /\ notify(me, PairsChanged)
      BY <1>7, MessageFacts DEF TellMe
    <2>3. /\ \A e \in Device : mail[e] # <<>> => mail'[e] # <<>>
          /\ missed \subseteq missed'
          /\ conn[me] \notin {"off", "accepted"} => mail'[me] # <<>> \/ me \in cut \cup missed'
      BY <1>0, <2>2, NotifyReaches
    <2>4. ASSUME NEW e \in Device, NEW p \in Pair, p \in cache[e], Notifies(task[h], p, e)
          PROVE  mail'[e] # <<>> \/ e \in cut \cup missed'
      <3>1. e = me
        BY <2>1, <2>4 DEF Notifies
      <3> QED
        BY <2>3, <2>4, <3>1, RoutingIsSubscribed
    <2>5. StaleCacheIsNotified'
      BY <1>1, <1>2, <1>4, <2>3, <2>4, StaleFrame
    <2> QED
      BY <1>1, <1>2, <1>5, <2>1, <2>5, HandlerFrame
  <1> QED
    BY <1>6, <1>7

\* The commit of a removal: the call owes everyone it held a pair of a message,
\* and holds the statements.
LEMMA ToldDelete ==
    ASSUME TypeOK, ToldInv, NEW h \in Handler, DeleteDevice(h)
    PROVE  ToldInv'
  <1> DEFINE me == task[h].dev
             held == task[h].held
  <1>0. /\ task \in [Handler -> Task] /\ task[h] \in Task /\ task[h].at = "delete" /\ OwnWork(task[h])
    BY DEF TypeOK, DeleteDevice, ToldInv
  <1>1. \A g \in Handler \ {h} : task'[g] = task[g]
    BY <1>0, OthersSame DEF Continue
  <1>2. /\ UNCHANGED <<conn, cut, cache, replay>> /\ UNCHANGED <<told, notices, dropped>>
        /\ mail' = mail /\ missed' = missed
    BY DEF DeleteDevice, noticeVars, mailVars, connVars
  <1>3. /\ task'[h].at = "each" /\ task'[h].dev = me /\ task'[h].held = held
        /\ task'[h].body = task[h].body
    BY <1>0 DEF DeleteDevice, Task
  <1>4. OwnWork(task'[h])
    BY <1>0, <1>3 DEF OwnWork
  <1>5. /\ StaleCacheIsNotified /\ Reached
        /\ \A p, e : ~Notifies(task[h], p, e)
        /\ \A p : ~Keeps(task[h], p)
    BY <1>0 DEF ToldInv, Notifies, Keeps
  <1>6. /\ \A p \in Pair : pairs'[p] = IF p \in PairsOf(me) THEN "absent" ELSE pairs[p]
        /\ unchecked' = unchecked \cup (Unrevoked(me) \ held)
        /\ \A p \in Pair : removedBy'[p] = IF p \in held /\ task[h].body.revoke THEN me ELSE removedBy[p]
    BY DEF DeleteDevice
  <1>7. StaleCacheIsNotified'
    <2>1. ASSUME NEW e \in Device, NEW p \in Pair, p \in cache[e], pairs'[p] # "valid", p \notin unchecked'
          PROVE  (pairs[p] # "valid" /\ p \notin unchecked) \/ Notifies(task'[h], p, e)
      <3>1. CASE p \in held
        BY <1>3, <3>1 DEF Notifies
      <3>2. CASE p \notin held
        BY <1>6, <2>1, <3>2 DEF Unrevoked
      <3> QED
        BY <3>1, <3>2
    <2> QED
      BY <1>1, <1>2, <1>5, <2>1, StaleFrame
  <1>8. Reached'
    <2>1. ASSUME NEW p \in Pair, removedBy'[p] # None, p \notin dropped'
          PROVE  \/ Keeps(task'[h], p) /\ task'[h].dev = removedBy'[p]
                 \/ removedBy'[p] = removedBy[p]
      BY <1>3, <1>6, <2>1 DEF Keeps
    <2> QED
      BY <1>1, <1>2, <1>5, <2>1, ReachedFrame
  <1> QED
    BY <1>1, <1>2, <1>4, <1>7, <1>8, HandlerFrame

\* Storing a notice, or failing to.
LEMMA ToldNotice ==
    ASSUME TypeOK, ToldInv, NEW h \in Handler, NEW q \in Pair, AddNotice(h, q)
    PROVE  ToldInv'
  <1> DEFINE me == task[h].dev
  <1>0. /\ task \in [Handler -> Task] /\ task[h] \in Task /\ task[h].at = "each" /\ OwnWork(task[h])
        /\ q \in task[h].held /\ me \in Device /\ notices \in [Device -> SUBSET Pair]
    BY TaskFacts DEF TypeOK, AddNotice, ToldInv, DeviceSteps
  <1>1. \A g \in Handler \ {h} : task'[g] = task[g]
    BY <1>0, OthersSame DEF Continue
  <1>2. /\ UNCHANGED <<conn, cut, cache, replay>> /\ UNCHANGED <<told, removedBy>>
        /\ mail' = mail /\ missed' = missed /\ pairs' = pairs /\ unchecked' = unchecked
    BY DEF AddNotice, dbVars, mailVars, connVars
  <1>3. /\ task'[h].at = "tell_each" /\ task'[h].dev = me /\ task'[h].held = task[h].held
        /\ task'[h].body = task[h].body /\ task'[h].pair = q
    BY <1>0 DEF AddNotice, Task
  <1>4. OwnWork(task'[h])
    BY <1>0, <1>3 DEF OwnWork
  <1>5. StaleCacheIsNotified /\ Reached
    BY DEF ToldInv
  <1>6. StaleCacheIsNotified'
    <2>1. \A e, p : Notifies(task[h], p, e) => Notifies(task'[h], p, e)
      BY <1>0, <1>3 DEF Notifies
    <2> QED
      BY <1>1, <1>2, <1>5, <2>1, StaleFrame
  <1>7. \/ notices' = [notices EXCEPT ![Peer(q, me)] = notices[Peer(q, me)] \cup {q}] /\ dropped' = dropped
        \/ notices' = notices /\ dropped' = dropped \cup {q}
    BY DEF AddNotice
  <1>8. Reached'
    <2>1. Peer(q, me) \in Device
      BY <1>0, PeerFacts
    <2>2. \A d \in Device : notices[d] \subseteq notices'[d]
      BY <1>0, <1>7, <2>1
    <2>3. ASSUME NEW p \in Pair, p \notin dropped', Keeps(task[h], p)
          PROVE  \/ Keeps(task'[h], p) /\ task'[h].dev = task[h].dev
                 \/ p \in notices'[Peer(p, task[h].dev)]
      <3>1. CASE p = q
        BY <1>0, <1>7, <2>1, <2>3, <3>1
      <3>2. CASE p # q
        BY <1>3, <2>3, <3>2 DEF Keeps
      <3> QED
        BY <3>1, <3>2
    <2>4. dropped \subseteq dropped'
      BY <1>7
    <2> QED
      BY <1>1, <1>2, <1>5, <2>2, <2>3, <2>4, ReachedFrame
  <1> QED
    BY <1>1, <1>2, <1>4, <1>6, <1>8, HandlerFrame

\* The messages of a removal.
LEMMA ToldEach ==
    ASSUME TypeOK, ToldInv, NEW h \in Handler,
           TellRevoked(h) \/ TellClose(h) \/ \E p \in Pair : TellChanged(h, p)
    PROVE  ToldInv'
  <1> DEFINE me == task[h].dev
  <1>0. /\ task \in [Handler -> Task] /\ task[h] \in Task /\ task[h].at \in {"each", "tell_each"}
        /\ OwnWork(task[h]) /\ me \in Device /\ mail \in [Device -> Seq(Message)]
        /\ \A e \in Device : cache[e] \subseteq PairsOf(e)
    BY TaskFacts DEF TypeOK, TellRevoked, TellClose, TellChanged, ToldInv, DeviceSteps
  <1>1. \A g \in Handler \ {h} : task'[g] = task[g]
    BY <1>0, OthersSame DEF Continue
  <1>2. /\ UNCHANGED <<conn, cut, cache, replay>> /\ UNCHANGED <<told, removedBy, notices, dropped>>
        /\ pairs' = pairs /\ unchecked' = unchecked
    BY DEF TellRevoked, TellClose, TellChanged, dbVars, noticeVars, connVars
  <1>3. StaleCacheIsNotified /\ Reached
    BY DEF ToldInv
  <1>4. ASSUME NEW q \in Pair, NEW m \in Message, notify(Peer(q, me), m), q \in task[h].held,
               task'[h].at = "each", task'[h].dev = me, task'[h].held = task[h].held \ {q},
               task'[h].body = task[h].body, Keeps(task[h], q) => ~task[h].body.revoke
        PROVE  ToldInv'
    <2>1. Peer(q, me) \in Device /\ me \in Members(q)
      BY <1>0, <1>4, PeerFacts DEF OwnWork, PairsOf
    <2>2. /\ \A e \in Device : mail[e] # <<>> => mail'[e] # <<>>
          /\ missed \subseteq missed'
          /\ conn[Peer(q, me)] \notin {"off", "accepted"}
                => mail'[Peer(q, me)] # <<>> \/ Peer(q, me) \in cut \cup missed'
      BY <1>0, <1>4, <2>1, NotifyReaches
    <2>3. ASSUME NEW e \in Device, NEW p \in Pair, p \in cache[e], Notifies(task[h], p, e)
          PROVE  Notifies(task'[h], p, e) \/ mail'[e] # <<>> \/ e \in cut \cup missed'
      <3>1. CASE e = me \/ p # q
        BY <1>0, <1>4, <2>3, <3>1 DEF Notifies
      <3>2. CASE e # me /\ p = q
        <4>1. e = Peer(q, me)
          BY <1>0, <2>1, <2>3, <3>2 DEF PairsOf, Members, Peer
        <4> QED
          BY <2>2, <2>3, <4>1, RoutingIsSubscribed
      <3> QED
        BY <3>1, <3>2
    <2>4. StaleCacheIsNotified'
      BY <1>1, <1>2, <1>3, <2>2, <2>3, StaleFrame
    <2>5. \A p : Keeps(task[h], p) => Keeps(task'[h], p)
      BY <1>4 DEF Keeps
    <2>6. Reached'
      BY <1>1, <1>2, <1>3, <1>4, <2>5, ReachedFrame
    <2>7. OwnWork(task'[h])
      BY <1>0, <1>4 DEF OwnWork
    <2> QED
      BY <1>1, <1>2, <2>4, <2>6, <2>7, HandlerFrame
  <1>5. CASE TellRevoked(h)
    <2> DEFINE q == task[h].pair
    <2>1. q \in Pair /\ q \in task[h].held /\ task[h].at = "tell_each"
      BY <1>0, <1>5, TaskFacts DEF TellRevoked, OwnWork, PairSteps
    <2>2. notify(Peer(q, me), PairRevoked(q)) /\ PairRevoked(q) \in Message
      BY <1>5, <2>1, MessageFacts DEF TellRevoked
    <2>3. /\ task'[h].at = "each" /\ task'[h].dev = me /\ task'[h].held = task[h].held \ {q}
          /\ task'[h].body = task[h].body
      BY <1>0, <1>5 DEF TellRevoked, Task
    <2>4. ~Keeps(task[h], q)
      BY <2>1 DEF Keeps
    <2> QED
      BY <1>4, <2>1, <2>2, <2>3, <2>4
  <1>6. ASSUME NEW q \in Pair, TellChanged(h, q)
        PROVE  ToldInv'
    <2>1. /\ q \in task[h].held /\ task[h].at = "each" /\ ~task[h].body.revoke
          /\ notify(Peer(q, me), PairsChanged) /\ PairsChanged \in Message
      BY <1>6, MessageFacts DEF TellChanged
    <2>2. /\ task'[h].at = task[h].at /\ task'[h].dev = me /\ task'[h].held = task[h].held \ {q}
          /\ task'[h].body = task[h].body
      BY <1>0, <1>6 DEF TellChanged, Task
    <2> QED
      BY <1>4, <2>1, <2>2
  <1>7. CASE TellClose(h)
    <2>1. task[h].at = "each" /\ task[h].held = {} /\ OwnWork(task'[h])
      BY <1>0, <1>7 DEF TellClose, Respond, Idle, OwnWork
    <2>2. Close \in Message /\ notify(me, Close)
      BY <1>7, MessageFacts DEF TellClose
    <2>3. /\ \A e \in Device : mail[e] # <<>> => mail'[e] # <<>>
          /\ missed \subseteq missed'
          /\ conn[me] \notin {"off", "accepted"} => mail'[me] # <<>> \/ me \in cut \cup missed'
      BY <1>0, <2>2, NotifyReaches
    <2>4. ASSUME NEW e \in Device, NEW p \in Pair, p \in cache[e], Notifies(task[h], p, e)
          PROVE  mail'[e] # <<>> \/ e \in cut \cup missed'
      <3>1. e = me
        BY <2>1, <2>4 DEF Notifies
      <3> QED
        BY <2>3, <2>4, <3>1, RoutingIsSubscribed
    <2>5. StaleCacheIsNotified'
      BY <1>1, <1>2, <1>3, <2>3, <2>4, StaleFrame
    <2>6. \A p : ~Keeps(task[h], p)
      BY <2>1 DEF Keeps
    <2>7. Reached'
      BY <1>1, <1>2, <1>3, <2>6, ReachedFrame
    <2> QED
      BY <1>1, <1>2, <2>1, <2>5, <2>7, HandlerFrame
  <1> QED
    BY <1>5, <1>6, <1>7

\* A call that ends halfway: what it owed counts as missed and dropped.
LEMMA ToldAbandon ==
    ASSUME TypeOK, ToldInv, NEW h \in Handler, Abandon(h)
    PROVE  ToldInv'
  <1>0. /\ task \in [Handler -> Task] /\ task[h] \in Task /\ OwnWork(task[h])
        /\ \A e \in Device : cache[e] \subseteq PairsOf(e)
    BY DEF TypeOK, ToldInv
  <1>1. \A g \in Handler \ {h} : task'[g] = task[g]
    BY <1>0, OthersSame
  <1>2. /\ UNCHANGED <<conn, cut, cache, replay>> /\ UNCHANGED <<told, removedBy, notices>>
        /\ pairs' = pairs /\ unchecked' = unchecked /\ mail' = mail
        /\ missed' = missed \cup Owed(h) /\ dropped' = dropped \cup Unstored(h)
    BY DEF Abandon, dbVars, connVars
  <1>3. StaleCacheIsNotified /\ Reached
    BY DEF ToldInv
  <1>4. OwnWork(task'[h])
    BY <1>0 DEF Abandon, Respond, Idle, OwnWork
  <1>5. ASSUME NEW e \in Device, NEW p \in Pair, p \in cache[e], Notifies(task[h], p, e)
        PROVE  e \in Owed(h)
    <2>1. e \in Members(p)
      BY <1>0, <1>5 DEF PairsOf
    <2>2. CASE task[h].at = "tell_peer"
      BY <1>5, <2>1, <2>2 DEF Notifies, Owed
    <2>3. CASE task[h].at = "tell_me"
      BY <1>5, <2>3 DEF Notifies, Owed
    <2>4. CASE task[h].at \in {"each", "tell_each"}
      <3>1. e = task[h].dev \/ p \in task[h].held
        BY <1>5, <2>4 DEF Notifies
      <3>2. CASE e = task[h].dev
        BY <2>4, <3>2 DEF Owed
      <3>3. CASE e # task[h].dev /\ p \in task[h].held
        <4>1. e = Peer(p, task[h].dev)
          BY SMT, <1>0, <2>1, <2>4, <3>3 DEF OwnWork, PairsOf, Members, Peer
        <4> QED
          BY <2>4, <3>3, <4>1 DEF Owed
      <3> QED
        BY <3>1, <3>2, <3>3
    <2> QED
      BY <1>5, <2>2, <2>3, <2>4 DEF Notifies
  <1>6. StaleCacheIsNotified'
    BY <1>1, <1>2, <1>3, <1>5, StaleFrame
  <1>7. \A p : Keeps(task[h], p) => p \in Unstored(h)
    BY DEF Keeps, Unstored
  <1>8. Reached'
    BY <1>1, <1>2, <1>3, <1>7, ReachedFrame
  <1> QED
    BY <1>1, <1>2, <1>4, <1>6, <1>8, HandlerFrame

-----------------------------------------------------------------------------

\* A step of the connection of d: what it routes for is valid, or it routed for
\* it before and still has before it what it had, and what is told, stored or
\* to be written stays so or counts as dropped.
LEMMA ConnFrame ==
    ASSUME ToldInv, NEW d \in Device, task' = task, pairs' = pairs, unchecked' = unchecked,
           removedBy' = removedBy, dropped \subseteq dropped',
           \A e \in Device \ {d} :
              /\ conn'[e] = conn[e] /\ cache'[e] = cache[e] /\ replay'[e] = replay[e]
              /\ mail'[e] = mail[e] /\ told'[e] = told[e] /\ notices'[e] = notices[e]
              /\ e \in cut \cup missed => e \in cut' \cup missed',
           conn'[d] \in {"off", "accepted", "subscribed"} => cache'[d] = {},
           conn'[d] \notin {"read", "taken"} => replay'[d] = {},
           \A p \in cache'[d] :
              \/ pairs[p] = "valid" \/ mail'[d] # <<>> \/ d \in cut' \cup missed'
              \/ p \in cache[d] /\ mail[d] = <<>> /\ d \notin cut \cup missed,
           told[d] \cup notices[d] \cup replay[d]
              \subseteq told'[d] \cup notices'[d] \cup replay'[d] \cup dropped'
    PROVE  ToldInv'
  <1>1. \A h \in Handler : OwnWork(task'[h])
    BY DEF ToldInv
  <1>2. Opening'
    BY DEF ToldInv, Opening
  <1>3. StaleCacheIsNotified'
    <2> SUFFICES ASSUME NEW e \in Device, NEW p \in Pair,
                        p \in cache'[e], pairs[p] # "valid", p \notin unchecked
                 PROVE  mail'[e] # <<>> \/ e \in cut' \cup missed' \/ \E g \in Handler : Notifies(task[g], p, e)
      BY DEF StaleCacheIsNotified, Notifying
    <2>1. p \in cache[e] => mail[e] # <<>> \/ e \in cut \cup missed \/ \E g \in Handler : Notifies(task[g], p, e)
      BY DEF ToldInv, StaleCacheIsNotified, Notifying
    <2>2. CASE e = d
      BY <2>1, <2>2
    <2>3. CASE e # d
      BY <2>1, <2>3
    <2> QED
      BY <2>2, <2>3
  <1>4. Reached'
    <2> SUFFICES ASSUME NEW p \in Pair, removedBy[p] # None, p \notin dropped'
                 PROVE  \/ LET e == Peer(p, removedBy[p]) IN p \in told'[e] \cup notices'[e] \cup replay'[e]
                        \/ \E g \in Handler : Keeps(task[g], p) /\ task[g].dev = removedBy[p]
      BY DEF Reached
    <2> DEFINE e == Peer(p, removedBy[p])
    <2>1. e \in Device
      BY PairsAssumption DEF Peer
    <2>2. \/ p \in told[e] \cup notices[e] \cup replay[e]
          \/ \E g \in Handler : Keeps(task[g], p) /\ task[g].dev = removedBy[p]
      BY DEF ToldInv, Reached
    <2>3. CASE e = d
      BY <2>2, <2>3
    <2>4. CASE e # d
      BY <2>1, <2>2, <2>4
    <2> QED
      BY <2>3, <2>4
  <1> QED
    BY <1>1, <1>2, <1>3, <1>4 DEF ToldInv

\* The steps of a connection.
LEMMA ToldConn ==
    ASSUME TypeOK, ToldInv, NEW d \in Device, ConnStep(d)
    PROVE  ToldInv'
  <1> DEFINE Same == /\ task' = task /\ pairs' = pairs /\ unchecked' = unchecked /\ removedBy' = removedBy
  <1>0. /\ conn \in [Device -> {"off", "accepted", "subscribed", "loaded", "read", "taken", "serving"}]
        /\ mail \in [Device -> Seq(Message)] /\ cache \in [Device -> SUBSET Pair]
        /\ replay \in [Device -> SUBSET Pair] /\ told \in [Device -> SUBSET Pair]
        /\ notices \in [Device -> SUBSET Pair]
        /\ conn[d] \in {"off", "accepted", "subscribed"} => cache[d] = {}
        /\ conn[d] \notin {"read", "taken"} => replay[d] = {}
    BY DEF TypeOK, ToldInv, Opening
  <1>1. \A p \in active_peers(d) : pairs[p] = "valid"
    BY DEF active_peers, Unrevoked
  <1>2. CASE Connect(d)
    <2>1. /\ Same /\ UNCHANGED <<mail, missed, cut, cache, replay, told, notices, dropped>>
          /\ conn[d] = "off" /\ conn' = [conn EXCEPT ![d] = "accepted"]
      BY <1>2 DEF Connect, dbVars, mailVars, noticeVars, sendVars
    <2> QED
      BY <1>0, <2>1, ConnFrame
  <1>3. CASE Subscribe(d)
    <2>1. /\ Same /\ UNCHANGED <<mail, missed, cut, cache, replay, told, notices, dropped>>
          /\ conn[d] = "accepted" /\ conn' = [conn EXCEPT ![d] = "subscribed"]
      BY <1>3 DEF Subscribe, dbVars, mailVars, noticeVars, sendVars
    <2> QED
      BY <1>0, <2>1, ConnFrame
  <1>4. CASE LoadPeers(d)
    <2>1. /\ Same /\ UNCHANGED <<mail, cut, replay, told, notices, dropped>>
          /\ conn[d] = "subscribed" /\ conn' = [conn EXCEPT ![d] = "loaded"]
          /\ cache' = [cache EXCEPT ![d] = active_peers(d)] /\ missed' = missed \ {d}
      BY <1>4 DEF LoadPeers, reload_peers, dbVars, noticeVars
    <2> QED
      BY <1>0, <1>1, <2>1, ConnFrame
  <1>5. CASE ReadRevoked(d)
    <2>1. /\ Same /\ UNCHANGED <<mail, missed, cut, cache, told, notices, dropped>>
          /\ conn[d] = "loaded" /\ conn' = [conn EXCEPT ![d] = "read"]
      BY <1>5 DEF ReadRevoked, dbVars, mailVars, noticeVars
    <2>2. \A e \in Device \ {d} : replay'[e] = replay[e]
      BY <1>0, <1>5 DEF ReadRevoked
    <2> QED
      BY <1>0, <2>1, <2>2, ConnFrame
  <1>6. CASE take_revoked_notices(d)
    <2>1. /\ Same /\ UNCHANGED <<mail, missed, cut, cache, told>>
          /\ conn[d] = "read" /\ conn' = [conn EXCEPT ![d] = "taken"]
      BY <1>6 DEF take_revoked_notices, dbVars, mailVars
    <2>2. /\ \A e \in Device \ {d} : replay'[e] = replay[e] /\ notices'[e] = notices[e]
          /\ dropped \subseteq dropped'
          /\ notices[d] \cup replay[d] \subseteq notices'[d] \cup replay'[d] \cup dropped'
      <3>1. CASE /\ replay' = [replay EXCEPT ![d] = @ \cup notices[d]]
                 /\ notices' = [notices EXCEPT ![d] = {}] /\ dropped' = dropped
        BY <1>0, <3>1
      <3>2. CASE UNCHANGED <<notices, dropped, replay>>
        BY <3>2
      <3>3. CASE /\ notices' = [notices EXCEPT ![d] = {}] /\ dropped' = dropped \cup notices[d]
                 /\ replay' = replay
        BY <1>0, <3>3
      <3> QED
        BY <1>6, <3>1, <3>2, <3>3 DEF take_revoked_notices
    <2> QED
      BY <1>0, <2>1, <2>2, ConnFrame
  <1>7. CASE WriteReplay(d)
    <2>1. /\ Same /\ UNCHANGED <<mail, missed, cut, cache, notices, dropped>>
          /\ conn[d] = "taken" /\ conn' = [conn EXCEPT ![d] = "serving"]
          /\ told' = [told EXCEPT ![d] = @ \cup replay[d]] /\ replay' = [replay EXCEPT ![d] = {}]
      BY <1>7 DEF WriteReplay, dbVars, mailVars, noticeVars
    <2> QED
      BY <1>0, <2>1, ConnFrame
  <1>8. ASSUME Drop(d), Same, notices' = notices, dropped \subseteq dropped',
               \A e \in Device \ {d} : told'[e] = told[e],
               told[d] \cup replay[d] \subseteq told'[d] \cup dropped'
        PROVE  ToldInv'
    <2>1. /\ conn'[d] = "off" /\ cache'[d] = {} /\ replay'[d] = {}
          /\ \A e \in Device \ {d} : /\ conn'[e] = conn[e] /\ cache'[e] = cache[e] /\ replay'[e] = replay[e]
                                     /\ mail'[e] = mail[e]
                                     /\ e \in cut \cup missed => e \in cut' \cup missed'
      BY <1>0, <1>8 DEF Drop
    <2> QED
      BY <1>8, <2>1, ConnFrame
  <1>9. CASE OpenFails(d)
    <2>1. Drop(d) /\ Same /\ notices' = notices
      BY <1>9 DEF OpenFails, dbVars
    <2>2. CASE conn[d] \in {"subscribed", "loaded"} /\ UNCHANGED <<told, dropped>>
      BY <1>0, <1>8, <2>1, <2>2
    <2>3. CASE \E sent \in SUBSET replay[d] :
                  /\ told' = [told EXCEPT ![d] = @ \cup sent]
                  /\ dropped' = dropped \cup (replay[d] \ sent)
      <3>1. PICK sent \in SUBSET replay[d] :
                    /\ told' = [told EXCEPT ![d] = @ \cup sent]
                    /\ dropped' = dropped \cup (replay[d] \ sent)
        BY <2>3
      <3> QED
        BY <1>0, <1>8, <2>1, <3>1
    <2> QED
      BY <1>9, <2>2, <2>3 DEF OpenFails
  <1>10. CASE Deliver(d)
    <2>1. /\ Same /\ UNCHANGED <<notices, dropped, conn, cut, replay>> /\ conn[d] = "serving"
          /\ mail' = [mail EXCEPT ![d] = Tail(mail[d])]
      BY <1>10 DEF Deliver, dbVars, noticeVars
    <2>2. (\A e \in Device \ {d} : told'[e] = told[e]) /\ told[d] \subseteq told'[d]
      BY <1>0, <1>10 DEF Deliver
    <2>3. /\ \A e \in Device \ {d} : /\ mail'[e] = mail[e] /\ conn'[e] = conn[e]
                                     /\ replay'[e] = replay[e] /\ notices'[e] = notices[e]
          /\ told[d] \cup notices[d] \cup replay[d] \subseteq told'[d] \cup notices'[d] \cup replay'[d] \cup dropped'
          /\ conn'[d] = "serving" /\ replay'[d] = {} /\ dropped \subseteq dropped' /\ cut' = cut
      BY <1>0, <2>1, <2>2
    <2>4. Same
      BY <2>1
    <2>5. CASE reload_peers(d)
      <3>1. /\ \A e \in Device \ {d} : cache'[e] = cache[e] /\ (e \in missed => e \in missed')
            /\ \A p \in cache'[d] : pairs[p] = "valid"
        BY <1>0, <1>1, <2>5 DEF reload_peers
      <3> QED
        BY <2>2, <2>3, <2>4, <3>1, ConnFrame
    <2>6. CASE ReloadFails(d)
      <3>1. cache' = cache /\ missed' = missed \cup {d}
        BY <2>6 DEF ReloadFails
      <3> QED
        BY <2>2, <2>3, <2>4, <3>1, ConnFrame
    <2> QED
      BY <1>10, <2>5, <2>6 DEF Deliver
  <1>11. CASE Disconnect(d)
    <2>1. Drop(d) /\ Same /\ UNCHANGED <<notices, dropped, told>> /\ conn[d] = "serving"
      BY <1>11 DEF Disconnect, dbVars, noticeVars
    <2> QED
      BY <1>0, <1>8, <2>1
  <1>12. CASE is_peer_miss(d)
    <2>1. /\ Same /\ UNCHANGED <<mail, cut, replay, told, notices, dropped, conn>> /\ conn[d] = "serving"
          /\ cache' = [cache EXCEPT ![d] = active_peers(d)] /\ missed' = missed \ {d}
      BY <1>12 DEF is_peer_miss, reload_peers, dbVars, noticeVars, sendVars
    <2> QED
      BY <1>0, <1>1, <2>1, ConnFrame
  <1> QED
    BY <1>2, <1>3, <1>4, <1>5, <1>6, <1>7, <1>9, <1>10, <1>11, <1>12 DEF ConnStep

\* The pub/sub connection that is lost and comes back.
LEMMA ToldLink ==
    ASSUME TypeOK, ToldInv, NEW d \in Device, LinkBack(d) \/ \E n \in Nat : LinkCut(d, n)
    PROVE  ToldInv'
  <1>0. mail \in [Device -> Seq(Message)]
    BY DEF TypeOK
  <1>1. /\ task' = task /\ pairs' = pairs /\ unchecked' = unchecked /\ removedBy' = removedBy
        /\ UNCHANGED <<conn, cache, replay, told, notices, dropped, missed>>
    BY DEF LinkBack, LinkCut, dbVars, noticeVars, sendVars
  <1>2. \A e \in Device \ {d} : mail'[e] = mail[e] /\ (e \in cut => e \in cut')
    BY <1>0 DEF LinkBack, LinkCut
  <1>3. mail'[d] # <<>> \/ d \in cut'
    <2>1. CASE LinkBack(d)
      <3>1. mail[d] \in Seq(Message) /\ Resync \in Message
        BY <1>0, MessageFacts
      <3>2. Append(mail[d], Resync) # <<>>
        BY SMT, <3>1
      <3> QED
        BY <1>0, <2>1, <3>2 DEF LinkBack
    <2>2. CASE \E n \in Nat : LinkCut(d, n)
      BY <2>2 DEF LinkCut
    <2> QED
      BY <2>1, <2>2
  <1>4. /\ conn[d] \in {"off", "accepted", "subscribed"} => cache[d] = {}
        /\ conn[d] \notin {"read", "taken"} => replay[d] = {}
    BY DEF ToldInv, Opening
  <1> QED
    BY <1>1, <1>2, <1>3, <1>4, ConnFrame

\* The daily cleanup: whatever it makes invalid is unchecked.
LEMMA ToldExpired ==
    ASSUME TypeOK, ToldInv, NEW d \in Device, delete_expired(d)
    PROVE  ToldInv'
  <1>1. /\ task' = task /\ UNCHANGED <<removedBy, told, notices, replay, dropped>>
        /\ UNCHANGED <<conn, cache, mail, cut, missed>>
    BY DEF delete_expired, noticeVars, mailVars, connVars, sendVars
  <1>2. ASSUME NEW p \in Pair, pairs'[p] # "valid", p \notin unchecked'
        PROVE  pairs[p] # "valid" /\ p \notin unchecked
    BY <1>2 DEF delete_expired, Unrevoked, PairsOf
  <1>3. StaleCacheIsNotified'
    BY <1>1, <1>2 DEF ToldInv, StaleCacheIsNotified, Notifying
  <1>4. Reached' /\ Opening'
    BY <1>1 DEF ToldInv, Reached, Opening
  <1> QED
    BY <1>1, <1>3, <1>4 DEF ToldInv

\* ToldInv is inductive.
LEMMA ToldStep ==
    TypeOK /\ ToldInv /\ [Next]_vars => ToldInv'
  <1> SUFFICES ASSUME TypeOK, ToldInv, [Next]_vars
               PROVE  ToldInv'
    OBVIOUS
  <1>1. ASSUME NEW h \in Handler, Call(h)
        PROVE  ToldInv'
    BY <1>1, ToldCall
  <1>2. ASSUME NEW h \in Handler, Continue(h)
        PROVE  ToldInv'
    <2>1. CASE TellA(h) \/ TellB(h) \/ LockDevice(h) \/ ReadPairs(h)
      BY <2>1, ToldQuiet
    <2>2. CASE insert(h)
      BY <2>2, ToldInsert
    <2>3. CASE Update(h)
      BY <2>3, ToldUpdate
    <2>4. CASE TellPeer(h) \/ TellMe(h)
      BY <2>4, ToldRevoke
    <2>5. CASE DeleteDevice(h)
      BY <2>5, ToldDelete
    <2>6. ASSUME NEW p \in Pair, AddNotice(h, p)
          PROVE  ToldInv'
      BY <2>6, ToldNotice
    <2>7. CASE TellRevoked(h) \/ TellClose(h) \/ \E p \in Pair : TellChanged(h, p)
      BY <2>7, ToldEach
    <2> QED
      BY <1>2, <2>1, <2>2, <2>3, <2>4, <2>5, <2>6, <2>7 DEF Continue
  <1>3. ASSUME NEW h \in Handler, Abandon(h)
        PROVE  ToldInv'
    BY <1>3, ToldAbandon
  <1>4. ASSUME task' = task, UNCHANGED <<pairs, removedBy, unchecked, noticeVars, mailVars, connVars>>
        PROVE  ToldInv'
    BY <1>4 DEF ToldInv, Opening, StaleCacheIsNotified, Notifying, Reached, noticeVars, mailVars,
       connVars, sendVars
  <1>5. ASSUME NEW d \in Device, RegisterDevice(d)
        PROVE  ToldInv'
    BY <1>4, <1>5 DEF RegisterDevice
  <1>6. ASSUME NEW d \in Device, delete_expired(d)
        PROVE  ToldInv'
    BY <1>6, ToldExpired
  <1>7. ASSUME NEW d \in Device, ConnStep(d)
        PROVE  ToldInv'
    BY <1>7, ToldConn
  <1>8. ASSUME NEW d \in Device, LinkBack(d) \/ \E n \in Nat : LinkCut(d, n)
        PROVE  ToldInv'
    BY <1>8, ToldLink
  <1>9. CASE UNCHANGED vars
    BY <1>4, <1>9 DEF vars, dbVars
  <1> QED
    BY <1>1, <1>2, <1>3, <1>5, <1>6, <1>7, <1>8, <1>9 DEF Next

LEMMA ToldAlways ==
    Spec => []ToldInv
  <1>1. Init => ToldInv
    BY SMT DEF Init, ToldInv, Idle, OwnWork, Opening, StaleCacheIsNotified, Reached
  <1> QED
    BY <1>1, ToldStep, PairsTypeCorrect, PTL DEF Spec

-----------------------------------------------------------------------------

\* For any number of devices, pairs and calls, and whatever fails: a connection
\* that routes for a pair that is no longer valid has a message before it, has
\* lost its pub/sub connection or is about to be told, unless a failure that
\* was only logged, or a handler cut short, has cost the message.
THEOREM StaleAlwaysNotified == Spec => []StaleCacheIsNotified
  <1>1. ToldInv => StaleCacheIsNotified
    BY DEF ToldInv
  <1> QED
    BY <1>1, ToldAlways, PTL

\* The same for the statements of delete_me: each one is written to the peer, is
\* stored for it, or is with the connection or the handler that will.
THEOREM RemovalsReachPeers == Spec => []RemovalReachesPeer
  <1>1. ToldInv => RemovalReachesPeer
    BY DEF ToldInv, Reached, RemovalReachesPeer, Keeps
  <1> QED
    BY <1>1, ToldAlways, PTL
=============================================================================
