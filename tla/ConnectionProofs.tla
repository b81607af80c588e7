------------------------- MODULE ConnectionProofs -------------------------
(***************************************************************************)
(* Proofs about the hub and the connections, for any set of instances,     *)
(* devices and connections.  The hub: type correctness, and that a         *)
(* connection which Redis confirmed stays reachable while it is its        *)
(* device's current one, and that no queue outgrows its limit or loses     *)
(* count of its bytes.  Connections: they use the hub only through the     *)
(* hub's own operations, so what is shown of the hub holds with            *)
(* connections on top of it, and a connection that is replaced on its own  *)
(* instance is always told.                                                *)
(***************************************************************************)
EXTENDS Connection, TLAPS

\* Every leaf that names no prover is left to SMT.
USE SMTT(60)

HubInv == TypeOK /\ ChannelsMatch /\ RequestsOwned /\ Reachable

\* Decoding gives back every message an instance can publish (bus.rs encode
\* and decode).
LEMMA RoundTrip == \A m \in BusMessage : decode(encode(m)) = m
<1> SUFFICES ASSUME NEW m \in BusMessage PROVE decode(encode(m)) = m
    OBVIOUS
<1> USE DEF decode, encode, TAG_TEXT, TAG_BINARY, TAG_CONTROL, TAG_PAIR_REVOKED,
            TAG_PAIRS_CHANGED, TAG_REPLACE, TAG_CLOSE
<1>1. CASE m \in [type : {"text", "binary"}, from : Device, len : FrameLen]
    BY <1>1 DEF ForwardText, ForwardBinary
<1>2. CASE m \in [type : {"control"}, len : FrameLen]
    BY <1>2 DEF Control
<1>3. CASE m \in [type : {"pair_revoked"}, pair : Pair]
    BY <1>3 DEF PairRevoked
<1>4. CASE m = PairsChanged
    BY <1>4 DEF PairsChanged
<1>5. CASE m \in [type : {"replace"}, conn : Conn]
    BY <1>5 DEF Replace
<1>6. CASE m = Close(CLOSE_NORMAL)
    BY <1>6 DEF Close
<1> QED
    BY ZenonT(60), <1>1, <1>2, <1>3, <1>4, <1>5, <1>6 DEF BusMessage

\* The deliveries a queue can hold, and the bytes each counts.
LEMMA DeliveryFacts ==
    /\ Resync \in Delivery
    /\ \A c \in Conn : Replace(c) \in Delivery
    /\ BusMessage \subseteq Delivery
    /\ \A m \in Delivery : queued_len(m) \in Nat
<1>1. ASSUME NEW m \in Delivery PROVE queued_len(m) \in Nat
    <2>1. CASE m \in [type : {"text", "binary"}, from : Device, len : FrameLen]
        BY Zenon, <2>1, FrameLenAssumption DEF queued_len
    <2>2. CASE m \in [type : {"control"}, len : FrameLen]
        BY Zenon, <2>2, FrameLenAssumption DEF queued_len
    <2>3. CASE m = PairsChanged
        BY <2>3 DEF PairsChanged, queued_len
    <2>4. CASE m = Close(CLOSE_NORMAL)
        BY <2>4 DEF Close, queued_len
    <2>5. CASE m = Resync
        BY <2>5 DEF Resync, queued_len
    <2>6. CASE m \in [type : {"pair_revoked"}, pair : Pair]
        BY <2>6 DEF queued_len
    <2>7. CASE m \in [type : {"replace"}, conn : Conn]
        BY <2>7 DEF queued_len
    <2> QED
        BY <2>1, <2>2, <2>3, <2>4, <2>5, <2>6, <2>7 DEF Delivery, BusMessage
<1>2. \A c \in Conn : Replace(c) \in Delivery
    BY DEF Replace, Delivery, BusMessage
<1> QED
    BY <1>1, <1>2 DEF Delivery

\* What a request and a published payload are, for the bus task that reads them.
LEMMA QueuedFacts ==
    /\ \A c \in Conn, d \in Device :
          [op |-> "subscribe", device |-> d, conn |-> c] \in Request
    /\ \A d \in Device : [op |-> "unsubscribe", device |-> d] \in Request
    /\ \A r \in Request : r.device \in Device
    /\ \A r \in Request : r.op = "subscribe" => r.conn \in Conn
    /\ \A p \in Published : p.device \in Device /\ decode(p.payload) \in Delivery
    /\ \A d \in Device, m \in BusMessage :
          [device |-> d, payload |-> encode(m)] \in Published
<1>1. ASSUME NEW p \in Published PROVE decode(p.payload) \in Delivery
    <2>1. PICK m \in BusMessage : p.payload = encode(m)
        BY DEF Published
    <2> QED
        BY <2>1, RoundTrip, DeliveryFacts
<1>2. \A r \in Request : r.op = "subscribe" => r.conn \in Conn
    BY DEF Request
<1>3. \A c \in Conn, d \in Device :
          [op |-> "subscribe", device |-> d, conn |-> c] \in Request
    BY DEF Request
<1>4. \A d \in Device : [op |-> "unsubscribe", device |-> d] \in Request
    BY DEF Request
<1>5. \A r \in Request : r.device \in Device
    BY DEF Request
<1>6. \A d \in Device, m \in BusMessage :
          [device |-> d, payload |-> encode(m)] \in Published
    BY DEF Published
<1> QED
    BY <1>1, <1>2, <1>3, <1>4, <1>5, <1>6 DEF Published

\* Every step keeps every variable in its type: a payload decodes to a
\* delivery, a request names a device and a connection.
LEMMA TypeStep == TypeOK /\ [HubNext]_hubVars => TypeOK'
<1> SUFFICES ASSUME TypeOK, [HubNext]_hubVars PROVE TypeOK'
    OBVIOUS
<1> USE HubAssumption DEF TypeOK, redisVars, busVars, queueVars
<1>1. ASSUME NEW c \in Conn, Register(c) PROVE TypeOK'
    <2>1. stage' \in [Conn -> Stage]
        BY <1>1 DEF Register, Stage
    <2>2. registry' \in [Instance -> [Device -> Conn \cup {None}]]
        BY <1>1 DEF Register
    <2>3. inbox' \in [Conn -> Seq(Delivery)]
        BY <1>1, DeliveryFacts DEF Register, Current
    <2> QED
        BY <1>1, <2>1, <2>2, <2>3 DEF Register
<1>2. ASSUME NEW c \in Conn, Subscribe(c) PROVE TypeOK'
    <2>1. requests' \in [Instance -> Seq(Request)]
        BY <1>2, QueuedFacts DEF Subscribe
    <2> QED
        BY <1>2, <2>1 DEF Subscribe, Stage
<1>3. ASSUME NEW c \in Conn, SubscribeTimeout(c) PROVE TypeOK'
    BY <1>3 DEF SubscribeTimeout, Stage
<1>4. ASSUME NEW c \in Conn, Receive(c) PROVE TypeOK'
    <2>1. queued_len(Head(inbox[c])) \in Nat
        BY <1>4, DeliveryFacts DEF Receive
    <2> QED
        BY <1>4, <2>1 DEF Receive
<1>5. ASSUME NEW c \in Conn, Unregister(c) PROVE TypeOK'
    BY <1>5 DEF Unregister, Stage
<1>6. ASSUME NEW c \in Conn, Unsubscribe(c) PROVE TypeOK'
    <2>1. requests' \in [Instance -> Seq(Request)]
        BY <1>6, QueuedFacts DEF Unsubscribe
    <2> QED
        BY <1>6, <2>1 DEF Unsubscribe, Stage
<1>7. ASSUME NEW i \in Instance, BusSubscribe(i) PROVE TypeOK'
    <2>1. /\ Head(requests[i]).device \in Device
          /\ Head(requests[i]).conn \in Conn
        BY <1>7, QueuedFacts DEF BusSubscribe
    <2>2. stage' \in [Conn -> Stage]
        BY <1>7, <2>1 DEF BusSubscribe, Stage
    <2> QED
        BY <1>7, <2>1, <2>2 DEF BusSubscribe
<1>8. ASSUME NEW i \in Instance, BusUnsubscribe(i) PROVE TypeOK'
    BY <1>8 DEF BusUnsubscribe
<1>9. ASSUME NEW i \in Instance, BusMessageArrives(i) PROVE TypeOK'
    <2> DEFINE d == Head(stream[i]).device
               m == decode(Head(stream[i]).payload)
    <2>1. d \in Device /\ m \in Delivery
        BY <1>9, QueuedFacts DEF BusMessageArrives
    <2>2. queued_len(m) \in Nat
        BY <2>1, DeliveryFacts
    <2>3. dispatch(i, d, m)
        BY <1>9 DEF BusMessageArrives
    <2> HIDE DEF d, m
    <2>4. /\ inbox' \in [Conn -> Seq(Delivery)]
          /\ queued' \in [Conn -> Int]
          /\ kill' \subseteq Conn
        <3>1. registry[i][d] \in Conn \cup {None}
            BY <2>1
        <3>2. CASE UNCHANGED queueVars
            BY <3>2
        <3>3. CASE registry[i][d] # None
            <4>1. queued[registry[i][d]] + queued_len(m) \in Int
                BY <2>2, <3>1, <3>3
            <4>2. queued' \in [Conn -> Int]
                BY <2>3, <3>1, <3>3, <4>1 DEF dispatch
            <4>3. inbox' \in [Conn -> Seq(Delivery)]
                <5>1. \/ inbox' = inbox
                      \/ inbox' = [inbox EXCEPT ![registry[i][d]] = Append(@, m)]
                    BY <2>3, <3>3 DEF dispatch
                <5>2. Append(inbox[registry[i][d]], m) \in Seq(Delivery)
                    BY <2>1, <3>1, <3>3
                <5> QED
                    BY ZenonT(60), <5>1, <5>2
            <4>4. kill' \subseteq Conn
                BY <2>3, <3>1, <3>3 DEF dispatch
            <4> QED
                BY <4>2, <4>3, <4>4
        <3> QED
            BY <2>3, <3>2, <3>3 DEF dispatch
    <2> QED
        BY <1>9, <2>4 DEF BusMessageArrives
<1>10. ASSUME NEW i \in Instance, BusReconnect(i) PROVE TypeOK'
    <2>1. registered_devices(i) \in SUBSET Device
        BY DEF registered_devices
    <2> QED
        BY <1>10, <2>1 DEF BusReconnect
<1>11. ASSUME NEW i \in Instance, NEW d \in Device, BusResubscribe(i, d) PROVE TypeOK'
    BY <1>11 DEF BusResubscribe
<1>12. ASSUME NEW i \in Instance, BusRestored(i) PROVE TypeOK'
    BY <1>12, DeliveryFacts DEF BusRestored
<1>13. ASSUME NEW d \in Device, NEW m \in BusMessage, Publish(d, m) PROVE TypeOK'
    BY <1>13, QueuedFacts DEF Publish, Delivered
<1>14. ASSUME NEW S \in SUBSET Instance, LinkLost(S) PROVE TypeOK'
    BY <1>14 DEF LinkLost
<1>15. ASSUME NEW i \in Instance, InFlightLost(i) PROVE TypeOK'
    <2>1. SubSeq(stream[i], 1, Len(stream[i]) - 1) \in Seq(Published)
        BY <1>15 DEF InFlightLost
    <2> QED
        BY <1>15, <2>1 DEF InFlightLost
<1>16. ASSUME NEW i \in Instance, Restart(i) PROVE TypeOK'
    BY <1>16 DEF Restart, Stage
<1>17. CASE UNCHANGED hubVars
    BY <1>17 DEF hubVars
<1> QED
    BY ZenonT(60), <1>1, <1>2, <1>3, <1>4, <1>5, <1>6, <1>7, <1>8, <1>9, <1>10, <1>11, <1>12,
       <1>13, <1>14, <1>15, <1>16, <1>17 DEF HubNext, ConnCalls, BusTask

\* Type correctness of the hub, whatever the connections, the bus tasks and
\* Redis do.
THEOREM TypeCorrect == HubSpec => []TypeOK
<1>1. HubInit => TypeOK
    BY DEF HubInit, TypeOK, Stage
<1> QED
    BY <1>1, TypeStep, PTL DEF HubSpec

-----------------------------------------------------------------------------

\* The steps that touch neither the bus task's nor Redis' subscriptions.
NotSubscribing ==
    \/ \E c \in Conn : ConnCalls(c)
    \/ \E i \in Instance : BusMessageArrives(i) \/ BusRestored(i) \/ InFlightLost(i)
    \/ \E d \in Device, m \in BusMessage : Publish(d, m)

LEMMA NotSubscribingStep == NotSubscribing => UNCHANGED <<subscribed, channels, link>>
BY ZenonT(60) DEF NotSubscribing, ConnCalls, Register, Subscribe, SubscribeTimeout, Receive,
       Unregister, Unsubscribe, BusMessageArrives, BusRestored, Publish, InFlightLost,
       redisVars, busVars

\* The bus task's own set and Redis' change together (run_bus).
LEMMA ChannelsStep == TypeOK /\ ChannelsMatch /\ [HubNext]_hubVars => ChannelsMatch'
<1> SUFFICES ASSUME TypeOK, ChannelsMatch, [HubNext]_hubVars PROVE ChannelsMatch'
    OBVIOUS
<1> USE DEF TypeOK, ChannelsMatch
<1>1. CASE NotSubscribing
    BY <1>1, NotSubscribingStep
<1>2. ASSUME NEW i \in Instance, BusSubscribe(i) PROVE ChannelsMatch'
    BY ZenonT(60), <1>2 DEF BusSubscribe
<1>3. ASSUME NEW i \in Instance, BusUnsubscribe(i) PROVE ChannelsMatch'
    BY Zenon, <1>3 DEF BusUnsubscribe
<1>4. ASSUME NEW i \in Instance, BusReconnect(i) PROVE ChannelsMatch'
    BY <1>4 DEF BusReconnect
<1>5. ASSUME NEW i \in Instance, NEW d \in Device, BusResubscribe(i, d) PROVE ChannelsMatch'
    BY Zenon, <1>5 DEF BusResubscribe
<1>6. ASSUME NEW S \in SUBSET Instance, LinkLost(S) PROVE ChannelsMatch'
    BY Zenon, <1>6 DEF LinkLost, busVars
<1>7. ASSUME NEW i \in Instance, Restart(i) PROVE ChannelsMatch'
    BY Zenon, <1>7 DEF Restart
<1>8. CASE UNCHANGED hubVars
    BY <1>8 DEF hubVars
<1> QED
    BY ZenonT(60), <1>1, <1>2, <1>3, <1>4, <1>5, <1>6, <1>7, <1>8 DEF HubNext, NotSubscribing, BusTask

\* Requests are queued by the connection they name and taken from the front.
LEMMA RequestsStep == TypeOK /\ RequestsOwned /\ [HubNext]_hubVars => RequestsOwned'
<1> SUFFICES ASSUME TypeOK, RequestsOwned, [HubNext]_hubVars PROVE RequestsOwned'
    OBVIOUS
<1> USE HubAssumption DEF TypeOK, RequestsOwned
<1>1. ASSUME NEW c \in Conn, Subscribe(c) PROVE RequestsOwned'
    <2> DEFINE r == [op |-> "subscribe", device |-> Owner[c], conn |-> c]
    <2>1. Home[c] \in Instance /\ r \in Request /\ r.conn = c /\ r.device = Owner[c]
        BY DEF Request
    <2> HIDE DEF r
    <2>2. requests' = [requests EXCEPT ![Home[c]] = Append(@, r)]
        BY <1>1 DEF Subscribe, r
    <2> QED
        BY <2>1, <2>2
<1>2. ASSUME NEW c \in Conn, Unsubscribe(c) PROVE RequestsOwned'
    BY <1>2 DEF Unsubscribe
<1>3. ASSUME NEW i \in Instance, BusSubscribe(i) \/ BusUnsubscribe(i) PROVE RequestsOwned'
    <2>1. requests' = [requests EXCEPT ![i] = Tail(@)] /\ requests[i] # <<>>
        BY Zenon, <1>3 DEF BusSubscribe, BusUnsubscribe
    <2> QED
        BY <2>1
<1>4. ASSUME NEW i \in Instance, Restart(i) PROVE RequestsOwned'
    BY <1>4 DEF Restart
<1>5. CASE UNCHANGED requests
    BY <1>5
<1> QED
    BY ZenonT(60), <1>1, <1>2, <1>3, <1>4, <1>5
       DEF HubNext, ConnCalls, BusTask, Register, SubscribeTimeout, Receive, Unregister,
           BusMessageArrives, BusReconnect, BusResubscribe, BusRestored, Publish,
           LinkLost, InFlightLost, hubVars

\* A confirmed current connection keeps its subscription: the check of
\* is_registered protects it from an older Unsubscribe, and a reconnect
\* re-subscribes everything that is registered.
LEMMA ReachableStep == HubInv /\ [HubNext]_hubVars => Reachable'
<1> SUFFICES ASSUME HubInv, [HubNext]_hubVars PROVE Reachable'
    OBVIOUS
<1> USE HubAssumption DEF HubInv, TypeOK, Reachable, Current, redisVars, busVars
<1>1. ASSUME NEW c \in Conn, Register(c) PROVE Reachable'
    BY <1>1 DEF Register
<1>2. ASSUME NEW c \in Conn, Subscribe(c) \/ SubscribeTimeout(c) \/ Unsubscribe(c)
      PROVE Reachable'
    BY <1>2 DEF Subscribe, SubscribeTimeout, Unsubscribe
<1>3. ASSUME NEW c \in Conn, Receive(c) PROVE Reachable'
    BY <1>3 DEF Receive
<1>4. ASSUME NEW c \in Conn, Unregister(c) PROVE Reachable'
    BY <1>4 DEF Unregister
<1>5. ASSUME NEW i \in Instance, BusSubscribe(i) PROVE Reachable'
    <2> DEFINE c == Head(requests[i]).conn
               d == Head(requests[i]).device
    <2>1. c \in Conn /\ Home[c] = i /\ Owner[c] = d
        BY <1>5, QueuedFacts DEF BusSubscribe, RequestsOwned
    <2>2. /\ UNCHANGED <<registry, link, bus, resub>>
          /\ \A j \in Instance : channels[j] \subseteq channels'[j]
          /\ \A x \in Conn : x # c => stage'[x] = stage[x]
        BY ZenonT(60), <1>5, <2>1 DEF BusSubscribe
    <2>3. /\ stage'[c] = "confirmed"
          /\ link[i] = "up"
          => d \in channels'[i] \/ stage[c] = "confirmed"
        BY <1>5, <2>1 DEF BusSubscribe, ChannelsMatch
    <2> QED
        BY <2>1, <2>2, <2>3
<1>6. ASSUME NEW i \in Instance, BusUnsubscribe(i) PROVE Reachable'
    <2>1. /\ UNCHANGED <<registry, link, bus, resub, stage>>
          /\ \A j \in Instance, d \in Device :
                d \in channels[j] /\ is_registered(j, d) => d \in channels'[j]
        BY <1>6 DEF BusUnsubscribe
    <2> QED
        BY <2>1 DEF is_registered
<1>7. ASSUME NEW i \in Instance, BusMessageArrives(i) PROVE Reachable'
    BY <1>7 DEF BusMessageArrives
<1>8. ASSUME NEW i \in Instance, BusReconnect(i) PROVE Reachable'
    BY <1>8 DEF BusReconnect, registered_devices, is_registered
<1>9. ASSUME NEW i \in Instance, NEW d \in Device, BusResubscribe(i, d) PROVE Reachable'
    BY <1>9 DEF BusResubscribe
<1>10. ASSUME NEW i \in Instance, BusRestored(i) PROVE Reachable'
    BY <1>10 DEF BusRestored
<1>11. ASSUME NEW d \in Device, NEW m \in BusMessage, Publish(d, m) PROVE Reachable'
    BY <1>11 DEF Publish
<1>12. ASSUME NEW S \in SUBSET Instance, LinkLost(S) PROVE Reachable'
    BY <1>12 DEF LinkLost
<1>13. ASSUME NEW i \in Instance, InFlightLost(i) PROVE Reachable'
    BY <1>13 DEF InFlightLost
<1>14. ASSUME NEW i \in Instance, Restart(i) PROVE Reachable'
    BY <1>14 DEF Restart
<1>15. CASE UNCHANGED hubVars
    BY <1>15 DEF hubVars
<1> QED
    BY ZenonT(60), <1>1, <1>2, <1>3, <1>4, <1>5, <1>6, <1>7, <1>8, <1>9, <1>10, <1>11, <1>12,
       <1>13, <1>14, <1>15 DEF HubNext, ConnCalls, BusTask

\* HubInv is an inductive invariant of the hub.
THEOREM HubInvariant == HubSpec => []HubInv
<1>1. HubInit => HubInv
    <2> SUFFICES ASSUME HubInit PROVE HubInv
        OBVIOUS
    <2>1. TypeOK
        BY DEF HubInit, TypeOK, Stage
    <2>2. ChannelsMatch /\ RequestsOwned /\ Reachable
        BY HubAssumption DEF HubInit, ChannelsMatch, RequestsOwned, Reachable, Current
    <2> QED
        BY <2>1, <2>2 DEF HubInv
<1>2. HubInv /\ [HubNext]_hubVars => HubInv'
    BY TypeStep, ChannelsStep, RequestsStep, ReachableStep DEF HubInv
<1> QED
    BY <1>1, <1>2, PTL DEF HubSpec

\* For any number of instances, devices and connections, the bus task's view
\* of its subscriptions is Redis' while its connection lives.
THEOREM ChannelsAlwaysMatch == HubSpec => []ChannelsMatch
BY HubInvariant, PTL DEF HubInv

\* For any number of instances, devices and connections, and whatever
\* connections are lost, an accepted current connection stays reachable on
\* its device's channel.
THEOREM AlwaysReachable == HubSpec => []Reachable
BY HubInvariant, PTL DEF HubInv
-----------------------------------------------------------------------------
(* Connections.                                                            *)

ConnInv == TypeOK /\ ConnTypeOK /\ StaleIsTold

\* Every step of a connection, of a bus task or of Redis is a step of the hub
\* or leaves the hub alone.
LEMMA HubStep == [Next]_vars => [HubNext]_hubVars
<1> SUFFICES ASSUME [Next]_vars PROVE [HubNext]_hubVars
    OBVIOUS
<1> USE HubAssumption DEF HubNext, ConnCalls
<1>1. ASSUME NEW c \in Conn, Task(c) PROVE [HubNext]_hubVars
    <2>1. CASE PublishReplace(c)
        <3>1. Owner[c] \in Device /\ Replace(c) \in BusMessage
            BY DEF Replace, BusMessage
        <3> QED
            BY <2>1, <3>1 DEF PublishReplace
    <2>2. CASE AskSubscription(c) \/ Deliver(c) \/ Finish(c) \/ FinishUnsubscribe(c)
        BY Zenon, <2>2 DEF AskSubscription, Deliver, Finish, FinishUnsubscribe
    <2>3. CASE SubscriptionRefused(c) \/ Claim(c) \/ AnnounceOnline(c)
        BY Zenon, <2>3 DEF SubscriptionRefused, Claim, AnnounceOnline
    <2>4. CASE Killed(c) \/ NextDelivery(c) \/ Release(c) \/ AnnounceOffline(c)
        BY Zenon, <2>4 DEF Killed, NextDelivery, Release, AnnounceOffline
    <2>5. CASE written(c) \/ RefreshTick(c) \/ refresh_presence(c)
        BY Zenon, <2>5 DEF written, RefreshTick, refresh_presence
    <2> QED
        BY Zenon, <1>1, <2>1, <2>2, <2>3, <2>4, <2>5 DEF Task
<1>2. ASSUME NEW c \in Conn, Outside(c) PROVE [HubNext]_hubVars
    <2>1. CASE PublishReplaceFails(c)
        <3>1. Owner[c] \in Device /\ Replace(c) \in BusMessage
            BY DEF Replace, BusMessage
        <3> QED
            BY <2>1, <3>1 DEF PublishReplaceFails
    <2>2. CASE Accept(c) \/ GiveUpSubscription(c)
        BY Zenon, <2>2 DEF Accept, GiveUpSubscription
    <2>3. CASE ClaimFails(c) \/ LoadPeersFails(c) \/ RefreshFails(c) \/ ReleaseFails(c)
        BY Zenon, <2>3 DEF ClaimFails, LoadPeersFails, RefreshFails, ReleaseFails
    <2>4. CASE ClientActs(c)
        BY Zenon, <2>4 DEF ClientActs
    <2> QED
        BY Zenon, <1>2, <2>1, <2>2, <2>3, <2>4 DEF Outside
<1>3. ASSUME NEW i \in Instance, RunBus(i) PROVE [HubNext]_hubVars
    BY <1>3 DEF RunBus
<1>4. ASSUME NEW d \in Device, PresenceExpires(d) \/ Remove(d) PROVE [HubNext]_hubVars
    <2>1. Close(CLOSE_NORMAL) \in BusMessage
        BY DEF BusMessage
    <2>2. CASE CloseRemoved(d)
        BY <2>1, <2>2 DEF CloseRemoved
    <2>3. CASE PresenceExpires(d) \/ DeleteDevice(d) \/ ClearPresence(d) \/ DropRemoval(d)
        BY Zenon, <2>3 DEF PresenceExpires, DeleteDevice, ClearPresence, DropRemoval
    <2> QED
        BY Zenon, <1>4, <2>2, <2>3 DEF Remove
<1>5. ASSUME NEW d \in Device, NEW m \in Traffic, Incoming(d, m) PROVE [HubNext]_hubVars
    BY <1>5 DEF Incoming
<1>6. ASSUME NEW i \in Instance, PubSubLost(i) PROVE [HubNext]_hubVars
    BY <1>6 DEF PubSubLost
<1>7. ASSUME NEW i \in Instance, PayloadLost(i) \/ InstanceRestarts(i)
      PROVE [HubNext]_hubVars
    BY <1>7 DEF PayloadLost, InstanceRestarts
<1>8. CASE RedisRestarts
    <2>1. {i \in Instance : link[i] = "up"} \in SUBSET Instance
        OBVIOUS
    <2> QED
        BY <1>8, <2>1 DEF RedisRestarts
<1>9. CASE UNCHANGED vars
    BY <1>9 DEF vars
<1> QED
    BY <1>1, <1>2, <1>3, <1>4, <1>5, <1>6, <1>7, <1>8, <1>9 DEF Next

\* The relay's connections implement the hub's specification: register,
\* subscribe, recv, unregister and unsubscribe are called in an order the hub
\* allows, in every interleaving of openings, failures and endings.
THEOREM ConnectionImplementsHub == Spec => HubSpec
<1>1. Init => HubInit
    BY DEF Init
<1> QED
    BY <1>1, HubStep, PTL DEF Spec, HubSpec

\* Hence a connection that has opened and is the current one of its instance
\* can be reached, also while others open, end and fail around it.
THEOREM ServedIsReachable == Spec => []Reachable
BY ConnectionImplementsHub, AlwaysReachable, PTL

-----------------------------------------------------------------------------

\* A connection ends with one of the reasons of End.
LEMMA EndFacts ==
    /\ ClientEnd \subseteq End
    /\ {Gone, CLOSE_INTERNAL, CLOSE_REPLACED} \subseteq End
    /\ \A m \in Delivery : m.type = "close" => m.code \in End
<1>1. ASSUME NEW m \in Delivery, m.type = "close" PROVE m = Close(CLOSE_NORMAL)
    BY <1>1 DEF Delivery, BusMessage, Resync, PairsChanged
<1> QED
    BY <1>1, ConnectionAssumption DEF End, Close

LEMMA ConnTypeStep == TypeOK /\ ConnTypeOK /\ [Next]_vars => ConnTypeOK'
<1> SUFFICES ASSUME TypeOK, ConnTypeOK, [Next]_vars PROVE ConnTypeOK'
    OBVIOUS
<1> USE HubAssumption, EndFacts DEF ConnTypeOK, Goto, EndWith, PC, Arms
<1>0. ASSUME NEW c \in Conn PROVE reload_peers(c) \subseteq Conn
    BY DEF reload_peers
<1>1. ASSUME NEW c \in Conn, Task(c) PROVE ConnTypeOK'
    <2>1. CASE Deliver(c)
        <3>1. PICK m : m = Head(inbox[c])
            OBVIOUS
        <3>2. m \in Delivery
            BY <2>1, <3>1 DEF Deliver, Receive, TypeOK
        <3>3. /\ on_delivery(c, m) /\ UNCHANGED <<presence, view, removing>>
              /\ loaded' \in {loaded, reload_peers(c)}
            BY Zenon, <2>1, <3>1 DEF Deliver
        <3>4. \/ \E l \in {"resync", "serve", "write"} : Goto(c, l) /\ UNCHANGED end
              \/ EndWith(c, CLOSE_REPLACED)
              \/ m.type = "close" /\ EndWith(c, m.code)
            BY Zenon, <3>3 DEF on_delivery
        <3>5. loaded' \subseteq Conn
            BY <1>0, <3>3
        <3>6. pc' \in [Conn -> PC] /\ end' \in [Conn -> End]
            BY <3>2, <3>4
        <3> QED
            BY Zenon, <3>3, <3>5, <3>6
    <2>2. CASE written(c) \/ RefreshTick(c) \/ NextDelivery(c)
        BY <2>2 DEF written, RefreshTick, NextDelivery
    <2>8. CASE refresh_presence(c)
        BY <1>0, <2>8 DEF refresh_presence, refresh
    <2>3. CASE Claim(c)
        BY <2>3 DEF Claim, claim
    <2>4. CASE Release(c)
        BY <2>4 DEF Release, release
    <2>5. CASE AnnounceOnline(c) \/ AnnounceOffline(c)
        BY <1>0, <2>5 DEF AnnounceOnline, AnnounceOffline
    <2>6. CASE SubscriptionRefused(c) \/ Killed(c)
        BY <2>6 DEF SubscriptionRefused, Killed
    <2>7. CASE AskSubscription(c) \/ PublishReplace(c) \/ Finish(c) \/ FinishUnsubscribe(c)
        BY <2>7 DEF AskSubscription, PublishReplace, Finish, FinishUnsubscribe, connVars
    <2> QED
        BY Zenon, <1>1, <2>1, <2>2, <2>3, <2>4, <2>5, <2>6, <2>7, <2>8 DEF Task
<1>2. ASSUME NEW c \in Conn, Outside(c) PROVE ConnTypeOK'
    <2>1. CASE ClaimFails(c)
        BY <2>1 DEF ClaimFails, claim
    <2>2. CASE ReleaseFails(c)
        BY <2>2 DEF ReleaseFails, release
    <2>3. CASE LoadPeersFails(c)
        BY <1>0, <2>3 DEF LoadPeersFails
    <2>4. CASE Accept(c) \/ GiveUpSubscription(c)
        BY <2>4 DEF Accept, GiveUpSubscription, connVars
    <2>5. CASE PublishReplaceFails(c)
        BY <2>5 DEF PublishReplaceFails, connVars
    <2>6. CASE ClientActs(c)
        BY <1>0, <2>6 DEF ClientActs
    <2>7. CASE RefreshFails(c)
        BY <1>0, <2>7 DEF RefreshFails, refresh
    <2> QED
        BY Zenon, <1>2, <2>1, <2>2, <2>3, <2>4, <2>5, <2>6, <2>7 DEF Outside
<1>3. ASSUME NEW d \in Device, PresenceExpires(d) \/ Remove(d) PROVE ConnTypeOK'
    BY <1>3 DEF PresenceExpires, Remove, DeleteDevice, ClearPresence, CloseRemoved,
                DropRemoval, Proceed, Removal
<1>4. ASSUME NEW i \in Instance, InstanceRestarts(i) PROVE ConnTypeOK'
    BY <1>4 DEF InstanceRestarts
<1>5. CASE RedisRestarts
    BY <1>5 DEF RedisRestarts
<1>6. CASE UNCHANGED connVars
    BY <1>6 DEF connVars
<1> QED
    BY ZenonT(60), <1>1, <1>2, <1>3, <1>4, <1>5, <1>6
       DEF Next, RunBus, Incoming, PubSubLost, PayloadLost, vars

-----------------------------------------------------------------------------

\* The connection has not left open and serve.
StillOpen(x) == pc[x] \in Opened

\* What is queued stays queued when the bus task adds to a queue.
LEMMA ToldStays ==
    ASSUME TypeOK, NEW x \in Conn, Told(x),
           \/ inbox'[x] = inbox[x]
           \/ \E m \in Delivery : inbox'[x] = Append(inbox[x], m)
    PROVE  Told(x)'
<1>1. inbox[x] \in Seq(Delivery)
    BY DEF TypeOK
<1>2. CASE inbox'[x] = inbox[x]
    BY <1>2 DEF Told
<1>3. ASSUME NEW m \in Delivery, inbox'[x] = Append(inbox[x], m) PROVE Told(x)'
    <2>1. PICK k \in 1..Len(inbox[x]) : inbox[x][k].type = "replace" /\ inbox[x][k].conn # x
        BY DEF Told
    <2>2. k \in 1..Len(inbox'[x]) /\ inbox'[x][k] = inbox[x][k]
        BY <1>1, <1>3
    <2> QED
        BY <2>1, <2>2 DEF Told
<1> QED
    BY <1>2, <1>3

LEMMA AppendedLast ==
  ASSUME NEW S, NEW q \in Seq(S), NEW e \in S
  PROVE  Len(q) + 1 \in 1..Len(Append(q, e)) /\ Append(q, e)[Len(q) + 1] = e
  OBVIOUS

\* Every step keeps a stale connection told.
LEMMA StaleStep == ConnInv /\ [Next]_vars => StaleIsTold'
<1> SUFFICES ASSUME ConnInv, [Next]_vars,
                    NEW x \in Conn, stage'[x] # "new", StillOpen(x)', Current(x)' # x
             PROVE  Told(x)'
    BY DEF StaleIsTold, StillOpen
<1> USE HubAssumption DEF StillOpen, Opened, Arms
<1>a. TypeOK /\ ConnTypeOK
    BY DEF ConnInv
<1>t. /\ registry \in [Instance -> [Device -> Conn \cup {None}]]
      /\ inbox \in [Conn -> Seq(Delivery)]
      /\ stage \in [Conn -> Stage]
      /\ pc \in [Conn -> PC]
    BY Zenon, <1>a DEF TypeOK, ConnTypeOK
<1>b. stage[x] # "new" /\ StillOpen(x) /\ Current(x) # x => Told(x)
    BY DEF ConnInv, StaleIsTold
<1>c. ASSUME UNCHANGED <<registry, inbox>>, stage[x] # "new", StillOpen(x) PROVE Told(x)'
    <2>1. Told(x)
        BY <1>b, <1>c DEF Current
    <2> QED
        BY <1>c, <2>1 DEF Told
<1>1. ASSUME NEW c \in Conn, Accept(c) PROVE Told(x)'
    <2>1. x # c
        BY <1>t, <1>1 DEF Accept, Register, Current
    <2>2. stage[x] # "new" /\ StillOpen(x)
        BY <1>t, <1>1, <2>1 DEF Accept, Register, connVars
    <2>3. CASE Current(x) = x
        <3>1. Current(c) = x
            BY <1>t, <1>1, <2>3 DEF Accept, Register, Current
        <3>2. inbox'[x] = Append(inbox[x], Replace(c))
            <4>1. Current(c) # None => inbox' = [inbox EXCEPT ![Current(c)] = Append(@, Replace(c))]
                BY Zenon, <1>1 DEF Accept, Register
            <4>2. inbox' = [inbox EXCEPT ![x] = Append(@, Replace(c))]
                BY <3>1, <4>1
            <4> QED
                BY Zenon, <1>t, <4>2
        <3>3. inbox[x] \in Seq(Delivery) /\ Replace(c) \in Delivery
            BY <1>t, DeliveryFacts
        <3>4. /\ Len(inbox[x]) + 1 \in 1..Len(inbox'[x])
              /\ inbox'[x][Len(inbox[x]) + 1] = Replace(c)
            <4>1. /\ Len(inbox[x]) + 1 \in 1..Len(Append(inbox[x], Replace(c)))
                  /\ Append(inbox[x], Replace(c))[Len(inbox[x]) + 1] = Replace(c)
                BY ZenonT(60), <3>3, AppendedLast
            <4> QED
                BY Zenon, <3>2, <4>1
        <3> QED
            BY <2>1, <3>4 DEF Told, Replace
    <2>4. CASE Current(x) # x
        <3>1. \/ inbox'[x] = inbox[x]
              \/ inbox'[x] = Append(inbox[x], Replace(c))
            BY <1>t, <1>1 DEF Accept, Register
        <3> QED
            BY <1>a, <1>b, <2>2, <2>4, <3>1, ToldStays, DeliveryFacts
    <2> QED
        BY <2>3, <2>4
<1>2. ASSUME NEW c \in Conn, Deliver(c) PROVE Told(x)'
    <2>1. UNCHANGED <<registry, stage>>
        BY Zenon, <1>2 DEF Deliver, Receive
    <2>2. CASE x # c
        <3>1. inbox'[x] = inbox[x] /\ pc'[x] = pc[x]
            <4>1. inbox' = [inbox EXCEPT ![c] = Tail(@)]
                BY Zenon, <1>2 DEF Deliver, Receive
            <4>2. PICK l : Goto(c, l)
                BY Zenon, <1>2 DEF Deliver, on_delivery, EndWith
            <4> QED
                BY <1>t, <2>2, <4>1, <4>2 DEF Goto
        <3> QED
            BY <1>a, <1>b, <2>1, <3>1, ToldStays DEF Current
    <2>3. CASE x = c
        <3>1. pc[c] = "recv" /\ inbox[c] # <<>> /\ inbox'[c] = Tail(inbox[c])
            BY <1>t, <1>2 DEF Deliver, Receive
        <3>2. ~(Head(inbox[c]).type = "replace" /\ Head(inbox[c]).conn # c)
            <4>1. Head(inbox[c]).type = "replace" /\ Head(inbox[c]).conn # c => Goto(c, "finish")
                BY <1>2 DEF Deliver, on_delivery, EndWith
            <4> QED
                BY <1>t, <2>3, <4>1 DEF Goto
        <3>3. Told(c)
            BY <1>b, <2>1, <2>3, <3>1 DEF Current
        <3>4. PICK k \in 1..Len(inbox[c]) :
                  inbox[c][k].type = "replace" /\ inbox[c][k].conn # c
            BY <3>3 DEF Told
        <3>5. inbox[c] \in Seq(Delivery)
            BY <1>t
        <3>6. k # 1
            BY <3>1, <3>2, <3>4, <3>5
        <3>7. k - 1 \in 1..Len(inbox'[c]) /\ inbox'[c][k - 1] = inbox[c][k]
            BY <3>1, <3>5, <3>6
        <3> QED
            BY <2>3, <3>4, <3>7 DEF Told
    <2> QED
        BY <2>2, <2>3
<1>3. ASSUME NEW c \in Conn, Finish(c) PROVE Told(x)'
    <2>1. x # c
        BY <1>t, <1>3 DEF Finish, Goto
    <2>2. inbox'[x] = inbox[x] /\ stage'[x] = stage[x] /\ pc'[x] = pc[x]
        BY <1>t, <1>3, <2>1 DEF Finish, Unregister, Goto
    <2>3. Current(x) # x
        BY <1>t, <1>3, <2>1 DEF Finish, Unregister, Current
    <2> QED
        BY <1>a, <1>b, <2>2, <2>3, ToldStays
<1>4. ASSUME NEW i \in Instance, RunBus(i) PROVE Told(x)'
    <2>1. UNCHANGED <<registry, pc>> /\ stage[x] # "new"
        <3>1. BusTask(i) /\ UNCHANGED pc
            BY Zenon, <1>4 DEF RunBus, connVars
        <3>2. CASE BusSubscribe(i)
            <4>1. PICK c, w : stage' = [stage EXCEPT ![c] = IF @ # "waiting" THEN @ ELSE w]
                BY Zenon, <3>2 DEF BusSubscribe
            <4>2. UNCHANGED registry
                BY Zenon, <3>2 DEF BusSubscribe
            <4> QED
                BY <1>t, <3>1, <4>1, <4>2
        <3>3. CASE BusUnsubscribe(i)
            BY Zenon, <3>1, <3>3 DEF BusUnsubscribe
        <3>4. CASE BusMessageArrives(i)
            BY Zenon, <3>1, <3>4 DEF BusMessageArrives
        <3>5. CASE \/ BusReconnect(i) \/ BusRestored(i)
                   \/ \E d \in Device : BusResubscribe(i, d)
            BY Zenon, <3>1, <3>5 DEF BusReconnect, BusResubscribe, BusRestored
        <3> QED
            BY Zenon, <3>1, <3>2, <3>3, <3>4, <3>5 DEF BusTask
    <2>2. Told(x)
        BY <1>b, <2>1 DEF Current
    <2>3. CASE BusMessageArrives(i)
        <3> DEFINE d == Head(stream[i]).device
                   m == decode(Head(stream[i]).payload)
        <3>1. d \in Device /\ m \in Delivery
            <4>1. stream[i] # <<>>
                BY Zenon, <2>3 DEF BusMessageArrives
            <4>2. stream[i] \in Seq(Published)
                BY <1>a DEF TypeOK
            <4>3. Head(stream[i]) \in Published
                BY <4>1, <4>2
            <4> QED
                BY Zenon, <4>3, QueuedFacts
        <3>2. dispatch(i, d, m)
            BY Zenon, <2>3 DEF BusMessageArrives
        <3> HIDE DEF d, m
        <3>3. \/ inbox' = inbox
              \/ inbox' = [inbox EXCEPT ![registry[i][d]] = Append(@, m)]
            BY Zenon, <3>2 DEF dispatch, queueVars
        <3>4. inbox'[x] = inbox[x] \/ inbox'[x] = Append(inbox[x], m)
            BY <1>t, <3>3
        <3> QED
            BY <1>a, <2>2, <3>1, <3>4, ToldStays
    <2>4. CASE BusRestored(i)
        <3>1. inbox'[x] = inbox[x] \/ inbox'[x] = Append(inbox[x], Resync)
            BY <2>4 DEF BusRestored
        <3> QED
            BY <1>a, <2>2, <3>1, ToldStays, DeliveryFacts
    <2>5. CASE UNCHANGED inbox
        BY <1>a, <2>2, <2>5, ToldStays
    <2> QED
        <3>1. BusSubscribe(i) \/ BusUnsubscribe(i) => UNCHANGED inbox
            BY Zenon DEF BusSubscribe, BusUnsubscribe, queueVars
        <3>2. BusReconnect(i) \/ (\E d \in Device : BusResubscribe(i, d)) => UNCHANGED inbox
            BY Zenon DEF BusReconnect, BusResubscribe, queueVars
        <3>3. BusTask(i)
            BY Zenon, <1>4 DEF RunBus
        <3> QED
            BY Zenon, <2>3, <2>4, <2>5, <3>1, <3>2, <3>3 DEF BusTask
<1>5. ASSUME NEW i \in Instance, InstanceRestarts(i) PROVE Told(x)'
    <2>1. Home[x] # i
        BY <1>5 DEF InstanceRestarts, Restart
    <2>2. inbox'[x] = inbox[x] /\ stage'[x] = stage[x] /\ pc'[x] = pc[x] /\ Current(x)' = Current(x)
        BY <1>t, <1>5, <2>1 DEF InstanceRestarts, Restart, Current
    <2> QED
        BY <1>a, <1>b, <2>2, ToldStays
<1> DEFINE Quiet == UNCHANGED <<registry, inbox>> /\ stage[x] # "new" /\ StillOpen(x)
<1>6. ASSUME NEW c \in Conn, Task(c), ~Deliver(c), ~Finish(c) PROVE Quiet
    <2>1. CASE AskSubscription(c)
        BY <1>t, <2>1 DEF AskSubscription, Subscribe, connVars, queueVars
    <2>2. CASE SubscriptionRefused(c) \/ Claim(c)
        BY <1>t, <2>2 DEF SubscriptionRefused, Claim, EndWith, Goto, hubVars
    <2>3. CASE AnnounceOnline(c) \/ Killed(c) \/ NextDelivery(c)
        BY <1>t, <2>3 DEF AnnounceOnline, Killed, NextDelivery, EndWith, Goto, hubVars
    <2>4. CASE PublishReplace(c)
        BY <1>t, <2>4 DEF PublishReplace, Publish, Goto, queueVars
    <2>5. CASE written(c) \/ RefreshTick(c) \/ refresh_presence(c)
        BY <1>t, <2>5 DEF written, RefreshTick, refresh_presence, EndWith, Goto, hubVars
    <2>6. CASE FinishUnsubscribe(c)
        BY <1>t, <2>6 DEF FinishUnsubscribe, Unsubscribe, Goto, queueVars
    <2>7. CASE Release(c) \/ AnnounceOffline(c)
        BY <1>t, <2>7 DEF Release, AnnounceOffline, Goto, hubVars
    <2> QED
        BY Zenon, <1>6, <2>1, <2>2, <2>3, <2>4, <2>5, <2>6, <2>7 DEF Task
<1>7. ASSUME NEW c \in Conn, Outside(c), ~Accept(c) PROVE Quiet
    <2>1. CASE GiveUpSubscription(c)
        BY <1>t, <2>1 DEF GiveUpSubscription, SubscribeTimeout, connVars, queueVars
    <2>2. CASE ClaimFails(c) \/ LoadPeersFails(c)
        BY <1>t, <2>2 DEF ClaimFails, LoadPeersFails, EndWith, Goto, hubVars
    <2>3. CASE ReleaseFails(c) \/ RefreshFails(c) \/ ClientActs(c)
        BY <1>t, <2>3 DEF ReleaseFails, RefreshFails, ClientActs, EndWith, Goto, hubVars
    <2>4. CASE PublishReplaceFails(c)
        BY <1>t, <2>4 DEF PublishReplaceFails, Publish, EndWith, Goto, hubVars, queueVars
    <2> QED
        BY Zenon, <1>7, <2>1, <2>2, <2>3, <2>4 DEF Outside
<1>8. ASSUME \/ \E d \in Device : PresenceExpires(d) \/ Remove(d)
             \/ \E d \in Device, m \in Traffic : Incoming(d, m)
             \/ \E i \in Instance : PubSubLost(i) \/ PayloadLost(i)
             \/ RedisRestarts
             \/ UNCHANGED vars
      PROVE  Quiet
    BY ZenonT(60), <1>8 DEF PresenceExpires, Remove, DeleteDevice, ClearPresence, CloseRemoved,
        DropRemoval, Incoming, PubSubLost, PayloadLost, RedisRestarts, LinkLost, InFlightLost, Publish, vars, hubVars, connVars,
        queueVars
<1>9. Quiet => Told(x)'
    BY Zenon, <1>c
<1> HIDE DEF Quiet
<1>10. ASSUME NEW c \in Conn, Task(c) \/ Outside(c) PROVE Told(x)'
    BY Zenon, <1>1, <1>2, <1>3, <1>6, <1>7, <1>9, <1>10
<1> QED
    BY Zenon, <1>4, <1>5, <1>8, <1>9, <1>10 DEF Next

LEMMA ConnInvariant == Spec => []ConnInv
<1>1. Init => ConnInv
    BY ConnectionAssumption, HubAssumption
       DEF Init, HubInit, ConnInv, TypeOK, ConnTypeOK, StaleIsTold, Stage, PC, End, Removal
<1>2. ConnInv /\ [Next]_vars => ConnInv'
    BY HubStep, TypeStep, ConnTypeStep, StaleStep DEF ConnInv
<1> QED
    BY <1>1, <1>2, PTL DEF Spec

\* The state of every connection has its shape at every await of run and
\* serve, in every interleaving with the bus task, lost links, failures and
\* restarts (ConnTypeOK).
THEOREM ConnTypeCorrect == Spec => []ConnTypeOK
<1>1. ConnInv => ConnTypeOK
    BY DEF ConnInv
<1> QED
    BY <1>1, ConnInvariant, PTL

\* For any number of instances, devices and connections: a connection that
\* another one replaces on the same instance has been sent the Replace, in
\* every interleaving with the bus task, lost links, failures and restarts.
THEOREM ReplacedIsTold == Spec => []StaleIsTold
<1>1. ConnInv => StaleIsTold
    BY DEF ConnInv
<1> QED
    BY <1>1, ConnInvariant, PTL

-----------------------------------------------------------------------------
(* The bytes of a queue.                                                   *)

LOCAL INSTANCE WellFoundedInduction

\* Induction over the naturals, for a set of them: what is not in it would
\* have a least element.
LEMMA NatSet ==
    ASSUME NEW S, 0 \in S, \A n \in Nat : n \in S => n + 1 \in S
    PROVE  \A n \in Nat : n \in S
<1> DEFINE T == Nat \ S
           R == OpToRel(<, Nat)
<1> SUFFICES ASSUME T # {} PROVE FALSE
    OBVIOUS
<1>1. T \subseteq Nat
    OBVIOUS
<1>2. IsWellFoundedOn(R, Nat)
    BY Zenon, NatLessThanWellFounded
<1>3. \A x, y \in Nat : <<x, y>> \in R <=> x < y
    BY DEF OpToRel
<1>4. PICK x \in T : \A y \in T : <<y, x>> \notin R
    <2> HIDE DEF R, T
    <2> QED
        BY Zenon, <1>1, <1>2, WFMin
<1> HIDE DEF R
<1>5. x \in Nat /\ x # 0 /\ x - 1 \in Nat
    OBVIOUS
<1>6. x - 1 \in T
    BY <1>5
<1>7. ~(x - 1 < x)
    BY Zenon, <1>3, <1>4, <1>5, <1>6
<1> QED
    BY <1>5, <1>7

\* The sums of the first n elements of queue q.
SumsOf(q, n, s) ==
    s = [k \in 0..n |-> IF k = 0 THEN 0 ELSE s[k - 1] + queued_len(q[k])]

LEMMA SumsExist == \A q : \A n \in Nat : \E s : SumsOf(q, n, s)
<1> SUFFICES ASSUME NEW q PROVE \A n \in Nat : \E s : SumsOf(q, n, s)
    OBVIOUS
<1> DEFINE S == {n \in Nat : \E s : SumsOf(q, n, s)}
<1>1. 0 \in S
    <2>1. SumsOf(q, 0, [k \in 0..0 |-> 0])
        BY DEF SumsOf
    <2> QED
        BY <2>1
<1>2. ASSUME NEW n \in Nat, n \in S PROVE n + 1 \in S
    <2>1. PICK s : SumsOf(q, n, s)
        BY Zenon, <1>2
    <2> DEFINE t == [k \in 0..(n + 1) |-> IF k = 0 THEN 0 ELSE s[k - 1] + queued_len(q[k])]
    <2>2. \A k \in 0..n : t[k] = s[k]
        BY <2>1 DEF SumsOf
    <2>3. \A k \in 1..(n + 1) : t[k - 1] = s[k - 1]
        <3> HIDE DEF t
        <3> QED
            BY <2>2
    <2>4. SumsOf(q, n + 1, t)
        <3> DEFINE u(k) == IF k = 0 THEN 0 ELSE s[k - 1] + queued_len(q[k])
                   v(k) == IF k = 0 THEN 0 ELSE t[k - 1] + queued_len(q[k])
                   D == 0..(n + 1)
        <3>1. t = [k \in D |-> u(k)]
            BY Zenon
        <3> HIDE DEF t
        <3>2. \A k \in D : k # 0 => k \in 1..(n + 1)
            OBVIOUS
        <3> HIDE DEF D
        <3>3. \A k \in D : u(k) = v(k)
            BY Zenon, <2>3, <3>2
        <3>4. t = [k \in D |-> v(k)]
            <4> HIDE DEF u, v
            <4> QED
                BY <3>1, <3>3
        <3> QED
            BY Zenon, <3>4 DEF SumsOf, D
    <2> QED
        BY <2>4
<1>3. \A n \in Nat : n \in S
    <2> HIDE DEF S
    <2> QED
        BY Zenon, <1>1, <1>2, NatSet
<1> QED
    BY <1>3

LEMMA BytesIs ==
    ASSUME NEW q, Len(q) \in Nat
    PROVE  \E s : SumsOf(q, Len(q), s) /\ Bytes(q) = s[Len(q)]
<1> DEFINE s == CHOOSE s : SumsOf(q, Len(q), s)
<1>1. SumsOf(q, Len(q), s)
    BY Zenon, SumsExist
<1>2. Bytes(q) = s[Len(q)]
    BY DEF Bytes, SumsOf
<1> HIDE DEF s
<1> QED
    BY Zenon, <1>1, <1>2

LEMMA SumsStep ==
    ASSUME NEW q, NEW n \in Nat, NEW s, SumsOf(q, n, s)
    PROVE  s[0] = 0 /\ \A k \in Nat : k < n => s[k + 1] = s[k] + queued_len(q[k + 1])
<1>1. s[0] = 0
    BY DEF SumsOf
<1>2. ASSUME NEW k \in Nat, k < n PROVE s[k + 1] = s[k] + queued_len(q[k + 1])
    <2>1. k + 1 \in 0..n /\ k + 1 # 0 /\ (k + 1) - 1 = k
        BY <1>2
    <2>2. s[k + 1] = s[(k + 1) - 1] + queued_len(q[k + 1])
        BY Zenon, <2>1 DEF SumsOf
    <2> QED
        BY <2>1, <2>2
<1> QED
    BY <1>1, <1>2

\* Queues with the same lengths at the front have the same sums there.
LEMMA SumsAgree ==
    ASSUME NEW q, NEW r, NEW n \in Nat, NEW m \in Nat, n <= m, NEW s, NEW t,
           SumsOf(q, n, s), SumsOf(r, m, t),
           \A k \in 1..n : queued_len(q[k]) = queued_len(r[k])
    PROVE  s[n] = t[n]
<1> DEFINE S == {k \in Nat : k <= n => s[k] = t[k]}
<1>0. /\ s[0] = 0 /\ t[0] = 0
      /\ \A k \in Nat : k < n => s[k + 1] = s[k] + queued_len(q[k + 1])
      /\ \A k \in Nat : k < m => t[k + 1] = t[k] + queued_len(r[k + 1])
    <2>1. s[0] = 0 /\ \A k \in Nat : k < n => s[k + 1] = s[k] + queued_len(q[k + 1])
        BY SumsStep
    <2>2. t[0] = 0 /\ \A k \in Nat : k < m => t[k + 1] = t[k] + queued_len(r[k + 1])
        BY SumsStep
    <2> QED
        BY Zenon, <2>1, <2>2
<1>1. 0 \in S
    BY <1>0
<1>2. ASSUME NEW k \in Nat, k \in S PROVE k + 1 \in S
    <2> SUFFICES ASSUME k + 1 <= n PROVE s[k + 1] = t[k + 1]
        OBVIOUS
    <2>1. k < n /\ k < m /\ s[k] = t[k] /\ queued_len(q[k + 1]) = queued_len(r[k + 1])
        BY <1>2
    <2> QED
        BY Zenon, <1>0, <2>1
<1>3. n \in S
    <2> HIDE DEF S
    <2> QED
        BY Zenon, <1>1, <1>2, NatSet
<1> QED
    BY <1>3

LEMMA BytesNat ==
    ASSUME NEW q \in Seq(Delivery) PROVE Bytes(q) \in Nat
<1>1. Len(q) \in Nat /\ \A k \in 1..Len(q) : queued_len(q[k]) \in Nat
    BY DeliveryFacts
<1>2. PICK s : SumsOf(q, Len(q), s) /\ Bytes(q) = s[Len(q)]
    BY Zenon, <1>1, BytesIs
<1> DEFINE S == {k \in Nat : k <= Len(q) => s[k] \in Nat}
<1>6. /\ s[0] = 0
      /\ \A k \in Nat : k < Len(q) => s[k + 1] = s[k] + queued_len(q[k + 1])
    BY Zenon, <1>1, <1>2, SumsStep
<1>3. 0 \in S
    BY <1>6
<1>4. ASSUME NEW k \in Nat, k \in S PROVE k + 1 \in S
    <2> SUFFICES ASSUME k + 1 <= Len(q) PROVE s[k + 1] \in Nat
        OBVIOUS
    <2>1. k < Len(q) /\ s[k] \in Nat /\ queued_len(q[k + 1]) \in Nat
        BY <1>1, <1>4
    <2>2. s[k + 1] = s[k] + queued_len(q[k + 1])
        BY Zenon, <1>6, <2>1
    <2> QED
        BY <2>1, <2>2
<1>5. Len(q) \in S
    <2> HIDE DEF S
    <2> QED
        BY Zenon, <1>1, <1>3, <1>4, NatSet
<1> QED
    BY <1>1, <1>2, <1>5

LEMMA BytesEmpty == Bytes(<<>>) = 0
<1>1. Len(<<>>) = 0
    OBVIOUS
<1>2. PICK s : SumsOf(<<>>, 0, s) /\ Bytes(<<>>) = s[0]
    BY <1>1, BytesIs
<1> QED
    BY <1>2, SumsStep

LEMMA BytesAppend ==
    ASSUME NEW q \in Seq(Delivery), NEW m \in Delivery
    PROVE  Bytes(Append(q, m)) = Bytes(q) + queued_len(m)
<1> DEFINE r == Append(q, m)
           n == Len(q)
<1>1. /\ n \in Nat /\ Len(r) = n + 1 /\ r[n + 1] = m
      /\ \A k \in 1..n : q[k] = r[k]
    OBVIOUS
<1>2. PICK s : SumsOf(q, n, s) /\ Bytes(q) = s[n]
    BY Zenon, <1>1, BytesIs
<1>3. PICK t : SumsOf(r, n + 1, t) /\ Bytes(r) = t[n + 1]
    <2>1. Len(r) \in Nat
        BY <1>1
    <2> HIDE DEF r, n
    <2> QED
        BY Zenon, <1>1, <2>1, BytesIs
<1> HIDE DEF r, n
<1>4. n + 1 \in Nat /\ n <= n + 1 /\ n < n + 1
    BY <1>1
<1>5. t[n + 1] = t[n] + queued_len(m)
    BY Zenon, <1>1, <1>3, <1>4, SumsStep
<1>6. \A k \in 1..n : queued_len(q[k]) = queued_len(r[k])
    BY Zenon, <1>1
<1>7. s[n] = t[n]
    BY <1>1, <1>2, <1>3, <1>4, <1>6, SumsAgree
<1> QED
    BY <1>2, <1>3, <1>5, <1>7 DEF r

LEMMA BytesTail ==
    ASSUME NEW q \in Seq(Delivery), q # <<>>
    PROVE  Bytes(Tail(q)) = Bytes(q) - queued_len(Head(q))
<1> DEFINE r == Tail(q)
           h == queued_len(q[1])
<1>1. PICK n \in Nat : Len(r) = n /\ Len(q) = n + 1
    <2>1. Len(r) \in Nat /\ Len(q) = Len(r) + 1
        OBVIOUS
    <2> QED
        BY Zenon, <2>1
<1>2. /\ Head(q) = q[1] /\ \A k \in 1..n : r[k] = q[k + 1]
      /\ h \in Nat
    BY <1>1, DeliveryFacts
<1>3. r \in Seq(Delivery)
    OBVIOUS
<1> HIDE DEF r, h
<1>4. n + 1 \in Nat
    OBVIOUS
<1>5. PICK s : SumsOf(q, n + 1, s) /\ Bytes(q) = s[n + 1]
    BY Zenon, <1>1, <1>4, BytesIs
<1>6. PICK t : SumsOf(r, n, t) /\ Bytes(r) = t[n]
    BY Zenon, <1>1, BytesIs
<1>7. /\ s[0] = 0 /\ t[0] = 0
      /\ \A k \in Nat : k < n + 1 => s[k + 1] = s[k] + queued_len(q[k + 1])
      /\ \A k \in Nat : k < n => t[k + 1] = t[k] + queued_len(r[k + 1])
    <2>1. s[0] = 0 /\ \A k \in Nat : k < n + 1 => s[k + 1] = s[k] + queued_len(q[k + 1])
        BY ZenonT(60), <1>4, <1>5, SumsStep
    <2>2. t[0] = 0 /\ \A k \in Nat : k < n => t[k + 1] = t[k] + queued_len(r[k + 1])
        BY Zenon, <1>6, SumsStep
    <2> QED
        BY Zenon, <2>1, <2>2
<1> DEFINE S == {k \in Nat : k <= n => s[k + 1] = t[k] + h /\ t[k] \in Nat}
<1>8. 0 \in S
    BY <1>2, <1>7 DEF h
<1>9. ASSUME NEW k \in Nat, k \in S PROVE k + 1 \in S
    <2> SUFFICES ASSUME k + 1 <= n PROVE s[k + 2] = t[k + 1] + h /\ t[k + 1] \in Nat
        OBVIOUS
    <2>1. /\ k < n /\ k + 1 < n + 1 /\ k + 1 \in Nat /\ (k + 1) + 1 = k + 2 /\ k + 1 \in 1..n
          /\ s[k + 1] = t[k] + h /\ t[k] \in Nat
        BY <1>9
    <2>2. s[k + 2] = s[k + 1] + queued_len(q[k + 2]) /\ r[k + 1] = q[k + 2]
        BY <1>2, <1>7, <2>1
    <2>3. t[k + 1] = t[k] + queued_len(r[k + 1])
        BY <1>7, <2>1
    <2>4. queued_len(r[k + 1]) \in Nat
        BY <1>1, <1>3, <2>1, DeliveryFacts
    <2> QED
        BY <1>2, <2>1, <2>2, <2>3, <2>4
<1>10. n \in S
    <2> HIDE DEF S
    <2> QED
        BY Zenon, <1>8, <1>9, NatSet
<1> QED
    BY <1>2, <1>5, <1>6, <1>10 DEF r, h

-----------------------------------------------------------------------------

\* The counter of a live connection is what waits in its queue.  Once it went
\* over the limit it counts at least that: the message that was dropped is
\* never given back.
CountKept(c) ==
    /\ Bytes(inbox[c]) <= MaxQueuedBytes
    /\ c \notin kill => queued[c] = Bytes(inbox[c])
    /\ Bytes(inbox[c]) <= queued[c]

QueueInv == \A c \in Conn : CountKept(c)

\* The steps that touch no queue.
NotQueueing ==
    \/ \E c \in Conn : Subscribe(c) \/ SubscribeTimeout(c) \/ Unsubscribe(c)
    \/ \E i \in Instance : BusSubscribe(i) \/ BusUnsubscribe(i) \/ BusReconnect(i)
    \/ \E i \in Instance, d \in Device : BusResubscribe(i, d)
    \/ \E i \in Instance : InFlightLost(i)
    \/ \E d \in Device, m \in BusMessage : Publish(d, m)
    \/ \E S \in SUBSET Instance : LinkLost(S)
    \/ UNCHANGED hubVars

LEMMA NotQueueingStep == NotQueueing => UNCHANGED queueVars
BY ZenonT(60) DEF NotQueueing, Subscribe, SubscribeTimeout, Unsubscribe, BusSubscribe,
       BusUnsubscribe, BusReconnect, BusResubscribe, InFlightLost, Publish, LinkLost,
       queueVars, hubVars

\* Being replaced and a resync count no bytes.
LEMMA FreeDeliveries ==
    ASSUME NEW q \in Seq(Delivery)
    PROVE  /\ Bytes(Append(q, Resync)) = Bytes(q)
           /\ \A c \in Conn : Bytes(Append(q, Replace(c))) = Bytes(q)
<1>1. Bytes(q) \in Nat
    BY BytesNat
<1>2. queued_len(Resync) = 0 /\ \A c \in Conn : queued_len(Replace(c)) = 0
    BY DEF queued_len, Resync, Replace
<1> QED
    BY <1>1, <1>2, DeliveryFacts, BytesAppend

LEMMA CountGrows == \A b, n \in Nat, q \in Int : b <= q => b <= q + n
    OBVIOUS

LEMMA CountFits ==
    \A b, n, max \in Nat, q \in Int : (b <= q /\ q + n <= max) => b + n <= max /\ b + n <= q + n
    OBVIOUS

LEMMA DispatchKeepsCount ==
    ASSUME TypeOK, QueueInv, NEW i \in Instance, NEW d \in Device, NEW m \in Delivery,
           dispatch(i, d, m)
    PROVE  QueueInv'
<1>1. CASE UNCHANGED queueVars
    BY Zenon, <1>1 DEF QueueInv, CountKept, queueVars
<1>2. CASE registry[i][d] # None
    <2>0. PICK k \in Conn : k = registry[i][d]
        BY <1>2 DEF TypeOK
    <2>1. inbox[k] \in Seq(Delivery) /\ queued[k] \in Int
        BY DEF TypeOK
    <2>2. /\ Bytes(inbox[k]) \in Nat /\ queued_len(m) \in Nat /\ MaxQueuedBytes \in Nat
          /\ Bytes(Append(inbox[k], m)) = Bytes(inbox[k]) + queued_len(m)
        BY <2>1, BytesNat, BytesAppend, DeliveryFacts, HubAssumption
    <2>3. CountKept(k)
        BY Zenon DEF QueueInv
    <2>4. queued' = [queued EXCEPT ![k] = queued[k] + queued_len(m)]
        BY Zenon, <1>2, <2>0 DEF dispatch
    <2>5. \/ queued[k] + queued_len(m) > MaxQueuedBytes /\ kill' = kill \cup {k} /\ inbox' = inbox
          \/ queued[k] + queued_len(m) <= MaxQueuedBytes /\ kill' = kill
                /\ inbox' = [inbox EXCEPT ![k] = Append(@, m)]
        BY Zenon, <1>2, <2>0 DEF dispatch
    <2>6. queued'[k] = queued[k] + queued_len(m)
        BY Zenon, <2>1, <2>4 DEF TypeOK
    <2>7. ASSUME queued[k] + queued_len(m) > MaxQueuedBytes, kill' = kill \cup {k}, inbox' = inbox
          PROVE  CountKept(k)'
        <3>1. inbox'[k] = inbox[k] /\ k \in kill'
            BY Zenon, <2>7
        <3>2. Bytes(inbox[k]) <= MaxQueuedBytes /\ Bytes(inbox[k]) <= queued[k]
            BY Zenon, <2>3 DEF CountKept
        <3>3. Bytes(inbox[k]) <= queued'[k]
            BY Zenon, <2>1, <2>2, <2>6, <3>2, CountGrows
        <3> QED
            BY Zenon, <3>1, <3>2, <3>3 DEF CountKept
    <2>8. ASSUME queued[k] + queued_len(m) <= MaxQueuedBytes, kill' = kill,
                 inbox' = [inbox EXCEPT ![k] = Append(@, m)]
          PROVE  CountKept(k)'
        <3>1. inbox'[k] = Append(inbox[k], m)
            BY Zenon, <2>1, <2>8 DEF TypeOK
        <3>2. Bytes(inbox[k]) <= queued[k] /\ (k \notin kill => queued[k] = Bytes(inbox[k]))
            BY Zenon, <2>3 DEF CountKept
        <3>3. Bytes(inbox'[k]) = Bytes(inbox[k]) + queued_len(m)
            BY Zenon, <2>2, <3>1
        <3>4. /\ Bytes(inbox[k]) + queued_len(m) <= MaxQueuedBytes
              /\ Bytes(inbox[k]) + queued_len(m) <= queued[k] + queued_len(m)
            BY Zenon, <2>1, <2>2, <2>8, <3>2, CountFits
        <3>5. Bytes(inbox'[k]) <= MaxQueuedBytes /\ Bytes(inbox'[k]) <= queued'[k]
            BY Zenon, <2>6, <3>3, <3>4
        <3>6. k \notin kill' => queued'[k] = Bytes(inbox'[k])
            BY Zenon, <2>6, <2>8, <3>2, <3>3
        <3> QED
            BY Zenon, <3>5, <3>6 DEF CountKept
    <2>9. ASSUME NEW c \in Conn, c # k PROVE CountKept(c)'
        <3>1. inbox'[c] = inbox[c] /\ queued'[c] = queued[c] /\ (c \in kill' <=> c \in kill)
            BY Zenon, <2>1, <2>4, <2>5, <2>9 DEF TypeOK
        <3> QED
            BY Zenon, <3>1 DEF CountKept, QueueInv
    <2> QED
        BY Zenon, <2>5, <2>7, <2>8, <2>9 DEF QueueInv
<1> QED
    BY Zenon, <1>1, <1>2 DEF dispatch

\* No step breaks the count: the bus task adds to it and the connection takes
\* from it.
LEMMA QueueStep == TypeOK /\ QueueInv /\ [HubNext]_hubVars => QueueInv'
<1> SUFFICES ASSUME TypeOK, QueueInv, [HubNext]_hubVars PROVE QueueInv'
    OBVIOUS
<1>0. /\ inbox \in [Conn -> Seq(Delivery)] /\ queued \in [Conn -> Int]
      /\ registry \in [Instance -> [Device -> Conn \cup {None}]]
    BY Zenon DEF TypeOK
<1>1. CASE NotQueueing
    BY Zenon, <1>1, NotQueueingStep DEF QueueInv, CountKept, queueVars
<1>2. ASSUME NEW c \in Conn, Register(c) PROVE QueueInv'
    <2>1. UNCHANGED <<queued, kill>>
        BY Zenon, <1>2 DEF Register
    <2>2. ASSUME NEW k \in Conn PROVE Bytes(inbox'[k]) = Bytes(inbox[k])
        <3>1. inbox'[k] = inbox[k] \/ inbox'[k] = Append(inbox[k], Replace(c))
            <4>1. inbox' = inbox \/ inbox' = [inbox EXCEPT ![Current(c)] = Append(@, Replace(c))]
                BY Zenon, <1>2 DEF Register
            <4> QED
                BY Zenon, <1>0, <4>1
        <3>2. inbox[k] \in Seq(Delivery)
            BY Zenon, <1>0
        <3> QED
            BY Zenon, <3>1, <3>2, FreeDeliveries
    <2> QED
        BY Zenon, <2>1, <2>2 DEF QueueInv, CountKept
<1>3. ASSUME NEW c \in Conn, Receive(c) PROVE QueueInv'
    <2>1. /\ inbox' = [inbox EXCEPT ![c] = Tail(@)]
          /\ queued' = [queued EXCEPT ![c] = @ - queued_len(Head(inbox[c]))]
          /\ kill' = kill /\ inbox[c] # <<>>
        BY Zenon, <1>3 DEF Receive
    <2>2. inbox[c] \in Seq(Delivery) /\ Head(inbox[c]) \in Delivery
        BY <1>0, <2>1
    <2>3. /\ Bytes(Tail(inbox[c])) = Bytes(inbox[c]) - queued_len(Head(inbox[c]))
          /\ Bytes(inbox[c]) \in Nat /\ queued_len(Head(inbox[c])) \in Nat
        BY Zenon, <2>1, <2>2, BytesTail, BytesNat, DeliveryFacts
    <2>4. /\ inbox'[c] = Tail(inbox[c])
          /\ queued'[c] = queued[c] - queued_len(Head(inbox[c]))
        BY Zenon, <1>0, <2>1
    <2>5. CountKept(c)
        BY Zenon DEF QueueInv
    <2>6. CountKept(c)'
        BY <1>0, <2>1, <2>3, <2>4, <2>5, HubAssumption DEF CountKept
    <2>7. ASSUME NEW k \in Conn, k # c PROVE CountKept(k)'
        <3>1. inbox'[k] = inbox[k] /\ queued'[k] = queued[k]
            BY Zenon, <1>0, <2>1, <2>7
        <3> QED
            BY Zenon, <2>1, <3>1 DEF QueueInv, CountKept
    <2> QED
        BY Zenon, <2>6, <2>7 DEF QueueInv
<1>4. ASSUME NEW c \in Conn, Unregister(c) PROVE QueueInv'
    <2>1. /\ inbox' = [inbox EXCEPT ![c] = <<>>]
          /\ queued' = [queued EXCEPT ![c] = 0]
          /\ kill' = kill \ {c}
        BY Zenon, <1>4 DEF Unregister
    <2>2. inbox'[c] = <<>> /\ queued'[c] = 0 /\ c \notin kill'
        BY Zenon, <1>0, <2>1
    <2>3. CountKept(c)'
        BY <2>2, BytesEmpty, HubAssumption DEF CountKept
    <2>4. ASSUME NEW k \in Conn, k # c PROVE CountKept(k)'
        <3>1. inbox'[k] = inbox[k] /\ queued'[k] = queued[k] /\ (k \in kill' <=> k \in kill)
            BY Zenon, <1>0, <2>1, <2>4
        <3> QED
            BY Zenon, <3>1 DEF QueueInv, CountKept
    <2> QED
        BY Zenon, <2>3, <2>4 DEF QueueInv
<1>5. ASSUME NEW i \in Instance, BusMessageArrives(i) PROVE QueueInv'
    <2>1. /\ Head(stream[i]).device \in Device
          /\ decode(Head(stream[i]).payload) \in Delivery
        <3>1. Head(stream[i]) \in Published
            BY <1>5 DEF BusMessageArrives, TypeOK
        <3> QED
            BY Zenon, <3>1, QueuedFacts
    <2>2. dispatch(i, Head(stream[i]).device, decode(Head(stream[i]).payload))
        BY Zenon, <1>5 DEF BusMessageArrives
    <2> QED
        BY Zenon, <2>1, <2>2, DispatchKeepsCount
<1>6. ASSUME NEW i \in Instance, BusRestored(i) PROVE QueueInv'
    <2>1. UNCHANGED <<queued, kill>>
        BY Zenon, <1>6 DEF BusRestored
    <2>2. ASSUME NEW k \in Conn PROVE Bytes(inbox'[k]) = Bytes(inbox[k])
        <3>1. inbox'[k] = inbox[k] \/ inbox'[k] = Append(inbox[k], Resync)
            BY Zenon, <1>6 DEF BusRestored
        <3>2. inbox[k] \in Seq(Delivery)
            BY Zenon, <1>0
        <3> QED
            BY Zenon, <3>1, <3>2, FreeDeliveries
    <2> QED
        BY Zenon, <2>1, <2>2 DEF QueueInv, CountKept
<1>7. ASSUME NEW i \in Instance, Restart(i) PROVE QueueInv'
    <2> SUFFICES ASSUME NEW k \in Conn PROVE CountKept(k)'
        BY Zenon DEF QueueInv
    <2>1. CASE Home[k] = i
        <3>1. inbox'[k] = <<>> /\ queued'[k] = 0 /\ k \notin kill'
            BY Zenon, <1>7, <2>1 DEF Restart
        <3> QED
            BY <3>1, BytesEmpty, HubAssumption DEF CountKept
    <2>2. CASE Home[k] # i
        <3>1. inbox'[k] = inbox[k] /\ queued'[k] = queued[k] /\ (k \in kill' <=> k \in kill)
            BY Zenon, <1>7, <2>2 DEF Restart
        <3> QED
            BY Zenon, <3>1 DEF QueueInv, CountKept
    <2> QED
        BY Zenon, <2>1, <2>2
<1> QED
    BY ZenonT(60), <1>1, <1>2, <1>3, <1>4, <1>5, <1>6, <1>7
       DEF HubNext, ConnCalls, BusTask, NotQueueing

LEMMA QueueInvariant == HubSpec => []QueueInv
<1>1. HubInit => QueueInv
    BY BytesEmpty, HubAssumption DEF HubInit, QueueInv, CountKept
<1> QED
    BY <1>1, QueueStep, TypeCorrect, PTL DEF HubSpec

\* For any limit, any messages and any number of connections, a queue never
\* holds more bytes than max_queued_bytes (hub.rs dispatch): the message that
\* would go over it is dropped and its connection killed.
THEOREM QueuesBounded == HubSpec => []QueueBounded
<1>1. QueueInv => QueueBounded
    BY Zenon DEF QueueInv, CountKept, QueueBounded
<1> QED
    BY <1>1, QueueInvariant, PTL

\* The byte counter that the bus task and the connection both change agrees
\* with the queue for as long as the connection is not killed, also across
\* replacements, resyncs and restarts.
THEOREM QueuesAccounted == HubSpec => []QueueAccounted
<1>1. QueueInv => QueueAccounted
    BY Zenon DEF QueueInv, CountKept, QueueAccounted
<1> QED
    BY <1>1, QueueInvariant, PTL

\* Both hold of the relay's connections, whose only use of a queue is the
\* hub's.
THEOREM ServedQueues == Spec => [](QueueBounded /\ QueueAccounted)
BY ConnectionImplementsHub, QueuesBounded, QueuesAccounted, PTL
=============================================================================
