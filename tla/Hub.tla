-------------------------------- MODULE Hub --------------------------------
(***************************************************************************)
(* The hub of each relay instance (relay/hub.rs): the registry of local    *)
(* connections, the bus task that owns the Redis pub/sub connection, and   *)
(* the delivery queue of every connection.  The life of a connection is    *)
(* kept here only as far as the hub sees it (stage); Connection refines it.*)
(***************************************************************************)
EXTENDS Bus, Integers

CONSTANTS
    Instance,           \* relay instances (settings.instance_id)
    None,               \* no connection
    Home,               \* the instance a connection is accepted by
    Owner,              \* the device a connection belongs to
    Traffic,            \* the messages that may be published
    MaxQueuedBytes      \* settings.max_queued_bytes

ASSUME HubAssumption ==
    /\ Home \in [Conn -> Instance]
    /\ Owner \in [Conn -> Device]
    /\ Traffic \subseteq BusMessage
    /\ None \notin Conn
    /\ MaxQueuedBytes \in Nat

VARIABLES
    registry,       \* Hub.registry of each instance: the current connection
    requests,       \* the bus task's request channel (FIFO)
    subscribed,     \* run_bus's own set of subscribed devices
    channels,       \* Redis: channels the instance's pub/sub connection has
    link,           \* the pub/sub connection of the instance
    bus,            \* what the bus task is doing
    resub,          \* devices still to re-subscribe after a reconnect
    stream,         \* published payloads on their way to the instance (FIFO)
    inbox,          \* the delivery queue (tx/rx) of a connection
    queued,         \* its byte counter
    kill,           \* the connections with a kill permit
    stage           \* how far the connection got with the hub

hubVars == <<registry, requests, subscribed, channels, link, bus, resub,
             stream, inbox, queued, kill, stage>>

redisVars == <<channels, link, stream>>
busVars == <<subscribed, bus, resub>>
queueVars == <<inbox, queued, kill>>

Resync == [type |-> "resync"]

Delivery == BusMessage \cup {Resync}

Request ==
    [op : {"subscribe"}, device : Device, conn : Conn]
      \cup [op : {"unsubscribe"}, device : Device]

Published == [device : Device, payload : {encode(m) : m \in BusMessage}]

Stage == {"new", "registered", "waiting", "refused", "confirmed", "left", "gone"}

TypeOK ==
    /\ registry \in [Instance -> [Device -> Conn \cup {None}]]
    /\ requests \in [Instance -> Seq(Request)]
    /\ subscribed \in [Instance -> SUBSET Device]
    /\ channels \in [Instance -> SUBSET Device]
    /\ link \in [Instance -> {"up", "down"}]
    /\ bus \in [Instance -> {"select", "restore"}]
    /\ resub \in [Instance -> SUBSET Device]
    /\ stream \in [Instance -> Seq(Published)]
    /\ inbox \in [Conn -> Seq(Delivery)]
    /\ queued \in [Conn -> Int]
    /\ kill \subseteq Conn
    /\ stage \in [Conn -> Stage]

HubInit ==
    /\ registry = [i \in Instance |-> [d \in Device |-> None]]
    /\ requests = [i \in Instance |-> <<>>]
    /\ subscribed = [i \in Instance |-> {}]
    /\ channels = [i \in Instance |-> {}]
    /\ link = [i \in Instance |-> "up"]
    /\ bus = [i \in Instance |-> "select"]
    /\ resub = [i \in Instance |-> {}]
    /\ stream = [i \in Instance |-> <<>>]
    /\ inbox = [c \in Conn |-> <<>>]
    /\ queued = [c \in Conn |-> 0]
    /\ kill = {}
    /\ stage = [c \in Conn |-> "new"]

\* The connection the instance would deliver a message for c's device to.
Current(c) == registry[Home[c]][Owner[c]]

is_registered(i, d) == registry[i][d] # None

registered_devices(i) == {d \in Device : is_registered(i, d)}

-----------------------------------------------------------------------------
(* Calls made by a connection's task.                                       *)

\* Mutant: the connection replaced is not told.
RegisterUntold(c) ==
    /\ stage[c] = "new"
    /\ stage' = [stage EXCEPT ![c] = "registered"]
    /\ registry' = [registry EXCEPT ![Home[c]][Owner[c]] = c]
    /\ UNCHANGED <<requests, redisVars, busVars, queueVars>>

\* Become the device's local connection; the one replaced is told directly.
Register(c) ==
    /\ stage[c] = "new"
    /\ stage' = [stage EXCEPT ![c] = "registered"]
    /\ registry' = [registry EXCEPT ![Home[c]][Owner[c]] = c]
    /\ inbox' = IF Current(c) = None
                  THEN inbox
                  ELSE [inbox EXCEPT ![Current(c)] = Append(@, Replace(c))]
    /\ UNCHANGED <<requests, redisVars, busVars, queued, kill>>

\* Queue the request to subscribe and wait for the bus task's answer.
Subscribe(c) ==
    /\ stage[c] = "registered"
    /\ stage' = [stage EXCEPT ![c] = "waiting"]
    /\ requests' = [requests EXCEPT ![Home[c]] =
                      Append(@, [op |-> "subscribe", device |-> Owner[c], conn |-> c])]
    /\ UNCHANGED <<registry, redisVars, busVars, queueVars>>

\* SUBSCRIBE_TIMEOUT passed; the request stays queued.
SubscribeTimeout(c) ==
    /\ stage[c] = "waiting"
    /\ stage' = [stage EXCEPT ![c] = "refused"]
    /\ UNCHANGED <<registry, requests, redisVars, busVars, queueVars>>

\* Mutant: the bytes of a delivery are not given back.
ReceiveUncounted(c) ==
    /\ stage[c] = "confirmed"
    /\ inbox[c] # <<>>
    /\ inbox' = [inbox EXCEPT ![c] = Tail(@)]
    /\ UNCHANGED <<registry, requests, redisVars, busVars, queued, kill, stage>>

\* rx.recv: take the next delivery and give its bytes back.
Receive(c) ==
    /\ stage[c] = "confirmed"
    /\ inbox[c] # <<>>
    /\ inbox' = [inbox EXCEPT ![c] = Tail(@)]
    /\ queued' = [queued EXCEPT ![c] = @ - queued_len(Head(inbox[c]))]
    /\ UNCHANGED <<registry, requests, redisVars, busVars, kill, stage>>

\* Leave the registry, unless a newer local connection has taken the place.
\* What is left in the queue is dropped with the connection.
Unregister(c) ==
    /\ stage[c] \in {"confirmed", "refused"}
    /\ inbox' = [inbox EXCEPT ![c] = <<>>]
    /\ queued' = [queued EXCEPT ![c] = 0]
    /\ kill' = kill \ {c}
    /\ registry' = [registry EXCEPT ![Home[c]][Owner[c]] = IF @ = c THEN None ELSE @]
    /\ stage' = [stage EXCEPT ![c] = IF Current(c) = c THEN "left" ELSE "gone"]
    /\ UNCHANGED <<requests, redisVars, busVars>>

Unsubscribe(c) ==
    /\ stage[c] = "left"
    /\ stage' = [stage EXCEPT ![c] = "gone"]
    /\ requests' = [requests EXCEPT ![Home[c]] =
                      Append(@, [op |-> "unsubscribe", device |-> Owner[c]])]
    /\ UNCHANGED <<registry, redisVars, busVars, queueVars>>

-----------------------------------------------------------------------------
(* The bus task of instance i: one arm of its select per step.              *)

\* Mutant: the device is noted and confirmed, and SUBSCRIBE is not sent.
BusSubscribeUnsent(i) ==
    /\ bus[i] = "select"
    /\ requests[i] # <<>>
    /\ Head(requests[i]).op = "subscribe"
    /\ subscribed' = [subscribed EXCEPT ![i] = @ \cup {Head(requests[i]).device}]
    /\ stage' = [stage EXCEPT ![Head(requests[i]).conn] = IF @ = "waiting" THEN "confirmed" ELSE @]
    /\ requests' = [requests EXCEPT ![i] = Tail(@)]
    /\ UNCHANGED <<registry, redisVars, bus, resub, queueVars>>

\* An already subscribed device is confirmed without asking Redis; SUBSCRIBE
\* fails when the connection is lost.  A waiter that timed out is ignored.
BusSubscribe(i) ==
    /\ bus[i] = "select"
    /\ requests[i] # <<>>
    /\ Head(requests[i]).op = "subscribe"
    /\ LET d == Head(requests[i]).device
           c == Head(requests[i]).conn
           ok == d \in subscribed[i] \/ link[i] = "up"
       IN /\ subscribed' = [subscribed EXCEPT ![i] = IF ok THEN @ \cup {d} ELSE @]
          /\ channels' = [channels EXCEPT ![i] =
                            IF link[i] = "up" /\ d \notin subscribed[i]
                              THEN @ \cup {d} ELSE @]
          /\ stage' = [stage EXCEPT ![c] =
                         IF @ # "waiting" THEN @ ELSE IF ok THEN "confirmed" ELSE "refused"]
    /\ requests' = [requests EXCEPT ![i] = Tail(@)]
    /\ UNCHANGED <<registry, link, stream, bus, resub, queueVars>>

\* Mutant: the registry is not asked before unsubscribing.
BusUnsubscribeUnasked(i) ==
    /\ bus[i] = "select"
    /\ requests[i] # <<>>
    /\ Head(requests[i]).op = "unsubscribe"
    /\ subscribed' = [subscribed EXCEPT ![i] = @ \ {Head(requests[i]).device}]
    /\ channels' = [channels EXCEPT ![i] = @ \ {Head(requests[i]).device}]
    /\ requests' = [requests EXCEPT ![i] = Tail(@)]
    /\ UNCHANGED <<registry, link, stream, bus, resub, queueVars, stage>>

\* Only when no local connection serves the device any more.
BusUnsubscribe(i) ==
    /\ bus[i] = "select"
    /\ requests[i] # <<>>
    /\ Head(requests[i]).op = "unsubscribe"
    /\ LET d == Head(requests[i]).device
           dropped == IF is_registered(i, d) \/ d \notin subscribed[i] THEN {} ELSE {d}
       IN /\ subscribed' = [subscribed EXCEPT ![i] = @ \ dropped]
          /\ channels' = [channels EXCEPT ![i] = @ \ dropped]
    /\ requests' = [requests EXCEPT ![i] = Tail(@)]
    /\ UNCHANGED <<registry, link, stream, bus, resub, queueVars, stage>>

\* Mutant: fetch_add's old value is compared with the limit.
DispatchLate(i, d, m) ==
    LET c == registry[i][d]
    IN \/ /\ c = None
          /\ UNCHANGED queueVars
       \/ /\ c # None
          /\ queued' = [queued EXCEPT ![c] = @ + queued_len(m)]
          /\ kill' = IF queued[c] > MaxQueuedBytes THEN kill \cup {c} ELSE kill
          /\ inbox' = IF queued[c] > MaxQueuedBytes THEN inbox
                        ELSE [inbox EXCEPT ![c] = Append(@, m)]

\* Hand message m to the local connection of device d; a connection over its
\* byte limit is killed and the message dropped, its bytes still counted.
dispatch(i, d, m) ==
    LET c == registry[i][d]
        total == queued[c] + queued_len(m)
    IN \/ /\ c = None
          /\ UNCHANGED queueVars
       \/ /\ c # None
          /\ total > MaxQueuedBytes
          /\ queued' = [queued EXCEPT ![c] = total]
          /\ kill' = kill \cup {c}
          /\ UNCHANGED inbox
       \/ /\ c # None
          /\ total <= MaxQueuedBytes
          /\ queued' = [queued EXCEPT ![c] = total]
          /\ inbox' = [inbox EXCEPT ![c] = Append(@, m)]
          /\ UNCHANGED kill

BusMessageArrives(i) ==
    /\ bus[i] = "select"
    /\ stream[i] # <<>>
    /\ dispatch(i, Head(stream[i]).device, decode(Head(stream[i]).payload))
    /\ stream' = [stream EXCEPT ![i] = Tail(@)]
    /\ UNCHANGED <<registry, requests, channels, link, busVars, stage>>

\* Mutant: the set of subscribed devices survives the lost connection.
BusReconnectKeeps(i) ==
    /\ bus[i] = "select"
    /\ link[i] = "down"
    /\ stream[i] = <<>>
    /\ link' = [link EXCEPT ![i] = "up"]
    /\ resub' = [resub EXCEPT ![i] = registered_devices(i)]
    /\ bus' = [bus EXCEPT ![i] = "restore"]
    /\ UNCHANGED <<registry, requests, subscribed, channels, stream, queueVars, stage>>

\* The stream ended: reconnect, and re-subscribe what is registered now.
BusReconnect(i) ==
    /\ bus[i] = "select"
    /\ link[i] = "down"
    /\ stream[i] = <<>>
    /\ link' = [link EXCEPT ![i] = "up"]
    /\ subscribed' = [subscribed EXCEPT ![i] = {}]
    /\ resub' = [resub EXCEPT ![i] = registered_devices(i)]
    /\ bus' = [bus EXCEPT ![i] = "restore"]
    /\ UNCHANGED <<registry, requests, channels, stream, queueVars, stage>>

\* One turn of the re-subscribe loop; a failed SUBSCRIBE is skipped.
BusResubscribe(i, d) ==
    /\ bus[i] = "restore"
    /\ d \in resub[i]
    /\ resub' = [resub EXCEPT ![i] = @ \ {d}]
    /\ LET added == IF link[i] = "up" THEN {d} ELSE {}
       IN /\ subscribed' = [subscribed EXCEPT ![i] = @ \cup added]
          /\ channels' = [channels EXCEPT ![i] = @ \cup added]
    /\ UNCHANGED <<registry, requests, link, stream, bus, queueVars, stage>>

\* broadcast_resync, then back to the select loop.
BusRestored(i) ==
    /\ bus[i] = "restore"
    /\ resub[i] = {}
    /\ bus' = [bus EXCEPT ![i] = "select"]
    /\ inbox' = [c \in Conn |-> IF Home[c] = i /\ Current(c) = c
                                  THEN Append(inbox[c], Resync) ELSE inbox[c]]
    /\ UNCHANGED <<registry, requests, redisVars, subscribed, resub, queued, kill, stage>>

-----------------------------------------------------------------------------
(* Redis and the processes.                                                 *)

\* PUBLISH dev:<d>: every subscribed instance gets the payload.
Delivered(d, m) ==
    stream' = [i \in Instance |->
                 IF d \in channels[i]
                   THEN Append(stream[i], [device |-> d, payload |-> encode(m)])
                   ELSE stream[i]]

Publish(d, m) ==
    /\ m \in Traffic
    /\ Delivered(d, m)
    /\ UNCHANGED <<registry, requests, channels, link, busVars, queueVars, stage>>

\* The pub/sub connections of S break: Redis forgets their subscriptions.
LinkLost(S) ==
    /\ S # {}
    /\ \A i \in S : link[i] = "up"
    /\ link' = [i \in Instance |-> IF i \in S THEN "down" ELSE link[i]]
    /\ channels' = [i \in Instance |-> IF i \in S THEN {} ELSE channels[i]]
    /\ UNCHANGED <<registry, requests, stream, busVars, queueVars, stage>>

\* The last payload that was on its way over a broken connection is lost.
InFlightLost(i) ==
    /\ link[i] = "down"
    /\ stream[i] # <<>>
    /\ stream' = [stream EXCEPT ![i] = SubSeq(@, 1, Len(@) - 1)]
    /\ UNCHANGED <<registry, requests, channels, link, busVars, queueVars, stage>>

\* Instance i dies with its connections and starts again under the same id.
Restart(i) ==
    /\ registry' = [registry EXCEPT ![i] = [d \in Device |-> None]]
    /\ requests' = [requests EXCEPT ![i] = <<>>]
    /\ subscribed' = [subscribed EXCEPT ![i] = {}]
    /\ channels' = [channels EXCEPT ![i] = {}]
    /\ link' = [link EXCEPT ![i] = "up"]
    /\ bus' = [bus EXCEPT ![i] = "select"]
    /\ resub' = [resub EXCEPT ![i] = {}]
    /\ stream' = [stream EXCEPT ![i] = <<>>]
    /\ stage' = [c \in Conn |-> IF Home[c] = i /\ stage[c] # "new" THEN "gone" ELSE stage[c]]
    /\ inbox' = [c \in Conn |-> IF Home[c] = i THEN <<>> ELSE inbox[c]]
    /\ queued' = [c \in Conn |-> IF Home[c] = i THEN 0 ELSE queued[c]]
    /\ kill' = {c \in kill : Home[c] # i}

-----------------------------------------------------------------------------

ConnCalls(c) ==
    \/ Register(c)
    \/ Subscribe(c)
    \/ SubscribeTimeout(c)
    \/ Receive(c)
    \/ Unregister(c)
    \/ Unsubscribe(c)

BusTask(i) ==
    \/ BusSubscribe(i)
    \/ BusUnsubscribe(i)
    \/ BusMessageArrives(i)
    \/ BusReconnect(i)
    \/ \E d \in Device : BusResubscribe(i, d)
    \/ BusRestored(i)

HubNext ==
    \/ \E c \in Conn : ConnCalls(c)
    \/ \E i \in Instance : BusTask(i)
    \/ \E d \in Device, m \in BusMessage : Publish(d, m)
    \/ \E S \in SUBSET Instance : LinkLost(S)
    \/ \E i \in Instance : InFlightLost(i) \/ Restart(i)

HubSpec == HubInit /\ [][HubNext]_hubVars

-----------------------------------------------------------------------------

\* Redis holds exactly the channels the bus task believes it subscribed, as
\* long as the pub/sub connection lives.
ChannelsMatch ==
    \A i \in Instance : channels[i] = IF link[i] = "up" THEN subscribed[i] ELSE {}

\* A connection that Redis confirmed and that is still its device's current
\* local connection is reachable: its instance is subscribed to the device's
\* channel, or its bus task is in the re-subscribe loop that still has the
\* device to do.  This is what lets the Unsubscribe of an older connection, a
\* Subscribe and a reconnect interleave freely.
Reachable ==
    \A c \in Conn :
        /\ stage[c] = "confirmed"
        /\ Current(c) = c
        /\ link[Home[c]] = "up"
        => \/ Owner[c] \in channels[Home[c]]
           \/ bus[Home[c]] = "restore" /\ Owner[c] \in resub[Home[c]]

\* A Subscribe request waits at the instance and for the device of the
\* connection that sent it.
RequestsOwned ==
    \A i \in Instance : \A k \in 1..Len(requests[i]) :
        requests[i][k].op = "subscribe" =>
            /\ Home[requests[i][k].conn] = i
            /\ Owner[requests[i][k].conn] = requests[i][k].device

\* Bytes waiting in a delivery queue.
Bytes(q) ==
    LET sum[k \in 0..Len(q)] == IF k = 0 THEN 0 ELSE sum[k - 1] + queued_len(q[k])
    IN  sum[Len(q)]

\* What waits in a connection's queue never holds more than max_queued_bytes,
\* whatever is published and however slowly the device reads (hub.rs
\* dispatch against the serve loop's recv).
QueueBounded == \A c \in Conn : Bytes(inbox[c]) <= MaxQueuedBytes

\* Until the connection is killed its byte counter, raised by the bus task
\* and lowered by the connection, is exactly what waits in its queue.
QueueAccounted == \A c \in Conn : c \notin kill => queued[c] = Bytes(inbox[c])
=============================================================================
