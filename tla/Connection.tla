----------------------------- MODULE Connection -----------------------------
(***************************************************************************)
(* The life of a /v1/relay connection (relay/connection.rs, the control    *)
(* messages of relay/outbound.rs) over the hub, and the presence keys in   *)
(* Redis (relay/presence.rs).  Every await of open, of an arm of the       *)
(* serve loop and of finish that another task can observe is a step of its *)
(* own.                                                                    *)
(*                                                                         *)
(* The device's peers are seen from outside: view[d] is the last online or *)
(* offline message published about d.  Publishes to one channel reach a    *)
(* connected peer in order, so it is also what such a peer last saw.       *)
(***************************************************************************)
EXTENDS Hub

CONSTANTS
    Fault,          \* what may fail: "timeout", "redis", "load", and "tell" for
                    \* what is published to the peers
    ClientEnd       \* what a device does: the ways it ends its connection, and
                    \* Running for what is only answered

CLOSE_BAD_REQUEST == 4400
CLOSE_REPLACED == 4409
CLOSE_IDLE == 4411
CLOSE_INTERNAL == 4500

\* End::Gone and End::ClientClosed; End::Close(code) is its code.
Running == 0
Gone == 1
ClientClosed == 2

End == {Running, Gone, ClientClosed, CLOSE_NORMAL, CLOSE_BAD_REQUEST,
        CLOSE_REPLACED, CLOSE_IDLE, CLOSE_INTERNAL}

ASSUME ConnectionAssumption ==
    /\ None \notin Instance
    /\ Fault \subseteq {"timeout", "redis", "load", "tell"}
    /\ ClientEnd \subseteq {Running, Gone, ClientClosed, CLOSE_BAD_REQUEST,
                           CLOSE_IDLE, CLOSE_INTERNAL}
    /\ \A c \in Conn : Replace(c) \in Traffic

VARIABLES
    presence,   \* presence:<device_id>: the instance that holds the device
    pc,         \* where the connection's task is
    end,        \* End: why its loop ended
    loaded,     \* the connections that have read their pairs and know peers
    view,       \* what the peers of a device were last told
    removing    \* how far a DELETE /v1/devices/me of the device is

connVars == <<presence, pc, end, loaded, view, removing>>

vars == <<hubVars, connVars>>

\* In serve a connection waits in its select, or is in an arm: it takes a
\* delivery, writes to the device, or waits for the answer of a refresh.
Arms == {"recv", "write", "refresh", "resync"}

PC == {"subscribe", "replace", "load", "serve"} \cup Arms
        \cup {"finish", "unsubscribe", "release", "offline", "closed"}

Removal == {"no", "deleted", "cleared", "closed", "dropped"}

Init ==
    /\ HubInit
    /\ presence = [d \in Device |-> None]
    /\ pc = [c \in Conn |-> "subscribe"]
    /\ end = [c \in Conn |-> Running]
    /\ loaded = {}
    /\ view = [d \in Device |-> "offline"]
    /\ removing = [d \in Device |-> "no"]

ConnTypeOK ==
    /\ presence \in [Device -> Instance \cup {None}]
    /\ pc \in [Conn -> PC]
    /\ end \in [Conn -> End]
    /\ loaded \subseteq Conn
    /\ view \in [Device -> {"online", "offline"}]
    /\ removing \in [Device -> Removal]

Goto(c, label) == pc' = [pc EXCEPT ![c] = label]

\* Leave open or serve with e; run then calls finish.
EndWith(c, e) ==
    /\ end' = [end EXCEPT ![c] = e]
    /\ Goto(c, "finish")

-----------------------------------------------------------------------------
(* Presence: SET EX and the two compare-and-set scripts.                    *)

\* Mutant: the key holds the device's id.
ClaimByDevice(d, i) == presence' = [presence EXCEPT ![d] = d]

claim(d, i) == presence' = [presence EXCEPT ![d] = i]

\* REFRESH_SCRIPT answers 1, and sets the key.
Refreshable(d, i) == presence[d] \in {None, i}

refresh(d, i) == presence' = [presence EXCEPT ![d] = IF Refreshable(d, i) THEN i ELSE @]

\* RELEASE_SCRIPT answers 1, and deletes the key.
Releasable(d, i) == presence[d] = i

release(d, i) == presence' = [presence EXCEPT ![d] = IF Releasable(d, i) THEN None ELSE @]

\* reload_peers: a device that has removed itself has no pairs any more.
reload_peers(c) == IF removing[Owner[c]] = "no" THEN loaded \cup {c} ELSE loaded \ {c}

-----------------------------------------------------------------------------
(* run and open.                                                            *)

Accept(c) == Register(c) /\ UNCHANGED connVars

AskSubscription(c) == Subscribe(c) /\ UNCHANGED connVars

GiveUpSubscription(c) ==
    /\ "timeout" \in Fault
    /\ SubscribeTimeout(c)
    /\ UNCHANGED connVars

SubscriptionRefused(c) ==
    /\ pc[c] = "subscribe"
    /\ stage[c] = "refused"
    /\ EndWith(c, CLOSE_INTERNAL)
    /\ UNCHANGED <<hubVars, presence, loaded, view, removing>>

\* Mutant: the opening waits until the queue is within its limit.
ClaimWithinLimit(c) ==
    /\ pc[c] = "subscribe"
    /\ stage[c] = "confirmed"
    /\ c \notin kill
    /\ claim(Owner[c], Home[c])
    /\ Goto(c, "replace")
    /\ UNCHANGED <<hubVars, end, loaded, view, removing>>

Claim(c) ==
    /\ pc[c] = "subscribe"
    /\ stage[c] = "confirmed"
    /\ claim(Owner[c], Home[c])
    /\ Goto(c, "replace")
    /\ UNCHANGED <<hubVars, end, loaded, view, removing>>

\* The SET fails, or is done and its answer is lost.
ClaimFails(c) ==
    /\ "redis" \in Fault
    /\ pc[c] = "subscribe"
    /\ stage[c] = "confirmed"
    /\ claim(Owner[c], Home[c]) \/ UNCHANGED presence
    /\ EndWith(c, CLOSE_INTERNAL)
    /\ UNCHANGED <<hubVars, loaded, view, removing>>

PublishReplace(c) ==
    /\ pc[c] = "replace"
    /\ Publish(Owner[c], Replace(c))
    /\ Goto(c, "load")
    /\ UNCHANGED <<presence, end, loaded, view, removing>>

PublishReplaceFails(c) ==
    /\ "redis" \in Fault
    /\ pc[c] = "replace"
    /\ Publish(Owner[c], Replace(c)) \/ UNCHANGED hubVars
    /\ EndWith(c, CLOSE_INTERNAL)
    /\ UNCHANGED <<presence, loaded, view, removing>>

\* The opening ends when the pairs cannot be read, or when they are and
\* writing the peers' presence or a revocation to the device fails.
LoadPeersFails(c) ==
    /\ "load" \in Fault
    /\ pc[c] = "load"
    /\ loaded' \in {loaded, reload_peers(c)}
    /\ EndWith(c, CLOSE_INTERNAL)
    /\ UNCHANGED <<hubVars, presence, view, removing>>

\* Otherwise the peers are told; a publish that fails is only logged.
AnnounceOnline(c) ==
    /\ pc[c] = "load"
    /\ loaded' = reload_peers(c)
    /\ \/ c \in loaded' /\ view' = [view EXCEPT ![Owner[c]] = "online"]
       \/ (c \notin loaded' \/ "tell" \in Fault) /\ UNCHANGED view
    /\ Goto(c, "serve")
    /\ UNCHANGED <<hubVars, presence, end, removing>>

-----------------------------------------------------------------------------
(* serve: the arms of the biased select, and what each does after an await. *)

\* The kill permit of a connection over its queue limit.
Killed(c) ==
    /\ pc[c] = "serve"
    /\ c \in kill
    /\ EndWith(c, CLOSE_INTERNAL)
    /\ UNCHANGED <<hubVars, presence, loaded, view, removing>>

\* The permit is asked for first; the bus task may give it right afterwards.
NextDelivery(c) ==
    /\ pc[c] = "serve"
    /\ c \notin kill
    /\ inbox[c] # <<>>
    /\ Goto(c, "recv")
    /\ UNCHANGED <<hubVars, presence, end, loaded, view, removing>>

\* Mutant: a Close is passed over like a message for the connection itself.
OnDeliveryKeeps(c, m) ==
    \/ m.type = "replace" /\ m.conn # c /\ EndWith(c, CLOSE_REPLACED)
    \/ m.type = "resync" /\ Goto(c, "resync") /\ UNCHANGED end
    \/ /\ m.type # "resync" /\ (m.type = "replace" => m.conn = c)
       /\ Goto(c, "serve") /\ UNCHANGED end

\* on_delivery: a frame, a control message or a pair change is written to the
\* device; the others only concern the connection itself.
on_delivery(c, m) ==
    \/ m.type = "resync" /\ Goto(c, "resync") /\ UNCHANGED end
    \/ m.type = "replace" /\ m.conn # c /\ EndWith(c, CLOSE_REPLACED)
    \/ m.type = "replace" /\ m.conn = c /\ Goto(c, "serve") /\ UNCHANGED end
    \/ m.type = "close" /\ EndWith(c, m.code)
    \/ /\ m.type \notin {"resync", "replace", "close"}
       /\ Goto(c, "write") /\ UNCHANGED end

\* Frames and pair changes may reload the pairs on the way.
Deliver(c) ==
    /\ pc[c] = "recv"
    /\ Receive(c)
    /\ on_delivery(c, Head(inbox[c]))
    /\ loaded' \in IF Head(inbox[c]).type \in {"text", "binary", "pair_revoked", "pairs_changed"}
                     THEN {loaded, reload_peers(c)} ELSE {loaded}
    /\ UNCHANGED <<presence, view, removing>>

\* The write is done, or the session is closed, or it timed out.
written(c) ==
    /\ pc[c] = "write"
    /\ \/ Goto(c, "serve") /\ UNCHANGED end
       \/ \E e \in {Gone, CLOSE_INTERNAL} : EndWith(c, e)
    /\ UNCHANGED <<hubVars, presence, loaded, view, removing>>

\* The refresh tick is the last arm: nothing else is ready.
RefreshTick(c) ==
    /\ pc[c] = "serve"
    /\ c \notin kill
    /\ inbox[c] = <<>>
    /\ Goto(c, "refresh")
    /\ UNCHANGED <<hubVars, presence, end, loaded, view, removing>>

\* Renew presence; another holder means this connection is stale.  resync
\* then reloads the pairs, if the database can be asked.
refresh_presence(c) ==
    /\ pc[c] \in {"refresh", "resync"}
    /\ refresh(Owner[c], Home[c])
    /\ \/ /\ Refreshable(Owner[c], Home[c])
          /\ loaded' \in IF pc[c] = "resync" THEN {loaded, reload_peers(c)} ELSE {loaded}
          /\ Goto(c, "serve") /\ UNCHANGED end
       \/ /\ ~Refreshable(Owner[c], Home[c])
          /\ EndWith(c, CLOSE_REPLACED) /\ UNCHANGED loaded
    /\ UNCHANGED <<hubVars, view, removing>>

\* The script fails, or runs and its answer is lost: the connection goes on.
RefreshFails(c) ==
    /\ "redis" \in Fault
    /\ pc[c] \in {"refresh", "resync"}
    /\ refresh(Owner[c], Home[c]) \/ UNCHANGED presence
    /\ loaded' \in IF pc[c] = "resync" THEN {loaded, reload_peers(c)} ELSE {loaded}
    /\ Goto(c, "serve")
    /\ UNCHANGED <<hubVars, end, view, removing>>

\* The device closes, disappears, breaks the protocol or stays silent, or it
\* sends something or a ping is due and the arm writes to it: the arms after
\* the delivery queue's.
ClientActs(c) ==
    /\ pc[c] = "serve"
    /\ c \notin kill
    /\ inbox[c] = <<>>
    /\ \/ \E e \in ClientEnd \ {Running} : EndWith(c, e) /\ UNCHANGED loaded
       \/ /\ Running \in ClientEnd
          /\ loaded' \in {loaded, reload_peers(c)}
          /\ Goto(c, "write") /\ UNCHANGED end
    /\ UNCHANGED <<hubVars, presence, view, removing>>

-----------------------------------------------------------------------------
(* finish.  Reaching "closed" writes the close frame: the code of end, 1000  *)
(* for ClientClosed, none for Gone.                                         *)

\* Mutant: the device's entry is removed whoever it belongs to.
FinishUnconditional(c) ==
    /\ pc[c] = "finish"
    /\ registry' = [registry EXCEPT ![Home[c]][Owner[c]] = None]
    /\ stage' = [stage EXCEPT ![c] = "left"]
    /\ Goto(c, "unsubscribe")
    /\ UNCHANGED <<requests, redisVars, busVars, queueVars, presence, end, loaded, view, removing>>

Finish(c) ==
    /\ pc[c] = "finish"
    /\ Unregister(c)
    /\ Goto(c, IF Current(c) = c THEN "unsubscribe" ELSE "closed")
    /\ UNCHANGED <<presence, end, loaded, view, removing>>

FinishUnsubscribe(c) ==
    /\ pc[c] = "unsubscribe"
    /\ Unsubscribe(c)
    /\ Goto(c, "release")
    /\ UNCHANGED <<presence, end, loaded, view, removing>>

Release(c) ==
    /\ pc[c] = "release"
    /\ release(Owner[c], Home[c])
    /\ Goto(c, IF Releasable(Owner[c], Home[c]) THEN "offline" ELSE "closed")
    /\ UNCHANGED <<hubVars, end, loaded, view, removing>>

\* The script fails, or runs and its answer is lost: nobody is told.
ReleaseFails(c) ==
    /\ "redis" \in Fault
    /\ pc[c] = "release"
    /\ release(Owner[c], Home[c]) \/ UNCHANGED presence
    /\ Goto(c, "closed")
    /\ UNCHANGED <<hubVars, end, loaded, view, removing>>

\* Only the peers this connection has read are told.
AnnounceOffline(c) ==
    /\ pc[c] = "offline"
    /\ \/ c \in loaded /\ view' = [view EXCEPT ![Owner[c]] = "offline"]
       \/ (c \notin loaded \/ "tell" \in Fault) /\ UNCHANGED view
    /\ Goto(c, "closed")
    /\ UNCHANGED <<hubVars, presence, end, loaded, removing>>

-----------------------------------------------------------------------------
(* Redis and the processes.                                                 *)

\* The key lives 60 s: opening and finishing take less, and a connection that
\* serves renews it every 20 s.
PresenceExpires(d) ==
    /\ presence[d] # None
    /\ ~ \E c \in Conn : /\ Owner[c] = d
                         /\ Home[c] = presence[d]
                         /\ pc[c] \notin {"subscribe", "offline", "closed"}
    /\ presence' = [presence EXCEPT ![d] = None]
    /\ UNCHANGED <<hubVars, pc, end, loaded, view, removing>>

\* The network between one instance and Redis breaks the pub/sub connection.
PubSubLost(i) == LinkLost({i}) /\ UNCHANGED connVars

PayloadLost(i) == InFlightLost(i) /\ UNCHANGED connVars

\* Redis restarts empty: presence and every pub/sub connection are gone.
RedisRestarts ==
    /\ LinkLost({i \in Instance : link[i] = "up"})
    /\ presence' = [d \in Device |-> None]
    /\ UNCHANGED <<pc, end, loaded, view, removing>>

InstanceRestarts(i) ==
    /\ Restart(i)
    /\ pc' = [c \in Conn |-> IF Home[c] = i /\ stage[c] # "new" THEN "closed" ELSE pc[c]]
    /\ UNCHANGED <<presence, end, loaded, view, removing>>

\* A frame, a control message or a pair change that a peer's connection or a
\* REST handler publishes for the device.
Incoming(d, m) ==
    /\ m.type \notin {"replace", "close"}
    /\ Publish(d, m)
    /\ UNCHANGED connVars

Proceed(d, from, to) == removing[d] = from /\ removing' = [removing EXCEPT ![d] = to]

\* delete_me commits the deletion of the device and its pairs, ...
DeleteDevice(d) ==
    /\ Proceed(d, "no", "deleted")
    /\ UNCHANGED <<hubVars, presence, pc, end, loaded, view>>

\* ... deletes the presence key, whoever holds it, ...
ClearPresence(d) ==
    /\ Proceed(d, "deleted", "cleared")
    /\ \/ presence' = [presence EXCEPT ![d] = None]
       \/ "redis" \in Fault /\ UNCHANGED presence
    /\ UNCHANGED <<hubVars, pc, end, loaded, view>>

\* ... and then tells the device's connection to close.
CloseRemoved(d) ==
    /\ Proceed(d, "cleared", "closed")
    /\ \/ Publish(d, Close(CLOSE_NORMAL))
       \/ "redis" \in Fault /\ UNCHANGED hubVars
    /\ UNCHANGED <<presence, pc, end, loaded, view>>

\* The handler is dropped at an await, because its client is gone or its
\* process ends: what it had not done yet is not done.
DropRemoval(d) ==
    /\ \E from \in {"deleted", "cleared"} : Proceed(d, from, "dropped")
    /\ UNCHANGED <<hubVars, presence, pc, end, loaded, view>>

RunBus(i) == BusTask(i) /\ UNCHANGED connVars

-----------------------------------------------------------------------------

\* What the task of a connection does of itself.
Task(c) ==
    \/ AskSubscription(c)
    \/ SubscriptionRefused(c)
    \/ Claim(c)
    \/ PublishReplace(c)
    \/ AnnounceOnline(c)
    \/ Killed(c)
    \/ NextDelivery(c)
    \/ Deliver(c)
    \/ written(c)
    \/ RefreshTick(c)
    \/ refresh_presence(c)
    \/ Finish(c)
    \/ FinishUnsubscribe(c)
    \/ Release(c)
    \/ AnnounceOffline(c)

\* What the outside does to it.
Outside(c) ==
    \/ Accept(c)
    \/ GiveUpSubscription(c)
    \/ ClaimFails(c)
    \/ PublishReplaceFails(c)
    \/ LoadPeersFails(c)
    \/ RefreshFails(c)
    \/ ReleaseFails(c)
    \/ ClientActs(c)

\* What delete_me does.
Remove(d) == DeleteDevice(d) \/ ClearPresence(d) \/ CloseRemoved(d) \/ DropRemoval(d)

Next ==
    \/ \E c \in Conn : Task(c) \/ Outside(c)
    \/ \E i \in Instance : RunBus(i)
    \/ \E d \in Device : PresenceExpires(d) \/ Remove(d)
    \/ \E d \in Device, m \in Traffic : Incoming(d, m)
    \/ \E i \in Instance : PubSubLost(i) \/ PayloadLost(i) \/ InstanceRestarts(i)
    \/ RedisRestarts

Spec == Init /\ [][Next]_vars

-----------------------------------------------------------------------------

\* The Replace of another connection waits in the queue of c.
Told(c) == \E k \in 1..Len(inbox[c]) : inbox[c][k].type = "replace" /\ inbox[c][k].conn # c

Opened == {"subscribe", "replace", "load", "serve"} \cup Arms

\* A connection that opens or serves and is no longer its device's current
\* local connection has the Replace of another one in its queue: no local
\* connection is left behind without being told (run), and rx.recv never
\* finds the queue closed instead.
StaleIsTold ==
    \A c \in Conn :
        /\ stage[c] # "new"
        /\ pc[c] \in Opened
        /\ Current(c) # c
        => Told(c)
=============================================================================
