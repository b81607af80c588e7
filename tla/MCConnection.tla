---------------------------- MODULE MCConnection ----------------------------
(***************************************************************************)
(* One device whose connections arrive at one instance or at two, in every *)
(* order.  Each behaviour has a budget, chosen at the start, of how often  *)
(* Redis is lost, an instance restarts and something comes in for the      *)
(* device, and of which connections arrive.                                *)
(***************************************************************************)
EXTENDS Connection, FiniteSets, TLC

CONSTANTS
    c1, c2, d1, i1, i2,
    Budgets         \* the budgets a behaviour may have

\* What is left of the budget.
VARIABLES
    losses,         \* pub/sub connections lost and Redis restarts
    restarts,       \* restarts of instances
    incoming,       \* messages for the device and removals of it
    guests          \* the connections that arrive

envVars == <<losses, restarts, incoming, guests>>

Devices == {d1}
Instances == {i1, i2}
Conns2 == {c1, c2}
Home2 == c1 :> i1 @@ c2 :> i2
Owner2 == [c \in Conns2 |-> d1]
Twins == [c \in Conns2 |-> i1]
Replaces2 == {Replace(c) : c \in Conns2}
Mixed2 == Replaces2 \cup {Control(2), Close(CLOSE_NORMAL)}

Budget(l, r, m) == [losses |-> l, restarts |-> r, incoming |-> m, guests |-> Conns2]
Calm == {Budget(0, 0, 0)}
OneLoss == {Budget(1, 0, 0)}
OneIncoming == {Budget(0, 0, 1)}
OneGuest(m) == [Budget(0, 0, m) EXCEPT !.guests = {c1}]
Overruns == {OneGuest(3), Budget(0, 0, 1)}
LossOrRestart == {Budget(1, 0, 0), Budget(0, 1, 1)}

MCInit ==
    /\ Init
    /\ \E b \in Budgets :
          /\ losses = b.losses /\ restarts = b.restarts /\ incoming = b.incoming
          /\ guests = b.guests

MCLoss ==
    /\ losses > 0
    /\ losses' = losses - 1
    /\ RedisRestarts \/ \E i \in Instance : PubSubLost(i)
    /\ UNCHANGED <<restarts, incoming, guests>>

MCRestart ==
    /\ restarts > 0
    /\ restarts' = restarts - 1
    /\ \E i \in Instance : InstanceRestarts(i)
    /\ UNCHANGED <<losses, incoming, guests>>

MCIncoming ==
    /\ incoming > 0
    /\ incoming' = incoming - 1
    /\ \/ \E d \in Device, m \in Traffic : Incoming(d, m)
       \/ \E d \in Device : DeleteDevice(d)
    /\ UNCHANGED <<losses, restarts, guests>>

\* A delete_me that has begun.
RunsOn(d) == ClearPresence(d) \/ CloseRemoved(d)

\* Only guests arrive, and c1 is the first: nothing else tells them apart.
InTurn(c) == stage[c] = "new" => c \in guests /\ (c # c1 => stage[c1] # "new")

MCNext ==
    \/ \E c \in Conn : InTurn(c) /\ (Task(c) \/ Outside(c)) /\ UNCHANGED envVars
    \/ \E i \in Instance : RunBus(i) /\ UNCHANGED envVars
    \/ \E d \in Device : (PresenceExpires(d) \/ RunsOn(d) \/ DropRemoval(d)) /\ UNCHANGED envVars
    \/ \E i \in Instance : PayloadLost(i) /\ UNCHANGED envVars
    \/ MCLoss
    \/ MCRestart
    \/ MCIncoming

MCSpec == MCInit /\ [][MCNext]_<<vars, envVars>>

\* Every task of the runtime, the bus task of every instance and a delete_me
\* that is not dropped keep running, Redis expires keys and does not fail every
\* refresh of a connection; clients, dropped handlers, other faults and
\* timeouts are free.
FairSpec ==
    /\ MCSpec
    /\ \A c \in Conn :
          /\ WF_<<vars, envVars>>(Task(c) /\ UNCHANGED envVars)
          /\ SF_<<vars, envVars>>(refresh_presence(c) /\ UNCHANGED envVars)
    /\ \A i \in Instance : WF_<<vars, envVars>>(RunBus(i) /\ UNCHANGED envVars)
    /\ \A d \in Device :
          /\ WF_<<vars, envVars>>(PresenceExpires(d) /\ UNCHANGED envVars)
          /\ WF_<<vars, envVars>>(RunsOn(d) /\ UNCHANGED envVars)

-----------------------------------------------------------------------------

Serving(d) == {c \in Conn : Owner[c] = d /\ pc[c] \in {"serve"} \cup Arms}

\* Once connections stop arriving and faults stop, a device is left with at
\* most one connection: the current one of its instance, named by the
\* presence key and subscribed to the device's channel; without one the key
\* is gone.  It is what Replace, the refresh every 20 s, the resync after a
\* reconnect and the key's expiry have to achieve together, whatever was lost
\* on the way.
Settles ==
    \A d \in Device : <>[]
        /\ Cardinality(Serving(d)) <= 1
        /\ \A c \in Serving(d) :
              /\ Current(c) = c
              /\ presence[d] = Home[c]
              /\ d \in channels[Home[c]]
        /\ Serving(d) = {} => presence[d] = None

\* A connection whose queue passed its limit ends: with 4500, also when the
\* limit was passed while it was still opening, unless an arm of the select was
\* under way (serve awaits on_delivery, the client's message and the refresh
\* before it asks for the permit again) and that arm ends it first: the device
\* is gone, or presence was taken over.  It never goes on with a frame missing.
OverrunCloses ==
    \A c \in Conn :
        /\ c \in kill /\ end[c] = Running ~> end[c] # Running
        /\ c \in kill /\ end[c] = Running /\ pc[c] \notin Arms ~> end[c] = CLOSE_INTERNAL

\* The connection of a device that removes itself ends, also when it is still
\* opening, provided that Redis confirmed its subscription before the Close was
\* published and that delete_me is not dropped before: the Close finds it
\* subscribed and in the registry, and a queue without room for it ends the
\* connection as well.
RemovalCloses ==
    \A c \in Conn :
        removing[Owner[c]] \in {"deleted", "cleared"} /\ stage[c] = "confirmed" /\ Current(c) = c
            ~> end[c] # Running \/ removing[Owner[c]] = "dropped"

\* Of the connections of a device one was opened last, and no other supersedes
\* it: they are not all closed with 4409.
NotAllReplaced ==
    \A d \in Device : \E c \in Conn : Owner[c] = d /\ end[c] # CLOSE_REPLACED

\* While a connection serves the device, is the current one and has nothing
\* left to read, the peers have been told that the device is online.
ServingIsOnline ==
    \A c \in Conn :
        pc[c] = "serve" /\ Current(c) = c /\ inbox[c] = <<>> => view[Owner[c]] = "online"

\* A connection closed because its device removed itself, and that had read the
\* device's pairs before, tells no peer that the device went offline.
RemovalIsSilent ==
    \A c \in Conn : end[c] = CLOSE_NORMAL /\ c \in loaded => pc[c] # "offline"
=============================================================================
