------------------------------- MODULE Pairs -------------------------------
(***************************************************************************)
(* Pairs in PostgreSQL, the REST handlers that create, revoke and delete   *)
(* them (routes/pairs.rs, routes/devices.rs, store/), and what the relay   *)
(* connections of the two devices make of it: the cached pairs they route  *)
(* for and the revocations they write to the device (connection.rs,        *)
(* outbound.rs, presence.rs).                                              *)
(*                                                                         *)
(* A handler takes one step per query or publish, so that handlers and     *)
(* connections interleave at every await.  The hub is seen from here as a  *)
(* FIFO per connected device (mail); a pub/sub connection that is lost     *)
(* (cut) drops what is on its way and ends with a Resync.                  *)
(***************************************************************************)
EXTENDS Naturals, Sequences

CONSTANTS
    Device,
    Pair,       \* pair ids
    EndA, EndB, \* the two members a pair id stands for (device_a, device_b)
    Handler,    \* REST calls that can be in progress at once
    None,
    Fault       \* what may fail: a member of AllFaults

AllFaults == {"notify", "db", "write", "notice", "crash"}

ASSUME PairsAssumption ==
    /\ EndA \in [Pair -> Device]
    /\ EndB \in [Pair -> Device]
    /\ \A p \in Pair : EndA[p] # EndB[p]
    /\ None \notin Device
    /\ Fault \subseteq AllFaults

VARIABLES
    devices,    \* rows of devices
    pairs,      \* rows of pairs
    revokedBy,  \* who revoked a pair (pairs.revoked_by, kept here when the row goes)
    removedBy,  \* who revoked it while removing itself
    unchecked,  \* pairs deleted with a device that nobody had read before
    notices,    \* revoked_notice:<device_id>
    task,       \* the REST call each handler is in, and how far it got
    conn,       \* the relay connection of each device
    mail,       \* messages on their way to it
    cut,        \* devices whose instance lost its pub/sub connection
    cache,      \* Conn.pairs
    replay,     \* the statements open has read and not yet written
    told,       \* pair_revoked messages ever written to the device
    missed,     \* history: devices whose connection missed a change of its
                \* pairs by a failure that was only logged, since it loaded them
    dropped     \* history: pairs whose statement such a failure has cost

dbVars == <<devices, pairs, revokedBy, removedBy, unchecked>>
sendVars == <<replay, told>>
mailVars == <<mail, missed>>
noticeVars == <<notices, dropped>>
connVars == <<conn, cut, cache, replay, told>>
vars == <<dbVars, noticeVars, task, mailVars, connVars>>

Members(p) == {EndA[p], EndB[p]}

PairsOf(d) == {p \in Pair : d \in Members(p)}

Message ==
    [type : {"pair_revoked"}, pair : Pair] \cup [type : {"pairs_changed", "resync", "close"}]

PairRevoked(p) == [type |-> "pair_revoked", pair |-> p]
PairsChanged == [type |-> "pairs_changed"]
Resync == [type |-> "resync"]
Close == [type |-> "close"]

\* The statements in the body of delete_me; Silent is revoke_pairs=false.
Silent == [revoke |-> FALSE, items |-> {}]
Signed(items) == [revoke |-> TRUE, items |-> items]
Bodies == {Silent} \cup {Signed(items) : items \in SUBSET Pair}

\* The steps of a handler that work on a pair, and on the calling device.
PairSteps == {"insert", "tell_a", "tell_b", "update", "tell_peer", "tell_me", "tell_each"}
DeviceSteps == {"update", "tell_peer", "tell_me", "lock", "read", "delete", "each", "tell_each"}
Steps == {"idle"} \cup PairSteps \cup DeviceSteps

Task ==
    {t \in [at : Steps, dev : Device \cup {None}, pair : Pair \cup {None},
            body : Bodies, lock : SUBSET Device, held : SUBSET Pair] :
        (t.at \in PairSteps => t.pair \in Pair) /\ (t.at \in DeviceSteps => t.dev \in Device)}

Idle == [at |-> "idle", dev |-> None, pair |-> None, body |-> Silent,
         lock |-> {}, held |-> {}]

TypeOK ==
    /\ devices \subseteq Device
    /\ pairs \in [Pair -> {"absent", "valid", "revoked"}]
    /\ revokedBy \in [Pair -> Device \cup {None}]
    /\ removedBy \in [Pair -> Device \cup {None}]
    /\ unchecked \subseteq Pair
    /\ notices \in [Device -> SUBSET Pair]
    /\ task \in [Handler -> Task]
    /\ conn \in [Device -> {"off", "accepted", "subscribed", "loaded", "read", "taken", "serving"}]
    /\ mail \in [Device -> Seq(Message)]
    /\ cut \subseteq Device
    /\ cache \in [Device -> SUBSET Pair]
    /\ replay \in [Device -> SUBSET Pair]
    /\ told \in [Device -> SUBSET Pair]
    /\ missed \subseteq Device
    /\ dropped \subseteq Pair
    /\ \A d \in Device : cache[d] \cup notices[d] \cup replay[d] \subseteq PairsOf(d)

Init ==
    /\ devices = {}
    /\ pairs = [p \in Pair |-> "absent"]
    /\ revokedBy = [p \in Pair |-> None]
    /\ removedBy = [p \in Pair |-> None]
    /\ unchecked = {}
    /\ notices = [d \in Device |-> {}]
    /\ task = [h \in Handler |-> Idle]
    /\ conn = [d \in Device |-> "off"]
    /\ mail = [d \in Device |-> <<>>]
    /\ cut = {}
    /\ cache = [d \in Device |-> {}]
    /\ replay = [d \in Device |-> {}]
    /\ told = [d \in Device |-> {}]
    /\ missed = {}
    /\ dropped = {}

-----------------------------------------------------------------------------

Peer(p, d) == IF EndA[p] = d THEN EndB[p] ELSE EndA[p]

Unrevoked(d) == {p \in PairsOf(d) : pairs[p] = "valid"}

\* Mutant: without the membership condition.
ActivePeersOfAll(d) == {p \in Pair : pairs[p] = "valid" /\ Peer(p, d) \in devices}

active_peers(d) == {p \in Unrevoked(d) : Peer(p, d) \in devices}

recently_revoked(d) == {p \in PairsOf(d) : pairs[p] = "revoked"}

\* hub.publish, and notify, which only logs a failure.
notify(d, m) ==
    \/ /\ mail' = IF conn[d] \in {"off", "accepted"} \/ d \in cut
                    THEN mail ELSE [mail EXCEPT ![d] = Append(@, m)]
       /\ UNCHANGED missed
    \/ /\ "notify" \in Fault
       /\ missed' = missed \cup {d}
       /\ UNCHANGED mail

Goto(h, step) == task' = [task EXCEPT ![h].at = step]

Respond(h) == task' = [task EXCEPT ![h] = Idle]

\* Mutant: no FOR UPDATE on the device.
DeviceUnlocked(d) == FALSE

\* SELECT ... FOR UPDATE holds the row of a device, if there is one, until the
\* transaction ends, and the rows of its unrevoked pairs once they are read.
DeviceLocked(d) == \E h \in Handler : d \in task[h].lock

PairLocked(p) == \E h \in Handler : task[h].at = "delete" /\ p \in task[h].held

-----------------------------------------------------------------------------
(* POST /v1/devices and POST /v1/pairs.                                     *)

RegisterDevice(d) ==
    /\ d \notin devices
    /\ devices' = devices \cup {d}
    /\ UNCHANGED <<pairs, revokedBy, removedBy, unchecked, noticeVars, task, mailVars, connVars>>

\* Both members are registered and have signed.
register(h, p) ==
    /\ task[h].at = "idle"
    /\ Members(p) \subseteq devices
    /\ task' = [task EXCEPT ![h] = [Idle EXCEPT !.at = "insert", !.pair = p]]
    /\ UNCHANGED <<dbVars, noticeVars, mailVars, connVars>>

\* INSERT ... ON CONFLICT DO NOTHING; the foreign keys wait for a locked
\* device row and fail when it is gone.
insert(h) ==
    LET p == task[h].pair
    IN /\ task[h].at = "insert"
       /\ \/ /\ pairs[p] = "absent"
             /\ \A d \in Members(p) : ~DeviceLocked(d)
             /\ Members(p) \subseteq devices
             /\ pairs' = [pairs EXCEPT ![p] = "valid"]
             /\ revokedBy' = [revokedBy EXCEPT ![p] = None]
             /\ removedBy' = [removedBy EXCEPT ![p] = None]
             /\ unchecked' = unchecked \ {p}
             /\ told' = [d \in Device |-> told[d] \ {p}]
             /\ dropped' = dropped \ {p}
             /\ Goto(h, "tell_a")
          \/ /\ \/ pairs[p] # "absent"
                \/ /\ \A d \in Members(p) : ~DeviceLocked(d)
                   /\ ~(Members(p) \subseteq devices)
             /\ UNCHANGED <<pairs, revokedBy, removedBy, unchecked, told, dropped>>
             /\ Respond(h)
       /\ UNCHANGED <<devices, notices, mailVars, conn, cut, cache, replay>>

TellA(h) ==
    /\ task[h].at = "tell_a"
    /\ notify(EndA[task[h].pair], PairsChanged)
    /\ Goto(h, "tell_b")
    /\ UNCHANGED <<dbVars, noticeVars, connVars>>

TellB(h) ==
    /\ task[h].at = "tell_b"
    /\ notify(EndB[task[h].pair], PairsChanged)
    /\ Respond(h)
    /\ UNCHANGED <<dbVars, noticeVars, connVars>>

-----------------------------------------------------------------------------
(* POST /v1/pairs/{pair_id}/revoke.                                         *)

\* A registered member calls with a statement that verifies.
revoke(h, p, me) ==
    /\ task[h].at = "idle"
    /\ pairs[p] # "absent"
    /\ me \in Members(p) \cap devices
    /\ task' = [task EXCEPT ![h] = [Idle EXCEPT !.at = "update", !.pair = p, !.dev = me]]
    /\ UNCHANGED <<dbVars, noticeVars, mailVars, connVars>>

\* UPDATE ... WHERE revoked_at IS NULL waits for a locked row; the first
\* statement stays.
Update(h) ==
    LET p == task[h].pair
    IN /\ task[h].at = "update"
       /\ ~PairLocked(p)
       /\ \/ /\ pairs[p] = "valid"
             /\ pairs' = [pairs EXCEPT ![p] = "revoked"]
             /\ revokedBy' = [revokedBy EXCEPT ![p] = task[h].dev]
             /\ Goto(h, "tell_peer")
          \/ /\ pairs[p] # "valid"
             /\ UNCHANGED <<pairs, revokedBy>>
             /\ Respond(h)
       /\ UNCHANGED <<devices, removedBy, unchecked, noticeVars, mailVars, connVars>>

\* Mutant: the revoker's own connection is not told.
TellPeerOnly(h) ==
    /\ task[h].at = "tell_peer"
    /\ notify(Peer(task[h].pair, task[h].dev), PairRevoked(task[h].pair))
    /\ Respond(h)
    /\ UNCHANGED <<dbVars, noticeVars, connVars>>

TellPeer(h) ==
    /\ task[h].at = "tell_peer"
    /\ notify(Peer(task[h].pair, task[h].dev), PairRevoked(task[h].pair))
    /\ Goto(h, "tell_me")
    /\ UNCHANGED <<dbVars, noticeVars, connVars>>

TellMe(h) ==
    /\ task[h].at = "tell_me"
    /\ notify(task[h].dev, PairsChanged)
    /\ Respond(h)
    /\ UNCHANGED <<dbVars, noticeVars, connVars>>

-----------------------------------------------------------------------------
(* DELETE /v1/devices/me.  The presence key it deletes is in Connection.    *)

delete_me(h, d, body) ==
    /\ task[h].at = "idle"
    /\ d \in devices
    /\ task' = [task EXCEPT ![h] = [Idle EXCEPT !.at = "lock", !.dev = d, !.body = body]]
    /\ UNCHANGED <<dbVars, noticeVars, mailVars, connVars>>

\* delete_with_peers locks the device's row (nothing to lock once it is gone),
LockDevice(h) ==
    /\ task[h].at = "lock"
    /\ ~DeviceLocked(task[h].dev)
    /\ task' = [task EXCEPT ![h].at = "read", ![h].lock = devices \cap {task[h].dev}]
    /\ UNCHANGED <<dbVars, noticeVars, mailVars, connVars>>

\* reads and locks its unrevoked pairs and checks that each has a statement;
\* without one the transaction is rolled back,
ReadPairs(h) ==
    LET held == Unrevoked(task[h].dev)
    IN /\ task[h].at = "read"
       /\ \A p \in held : ~PairLocked(p)
       /\ \/ /\ task[h].body.revoke => held \subseteq task[h].body.items
             /\ task' = [task EXCEPT ![h].at = "delete", ![h].held = held]
          \/ /\ task[h].body.revoke /\ ~(held \subseteq task[h].body.items)
             /\ Respond(h)
       /\ UNCHANGED <<dbVars, noticeVars, mailVars, connVars>>

\* then deletes the row, and by cascade every pair of the device, revoked ones
\* included, and commits.  DELETE waits for rows another transaction locked.
DeleteDevice(h) ==
    LET d == task[h].dev
    IN /\ task[h].at = "delete"
       /\ \A g \in Handler \ {h} : d \notin task[g].lock
       /\ \A g \in Handler \ {h}, p \in PairsOf(d) :
             ~(task[g].at = "delete" /\ p \in task[g].held)
       /\ devices' = devices \ {d}
       /\ pairs' = [p \in Pair |-> IF p \in PairsOf(d) THEN "absent" ELSE pairs[p]]
       /\ removedBy' = [p \in Pair |-> IF p \in task[h].held /\ task[h].body.revoke
                                         THEN d ELSE removedBy[p]]
       /\ unchecked' = unchecked \cup (Unrevoked(d) \ task[h].held)
       /\ task' = [task EXCEPT ![h].at = "each", ![h].lock = {}]
       /\ UNCHANGED <<revokedBy, noticeVars, mailVars, connVars>>

\* Mutant: a notice only for a peer that is not connected.
AddNoticeOffline(h, p) ==
    /\ task[h].at = "each"
    /\ task[h].body.revoke
    /\ p \in task[h].held
    /\ notices' = [notices EXCEPT ![Peer(p, task[h].dev)] =
                     IF conn[Peer(p, task[h].dev)] = "off" THEN @ \cup {p} ELSE @]
    /\ UNCHANGED dropped
    /\ task' = [task EXCEPT ![h].at = "tell_each", ![h].pair = p]
    /\ UNCHANGED <<dbVars, mailVars, connVars>>

\* Then, for each pair that was held: queue the notice, and publish it.
AddNotice(h, p) ==
    /\ task[h].at = "each"
    /\ task[h].body.revoke
    /\ p \in task[h].held
    /\ \/ /\ notices' = [notices EXCEPT ![Peer(p, task[h].dev)] = @ \cup {p}]
          /\ UNCHANGED dropped
       \/ /\ "notice" \in Fault
          /\ dropped' = dropped \cup {p}
          /\ UNCHANGED notices
    /\ task' = [task EXCEPT ![h].at = "tell_each", ![h].pair = p]
    /\ UNCHANGED <<dbVars, mailVars, connVars>>

TellRevoked(h) ==
    LET p == task[h].pair
    IN /\ task[h].at = "tell_each"
       /\ notify(Peer(p, task[h].dev), PairRevoked(p))
       /\ task' = [task EXCEPT ![h].at = "each", ![h].held = @ \ {p}]
       /\ UNCHANGED <<dbVars, noticeVars, connVars>>

\* A silent removal only makes the peer's connection stop routing.
TellChanged(h, p) ==
    /\ task[h].at = "each"
    /\ ~task[h].body.revoke
    /\ p \in task[h].held
    /\ notify(Peer(p, task[h].dev), PairsChanged)
    /\ task' = [task EXCEPT ![h].held = @ \ {p}]
    /\ UNCHANGED <<dbVars, noticeVars, connVars>>

\* Last, the device's own connection is closed.
TellClose(h) ==
    /\ task[h].at = "each"
    /\ task[h].held = {}
    /\ notify(task[h].dev, Close)
    /\ Respond(h)
    /\ UNCHANGED <<dbVars, noticeVars, connVars>>

-----------------------------------------------------------------------------
(* Calls that end halfway.                                                  *)

\* The devices a call has changed pairs of and not yet notified.
Owed(h) ==
    CASE task[h].at \in {"tell_a", "tell_peer"} -> Members(task[h].pair)
      [] task[h].at = "tell_b" -> {EndB[task[h].pair]}
      [] task[h].at = "tell_me" -> {task[h].dev}
      [] task[h].at \in {"each", "tell_each"} ->
            {task[h].dev} \cup {Peer(p, task[h].dev) : p \in task[h].held}
      [] OTHER -> {}

\* The statements of a removal that are in no notice.
Unstored(h) ==
    CASE ~task[h].body.revoke -> {}
      [] task[h].at = "each" -> task[h].held
      [] task[h].at = "tell_each" -> task[h].held \ {task[h].pair}
      [] OTHER -> {}

\* The process ends, or the client goes and the handler is dropped with it, at
\* any await.  An open transaction is rolled back; nobody takes up the rest.
Abandon(h) ==
    /\ "crash" \in Fault
    /\ task[h].at # "idle"
    /\ missed' = missed \cup Owed(h)
    /\ dropped' = dropped \cup Unstored(h)
    /\ Respond(h)
    /\ UNCHANGED <<dbVars, notices, mail, connVars>>

-----------------------------------------------------------------------------
(* The daily cleanup.                                                       *)

\* A device without a new token for 180 days goes, and by cascade its pairs,
\* without a word to anyone; its connection may still be open.  A call of its
\* own cannot be in progress, and the DELETE waits for locked rows.
delete_expired(d) ==
    /\ d \in devices
    /\ \A h \in Handler : task[h].dev # d
    /\ \A p \in PairsOf(d) : ~PairLocked(p)
    /\ devices' = devices \ {d}
    /\ pairs' = [p \in Pair |-> IF p \in PairsOf(d) THEN "absent" ELSE pairs[p]]
    /\ unchecked' = unchecked \cup Unrevoked(d)
    /\ UNCHANGED <<revokedBy, removedBy, noticeVars, task, mailVars, connVars>>

-----------------------------------------------------------------------------
(* The relay connection of a device.                                        *)

\* The connection is gone with its queue and its caches.
Drop(d) ==
    /\ conn' = [conn EXCEPT ![d] = "off"]
    /\ mail' = [mail EXCEPT ![d] = <<>>]
    /\ missed' = missed \ {d}
    /\ cut' = cut \ {d}
    /\ cache' = [cache EXCEPT ![d] = {}]
    /\ replay' = [replay EXCEPT ![d] = {}]

\* A registered device connects,
Connect(d) ==
    /\ conn[d] = "off"
    /\ d \in devices
    /\ conn' = [conn EXCEPT ![d] = "accepted"]
    /\ UNCHANGED <<dbVars, noticeVars, task, mailVars, cut, cache, sendVars>>

\* and its connection subscribes to its channel before it reads anything.
Subscribe(d) ==
    /\ conn[d] = "accepted"
    /\ conn' = [conn EXCEPT ![d] = "subscribed"]
    /\ UNCHANGED <<dbVars, noticeVars, task, mailVars, cut, cache, sendVars>>

\* A lookup that works.
reload_peers(d) ==
    /\ cache' = [cache EXCEPT ![d] = active_peers(d)]
    /\ missed' = missed \ {d}

\* One that fails keeps the old pairs.
ReloadFails(d) ==
    /\ "db" \in Fault
    /\ missed' = missed \cup {d}
    /\ UNCHANGED cache

\* The presence messages that follow change nothing here.
LoadPeers(d) ==
    /\ conn[d] = "subscribed"
    /\ conn' = [conn EXCEPT ![d] = "loaded"]
    /\ reload_peers(d)
    /\ UNCHANGED <<dbVars, noticeVars, task, mail, cut, replay, told>>

\* A failed lookup counts as no revocation.
ReadRevoked(d) ==
    /\ conn[d] = "loaded"
    /\ conn' = [conn EXCEPT ![d] = "read"]
    /\ \/ replay' = [replay EXCEPT ![d] = recently_revoked(d)]
       \/ "db" \in Fault /\ UNCHANGED replay
    /\ UNCHANGED <<dbVars, noticeVars, task, mailVars, cut, cache, told>>

\* SMEMBERS and DEL in one transaction; a failure, before or after it is
\* executed, counts as no notice.
take_revoked_notices(d) ==
    /\ conn[d] = "read"
    /\ conn' = [conn EXCEPT ![d] = "taken"]
    /\ \/ /\ replay' = [replay EXCEPT ![d] = @ \cup notices[d]]
          /\ notices' = [notices EXCEPT ![d] = {}]
          /\ UNCHANGED dropped
       \/ /\ "notice" \in Fault
          /\ UNCHANGED <<notices, dropped, replay>>
       \/ /\ "notice" \in Fault
          /\ notices' = [notices EXCEPT ![d] = {}]
          /\ dropped' = dropped \cup notices[d]
          /\ UNCHANGED replay
    /\ UNCHANGED <<dbVars, task, mailVars, cut, cache, told>>

WriteReplay(d) ==
    /\ conn[d] = "taken"
    /\ conn' = [conn EXCEPT ![d] = "serving"]
    /\ told' = [told EXCEPT ![d] = @ \cup replay[d]]
    /\ replay' = [replay EXCEPT ![d] = {}]
    /\ UNCHANGED <<dbVars, noticeVars, task, mailVars, cut, cache>>

\* The lookup, or a write to the device, fails while the connection opens, and
\* it ends.
OpenFails(d) ==
    /\ \/ conn[d] = "subscribed" /\ "db" \in Fault /\ UNCHANGED <<told, dropped>>
       \/ conn[d] = "loaded" /\ "write" \in Fault /\ UNCHANGED <<told, dropped>>
       \/ /\ conn[d] = "taken" /\ "write" \in Fault /\ replay[d] # {}
          /\ \E sent \in SUBSET replay[d] :
                /\ told' = [told EXCEPT ![d] = @ \cup sent]
                /\ dropped' = dropped \cup (replay[d] \ sent)
    /\ Drop(d)
    /\ UNCHANGED <<dbVars, notices, task>>

\* on_delivery: reload_peers first (a failed lookup keeps the old pairs and, for
\* PairsChanged, ends there), then what there is to write.
Deliver(d) ==
    LET m == Head(mail[d])
    IN /\ conn[d] = "serving"
       /\ mail[d] # <<>>
       /\ reload_peers(d) \/ ReloadFails(d)
       /\ \/ m.type = "pair_revoked" /\ told' = [told EXCEPT ![d] = @ \cup {m.pair}]
          \/ m.type \in {"pairs_changed", "resync"} /\ UNCHANGED told
       /\ mail' = [mail EXCEPT ![d] = Tail(@)]
       /\ UNCHANGED <<dbVars, noticeVars, task, conn, cut, replay>>

\* Close, a write that fails, or the device that goes away.
Disconnect(d) ==
    /\ conn[d] = "serving"
    /\ Drop(d)
    /\ UNCHANGED <<dbVars, noticeVars, task, told>>

\* is_peer does not know the peer of a frame and reloads.
is_peer_miss(d) ==
    /\ conn[d] = "serving"
    /\ reload_peers(d)
    /\ UNCHANGED <<dbVars, noticeVars, task, mail, conn, cut, sendVars>>

\* The pub/sub connection of the device's instance is lost with the last n
\* messages on their way; later, the hub is subscribed again and asks for a
\* resync.
LinkCut(d, n) ==
    /\ conn[d] \notin {"off", "accepted"}
    /\ d \notin cut
    /\ n <= Len(mail[d])
    /\ cut' = cut \cup {d}
    /\ mail' = [mail EXCEPT ![d] = SubSeq(@, 1, Len(@) - n)]
    /\ UNCHANGED <<dbVars, noticeVars, task, missed, conn, cache, sendVars>>

LinkBack(d) ==
    /\ d \in cut
    /\ cut' = cut \ {d}
    /\ mail' = [mail EXCEPT ![d] = Append(@, Resync)]
    /\ UNCHANGED <<dbVars, noticeVars, task, missed, conn, cache, sendVars>>

-----------------------------------------------------------------------------

\* The steps of a handler in the middle of its call.
Continue(h) ==
    \/ insert(h) \/ TellA(h) \/ TellB(h)
    \/ Update(h) \/ TellPeer(h) \/ TellMe(h)
    \/ LockDevice(h) \/ ReadPairs(h) \/ DeleteDevice(h)
    \/ \E p \in Pair : AddNotice(h, p) \/ TellChanged(h, p)
    \/ TellRevoked(h) \/ TellClose(h)

Call(h) ==
    \/ \E p \in Pair : register(h, p)
    \/ \E p \in Pair, d \in Device : revoke(h, p, d)
    \/ \E d \in Device, body \in Bodies : delete_me(h, d, body)

ConnStep(d) ==
    \/ Connect(d) \/ Subscribe(d) \/ LoadPeers(d) \/ ReadRevoked(d) \/ take_revoked_notices(d)
    \/ WriteReplay(d) \/ OpenFails(d) \/ Deliver(d) \/ Disconnect(d) \/ is_peer_miss(d)

Next ==
    \/ \E h \in Handler : Call(h) \/ Continue(h)
    \/ \E h \in Handler : Abandon(h)
    \/ \E d \in Device : RegisterDevice(d) \/ delete_expired(d)
    \/ \E d \in Device : ConnStep(d) \/ LinkBack(d)
    \/ \E d \in Device, n \in Nat : LinkCut(d, n)

Spec == Init /\ [][Next]_vars

-----------------------------------------------------------------------------

\* The call t is between its change to the pair and the message it owes d for it.
Notifies(t, p, d) ==
    \/ /\ t.at \in {"tell_peer", "tell_me"} /\ t.pair = p
       /\ d = t.dev \/ t.at = "tell_peer"
    \/ /\ t.at \in {"each", "tell_each"}
       /\ p \in t.held \/ d = t.dev

Notifying(p, d) == \E h \in Handler : Notifies(task[h], p, d)

\* A connection that still routes for a pair that is no longer valid (or not
\* yet visible to it) has the message that makes it reload or close before it,
\* has lost its pub/sub connection, is about to be told by the handler that
\* changed the pair, or was not told because of a failure that was only logged
\* or a handler that was cut short.
\* This is why open subscribes before it reads the pairs, and why every change
\* is followed by notify: a cached pair never outlives its row for good.  A pair
\* that was deleted unread, as the cleanup does, is the exception.
StaleCacheIsNotified ==
    \A d \in Device, p \in Pair :
        p \in cache[d] /\ pairs[p] # "valid" /\ p \notin unchecked
            => mail[d] # <<>> \/ d \in cut \cup missed \/ Notifying(p, d)

\* delete_with_peers checks every pair it removes: from the check to the commit
\* the pairs it read and locked are all the unrevoked pairs of the device, and
\* nobody else can add or revoke one.
HeldIsComplete ==
    \A h \in Handler :
        task[h].at = "delete" /\ task[h].dev \in task[h].lock
            => task[h].held = Unrevoked(task[h].dev)

\* delete_me "tells the peers now or when they next connect": the statement was
\* written to the peer, waits as a notice or in an opening connection, or is
\* still with the handler.  Only a notice that was not stored, also because the
\* handler was cut short, was taken by a call whose answer was lost or by a
\* connection that broke while it opened can be missing.
RemovalReachesPeer ==
    \A p \in Pair : removedBy[p] # None /\ p \notin dropped =>
        LET d == Peer(p, removedBy[p])
        IN \/ p \in told[d] \cup notices[d] \cup replay[d]
           \/ \E h \in Handler : /\ task[h].at \in {"each", "tell_each"}
                                 /\ task[h].dev = removedBy[p] /\ p \in task[h].held

\* revoke takes a statement "which the relay stores and forwards to the peer":
\* while the peer is registered, it was written to the peer, is in the row or on
\* its way.
RevocationReachesPeer ==
    \A p \in Pair : revokedBy[p] # None /\ Peer(p, revokedBy[p]) \in devices =>
        LET d == Peer(p, revokedBy[p])
        IN \/ p \in told[d] \cup notices[d] \cup replay[d]
           \/ pairs[p] = "revoked"
           \/ \E n \in DOMAIN mail[d] : mail[d][n] = PairRevoked(p)
           \/ \E h \in Handler : task[h].at = "tell_peer" /\ task[h].pair = p
=============================================================================
