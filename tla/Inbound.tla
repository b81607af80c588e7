------------------------------ MODULE Inbound ------------------------------
(***************************************************************************)
(* What a connection does with the frames of its device (relay/inbound.rs) *)
(* and with the frames and control messages for it (relay/outbound.rs):    *)
(* the pair check with its reload on a miss, the bandwidth limit of        *)
(* relay/bandwidth.rs that holds one frame and stops the reading, the      *)
(* rendezvous of relay/rendezvous.rs, and the counting of usage.rs.        *)
(*                                                                         *)
(* A tick of the clock is the time in which a bucket gains one byte, so a  *)
(* second has PairBandwidth ticks.  A frame is its length.  The opening    *)
(* and closing of connections (Connection), the bus between instances      *)
(* (Bus, Hub) and the handlers that change pairs (Pairs) are one step each *)
(* here.                                                                   *)
(***************************************************************************)
EXTENDS Usage, Sequences, FiniteSets

CONSTANTS
    Rv,             \* rendezvous ids
    Home,           \* the instance that serves each device
    PairBandwidth,  \* bytes per second and pair: rate and capacity
    MaxFrame,       \* MAX_FRAME_BYTES
    FrameLen,       \* lengths of the frames devices send
    RvTtl,          \* RV_TTL, in ticks
    Fault           \* "redis", "db", "lost": see below

\* "redis": a Redis call fails, before or after Redis ran it; "db": the pairs
\* cannot be read; "lost": a message on the bus is lost.
AllFaults == {"redis", "db", "lost"}

TokenBucket == [tokens : Int, updated : Nat]
HeldFrame == [to : Device, bytes : 1..MaxFrame, deadline : Nat]
Miss == [at : Nat, ok : BOOLEAN]
RvJoin == [rv : Rv, present : BOOLEAN, tell : SUBSET Device]

\* The limits of config.rs and wire.rs: 2 MiB per second, 256 KiB per frame.
ASSUME InboundConstants ==
    /\ Home \in [Device -> Instance]
    /\ MaxFrame \in Nat \ {0}
    /\ PairBandwidth \in Nat /\ MaxFrame <= PairBandwidth
    /\ FrameLen \subseteq Nat \ {0}
    /\ {n \in FrameLen : n <= MaxFrame} \subseteq Amount
    /\ RvTtl \in Nat
    /\ Fault \subseteq AllFaults
    /\ None \notin Device \union TokenBucket \union HeldFrame \union Miss \union RvJoin

VARIABLES
    now,            \* ticks
    pairs,          \* valid pairs in PostgreSQL, as sets of two devices ...
    since,          \* ... and when each became valid
    serving,        \* devices with a connection in its event loop
    peers,          \* Conn.peers
    buckets,        \* Conn.buckets
    pending,        \* Conn.pending
    lastMiss,       \* Conn.last_miss_reload, and whether that reload worked
    inbox,          \* the mailbox of the connection
    joining,        \* the rv_join a connection is handling, after its script
    rv,             \* the rendezvous sets in Redis
    told,           \* the last rv_joined each device got since it connected
    unheard,        \* history: (rv, device) whose rv_joined did not arrive
    meter           \* history: bytes published on each link while it is open, leaking

connVars == <<serving, peers, buckets, pending, lastMiss>>
rvVars == <<rv, joining, told, unheard>>
vars == <<now, pairs, since, connVars, inbox, rvVars, meter, usageVars>>

Link == {l \in Device \X Device : l[1] # l[2]}
Pair == {{l[1], l[2]} : l \in Link}
EmptyRv == [members |-> {}, expires |-> 0]

Init ==
    /\ now = 0
    /\ pairs \in SUBSET Pair
    /\ since = [p \in Pair |-> 0]
    /\ serving = {}
    /\ peers = [d \in Device |-> {}]
    /\ buckets = [l \in Link |-> None]
    /\ pending = [d \in Device |-> None]
    /\ lastMiss = [d \in Device |-> None]
    /\ inbox = [d \in Device |-> <<>>]
    /\ joining = [d \in Device |-> None]
    /\ rv = [r \in Rv |-> EmptyRv]
    /\ told = [r \in Rv |-> [d \in Device |-> None]]
    /\ unheard = {}
    /\ meter = [l \in Link |-> 0]
    /\ UsageInit

-----------------------------------------------------------------------------
(* relay/bandwidth.rs.                                                     *)

Least(a, b) == IF a <= b THEN a ELSE b

NewBucket == [tokens |-> PairBandwidth, updated |-> now]

\* The tokens of a bucket at this time.
Tokens(b) == Least(PairBandwidth, b.tokens + (now - b.updated))

\* TokenBucket::take
Take(b, cost) == [tokens |-> Tokens(b) - cost, updated |-> now]

-----------------------------------------------------------------------------
(* The pair cache of a connection: reload_peers and is_peer.               *)

ActivePeers(d) == {t \in Device : {d, t} \in pairs}

\* Mutant: a reload drops every bucket of the connection.
DroppedAll(d, S) == {l \in Link : l[1] = d}

\* Links of d whose bucket does not survive a reload that finds S.
Dropped(d, S) == {l \in Link : l[1] = d /\ l[2] \notin S}

\* A link is open while its sender is connected and has the receiver as peer:
\* the ones that close when the peers of d become S.
Open == {l \in Link : l[2] \in peers[l[1]]}
Closed(d, S) == {l \in Open : l[1] = d /\ l[2] \notin S}

Without(f, dropped, v) == [l \in Link |-> IF l \in dropped THEN v ELSE f[l]]

\* The last reload on a miss is less than MISS_RELOAD_GAP (1 s) ago.
TooSoon(d) == lastMiss[d] # None /\ now - lastMiss[d].at < PairBandwidth

\* reload_peers, when the query works and when it fails.
Reloaded(d) ==
    [peers |-> ActivePeers(d), dropped |-> Dropped(d, ActivePeers(d))]
NotReloaded(d) ==
    [peers |-> peers[d], dropped |-> {}]

ReloadOutcomes(d) ==
    {<<Reloaded(d), TRUE>>} \union
        (IF "db" \in Fault THEN {<<NotReloaded(d), FALSE>>} ELSE {})

\* Mutant: every miss starts the gap again, also one that asked nobody.
is_peer_hasty(d, t) ==
    IF t \in peers[d] \/ TooSoon(d)
      THEN {<<NotReloaded(d), IF t \in peers[d] THEN lastMiss[d]
                                ELSE [at |-> now, ok |-> TRUE]>>}
      ELSE {<<o[1], [at |-> now, ok |-> o[2]]>> : o \in ReloadOutcomes(d)}

\* is_peer(t): a miss reloads, but at most once in MISS_RELOAD_GAP.  The
\* answer is whether t is in the peers of the outcome.
is_peer(d, t) ==
    IF t \in peers[d] \/ TooSoon(d)
      THEN {<<NotReloaded(d), lastMiss[d]>>}
      ELSE {<<o[1], [at |-> now, ok |-> o[2]]>> : o \in ReloadOutcomes(d)}

-----------------------------------------------------------------------------
(* Publishing on the channel of a device.                                  *)

\* The message reaches the mailbox of a connection, if there is one.
Posted(t, m) == [inbox EXCEPT ![t] = IF t \in serving THEN Append(@, m) ELSE @]

\* publish_forward of n bytes on link l: a frame that somebody received is
\* counted.  An error may come after the delivery; it counts nothing.
publish_forward(l, n) ==
    LET frame == [type |-> "frame", from |-> l[1]] IN
    \/ /\ l[2] \in serving
       /\ inbox' = Posted(l[2], frame)
       /\ Count(Home[l[1]], l[1], n)
    \/ /\ l[2] \notin serving
       /\ UNCHANGED <<inbox, usageVars>>
    \/ /\ "redis" \in Fault
       /\ inbox' \in {inbox, Posted(l[2], frame)}
       /\ UNCHANGED usageVars

-----------------------------------------------------------------------------
(* The event loop.  The select is biased: the mailbox comes first, then    *)
(* the frame held back, then the socket, which is not read while one is.   *)

Between(d) == d \in serving /\ joining[d] = None

\* Mutant: the socket is read although a frame is held.
ReadingOn(d) == Between(d) /\ inbox[d] = <<>>

Reading(d) == Between(d) /\ inbox[d] = <<>> /\ pending[d] = None

\* forward: the pair check, the bucket of the peer, and either the frame goes
\* out or it is held until the bucket is out of debt.
forward(d, t, n) ==
    \E o \in is_peer(d, t) :
      /\ peers' = [peers EXCEPT ![d] = o[1].peers]
      /\ lastMiss' = [lastMiss EXCEPT ![d] = o[2]]
      /\ LET l == <<d, t>>
             kept == Without(buckets, o[1].dropped, None)
             b == Take(IF kept[l] = None THEN NewBucket ELSE kept[l], n)
             sent == Without(meter, Closed(d, o[1].peers), 0)
         IN
         \/ /\ t \notin o[1].peers          \* NOT_PAIRED
            /\ buckets' = kept
            /\ meter' = sent
            /\ UNCHANGED <<pending, inbox, usageVars>>
         \/ /\ t \in o[1].peers
            /\ buckets' = [kept EXCEPT ![l] = b]
            /\ \/ /\ b.tokens >= 0
                  /\ publish_forward(l, n)
                  /\ meter' = [sent EXCEPT ![l] = @ + n]
                  /\ UNCHANGED pending
               \/ /\ b.tokens < 0
                  /\ pending' = [pending EXCEPT ![d] =
                                   [to |-> t, bytes |-> n, deadline |-> now - b.tokens]]
                  /\ meter' = sent
                  /\ UNCHANGED <<inbox, usageVars>>

\* A frame of n bytes for t, in handle_text or handle_binary.  A frame that
\* is too large, or no frame at all, is answered with an error.
Frame(d, t, n) ==
    /\ Reading(d)
    /\ \/ n <= MaxFrame /\ forward(d, t, n)
       \/ /\ n > MaxFrame                   \* PAYLOAD_TOO_LARGE
          /\ UNCHANGED <<peers, buckets, lastMiss, pending, meter, inbox, usageVars>>
    /\ UNCHANGED <<now, pairs, since, serving, rvVars>>

\* The deadline of the frame held back: it goes out without another check.
Release(d) ==
    /\ Between(d) /\ inbox[d] = <<>>
    /\ pending[d] # None
    /\ now >= pending[d].deadline
    /\ LET l == <<d, pending[d].to>> IN
       /\ publish_forward(l, pending[d].bytes)
       /\ meter' = [meter EXCEPT ![l] = @ + pending[d].bytes]
    /\ pending' = [pending EXCEPT ![d] = None]
    /\ UNCHANGED <<now, pairs, since, serving, peers, buckets, lastMiss, rvVars>>

-----------------------------------------------------------------------------
(* relay/rendezvous.rs and its use in inbound.rs.                          *)

Members(r) == IF now < rv[r].expires THEN rv[r].members ELSE {}

\* JOIN_SCRIPT: a third device is refused, a member joins again freely, and
\* only the first join sets the time to live.
Joined(r, d) ==
    [members |-> Members(r) \union {d},
     expires |-> IF Members(r) = {} THEN now + RvTtl ELSE rv[r].expires]

\* Mutant: the script does not count.
AdmitsAny(r, d) == TRUE

Admits(r, d) == d \in Members(r) \/ Cardinality(Members(r)) < 2

\* Mutant: only a device that joins again tells the other.
ToTellAgain(r, d) == IF d \in Members(r) THEN Members(r) \ {d} ELSE {}

\* Devices that must hear of it when d joins now.
ToTell(r, d) == IF d \in Members(r) THEN {} ELSE Members(r)

\* A new set forgets who did not hear of the one that expired.
OfThisSet(r) == {u \in unheard : u[1] # r \/ Members(r) # {}}

\* rv_join, up to the answer of the script.
rv_join(d, r) ==
    /\ Reading(d)
    /\ \/ /\ Admits(r, d)
          /\ rv' = [rv EXCEPT ![r] = Joined(r, d)]
          /\ joining' = [joining EXCEPT ![d] =
                           [rv |-> r, present |-> Members(r) \ {d} # {},
                            tell |-> ToTell(r, d)]]
          /\ unheard' = OfThisSet(r)
       \/ /\ ~Admits(r, d)                                \* BAD_REQUEST
          /\ UNCHANGED <<rv, joining, unheard>>
       \/ /\ "redis" \in Fault                            \* NOT_CONNECTED
          /\ UNCHANGED joining
          /\ \/ UNCHANGED <<rv, unheard>>
             \/ /\ Admits(r, d)
                /\ rv' = [rv EXCEPT ![r] = Joined(r, d)]
                /\ unheard' = OfThisSet(r) \union ({r} \X (ToTell(r, d) \union {d}))
    /\ UNCHANGED <<now, pairs, since, connVars, inbox, told, meter, usageVars>>

\* The rest of rv_join: the device is told first, then the other member if
\* the join was new.  A failed publish is only logged.
rv_joined(d) ==
    /\ d \in serving /\ joining[d] # None
    /\ LET r == joining[d].rv
           tell == joining[d].tell
           msg == [type |-> "rv_joined", rv |-> r]
           heard == IF joining[d].present THEN unheard \ {<<r, d>>} ELSE unheard
       IN
       /\ told' = [told EXCEPT ![r][d] = joining[d].present]
       /\ \/ /\ inbox' = [e \in Device |-> IF e \in tell THEN Posted(e, msg)[e] ELSE inbox[e]]
             /\ unheard' = heard
          \/ /\ "redis" \in Fault /\ tell # {}
             /\ UNCHANGED inbox
             /\ unheard' = heard \union ({r} \X tell)
    /\ joining' = [joining EXCEPT ![d] = None]
    /\ UNCHANGED <<now, pairs, since, connVars, rv, meter, usageVars>>

\* rv_msg: to the other member, if the sender is one and the other is there.
rv_msg(d, r) ==
    /\ Reading(d)
    /\ \/ /\ d \in Members(r)
          /\ \E e \in Members(r) \ {d} :
               inbox' = Posted(e, [type |-> "rv_msg", rv |-> r])
       \/ UNCHANGED inbox /\ (Members(r) \ {d} = {} \/ d \notin Members(r) \/ "redis" \in Fault)
    /\ UNCHANGED <<now, pairs, since, connVars, rvVars, meter, usageVars>>

-----------------------------------------------------------------------------
(* on_delivery: frames pass the pair check of the receiver as well, and a  *)
(* frame that fails it is dropped without a word; news about the pairs     *)
(* reload them; rv_joined and rv_msg go to the device.                     *)
on_delivery(d) ==
    /\ Between(d) /\ inbox[d] # <<>>
    /\ inbox' = [inbox EXCEPT ![d] = Tail(@)]
    /\ LET m == Head(inbox[d]) IN
       \/ /\ m.type \in {"frame", "pairs"}
          /\ \E o \in IF m.type = "frame" THEN is_peer(d, m.from)
                        ELSE {<<x[1], lastMiss[d]>> : x \in ReloadOutcomes(d)} :
               /\ peers' = [peers EXCEPT ![d] = o[1].peers]
               /\ buckets' = Without(buckets, o[1].dropped, None)
               /\ meter' = Without(meter, Closed(d, o[1].peers), 0)
               /\ lastMiss' = [lastMiss EXCEPT ![d] = o[2]]
          /\ UNCHANGED told
       \/ /\ m.type = "rv_joined"
          /\ told' = [told EXCEPT ![m.rv][d] = TRUE]
          /\ UNCHANGED <<peers, buckets, meter, lastMiss>>
       \/ /\ m.type = "rv_msg"
          /\ UNCHANGED <<told, peers, buckets, meter, lastMiss>>
    /\ UNCHANGED <<now, pairs, since, serving, pending, rv, joining, unheard, usageVars>>

-----------------------------------------------------------------------------
(* Connections, pairs and time.                                            *)

Connect(d) ==
    /\ d \notin serving
    /\ serving' = serving \union {d}
    /\ peers' = [peers EXCEPT ![d] = ActivePeers(d)]
    /\ UNCHANGED <<now, pairs, since, buckets, pending, lastMiss, inbox, rvVars,
                   meter, usageVars>>

\* The connection ends: a failed write, a closed socket, a lost process.  The
\* frame it held and the messages in its mailbox are gone, and so is the
\* second half of an rv_join.
Disconnect(d) ==
    /\ d \in serving
    /\ serving' = serving \ {d}
    /\ peers' = [peers EXCEPT ![d] = {}]
    /\ buckets' = Without(buckets, Dropped(d, {}), None)
    /\ meter' = Without(meter, Closed(d, {}), 0)
    /\ pending' = [pending EXCEPT ![d] = None]
    /\ lastMiss' = [lastMiss EXCEPT ![d] = None]
    /\ inbox' = [inbox EXCEPT ![d] = <<>>]
    /\ joining' = [joining EXCEPT ![d] = None]
    /\ told' = [r \in Rv |-> [told[r] EXCEPT ![d] = None]]
    /\ unheard' = {u \in unheard : u[2] # d} \union
                    (IF joining[d] = None THEN {} ELSE {joining[d].rv} \X joining[d].tell)
    /\ UNCHANGED <<now, pairs, since, rv, usageVars>>

\* A pair is registered or removed.  Whether and when the connections hear of
\* it is PairNews.
AddPair(p) ==
    /\ p \notin pairs
    /\ pairs' = pairs \union {p}
    /\ since' = [since EXCEPT ![p] = now]
    /\ UNCHANGED <<now, connVars, inbox, rvVars, meter, usageVars>>

RemovePair(p) ==
    /\ p \in pairs
    /\ pairs' = pairs \ {p}
    /\ UNCHANGED <<now, since, connVars, inbox, rvVars, meter, usageVars>>

PairNews(d) ==
    /\ d \in serving
    /\ inbox' = Posted(d, [type |-> "pairs"])
    /\ UNCHANGED <<now, pairs, since, connVars, rvVars, meter, usageVars>>

\* The bus loses the newest message of a mailbox.
Lose(d) ==
    /\ "lost" \in Fault /\ inbox[d] # <<>>
    /\ LET m == inbox[d][Len(inbox[d])] IN
       unheard' = unheard \union
                    (IF m.type = "rv_joined" THEN {<<m.rv, d>>} ELSE {})
    /\ inbox' = [inbox EXCEPT ![d] = SubSeq(@, 1, Len(@) - 1)]
    /\ UNCHANGED <<now, pairs, since, connVars, rv, joining, told, meter, usageVars>>

Tick ==
    /\ now' = now + 1
    /\ meter' = [l \in Link |-> IF meter[l] = 0 THEN 0 ELSE meter[l] - 1]
    /\ UNCHANGED <<pairs, since, connVars, inbox, rvVars, usageVars>>

\* A push is counted (routes/push.rs), or the statistics run.
Statistics ==
    /\ UsageNext
    /\ UNCHANGED <<now, pairs, since, connVars, inbox, rvVars, meter>>

FromDevice(d) ==
    \/ \E t \in Device \ {d}, n \in FrameLen : Frame(d, t, n)
    \/ \E r \in Rv : rv_join(d, r) \/ rv_msg(d, r)

Next ==
    \/ \E d \in Device :
         \/ FromDevice(d)
         \/ Release(d)
         \/ rv_joined(d)
         \/ on_delivery(d)
         \/ Connect(d) \/ Disconnect(d)
         \/ PairNews(d) \/ Lose(d)
    \/ \E p \in Pair : AddPair(p) \/ RemovePair(p)
    \/ Tick
    \/ Statistics

Spec == Init /\ [][Next]_vars
-----------------------------------------------------------------------------
(* Properties.                                                             *)

Message ==
    [type : {"frame"}, from : Device] \union [type : {"pairs"}]
      \union [type : {"rv_joined", "rv_msg"}, rv : Rv]

\* The shape of the state.  Only a connection has peers, buckets, a held
\* frame, a mailbox or an rv_join in progress, and a rendezvous never has
\* more than two members (JOIN_SCRIPT).
TypeOK ==
    /\ now \in Nat
    /\ pairs \subseteq Pair
    /\ since \in [Pair -> Nat]
    /\ serving \subseteq Device
    /\ peers \in [Device -> SUBSET Device]
    /\ buckets \in [Link -> TokenBucket \union {None}]
    /\ pending \in [Device -> HeldFrame \union {None}]
    /\ lastMiss \in [Device -> Miss \union {None}]
    /\ inbox \in [Device -> Seq(Message)]
    /\ joining \in [Device -> RvJoin \union {None}]
    /\ rv \in [Rv -> [members : SUBSET Device, expires : Nat]]
    /\ \A r \in Rv : Cardinality(rv[r].members) <= 2
    /\ told \in [Rv -> [Device -> BOOLEAN \union {None}]]
    /\ unheard \subseteq Rv \X Device
    /\ meter \in [Link -> Nat]
    /\ \A d \in Device \ serving :
         /\ peers[d] = {} /\ pending[d] = None /\ inbox[d] = <<>>
         /\ joining[d] = None /\ lastMiss[d] = None
         /\ \A l \in Link : l[1] = d => buckets[l] = None

\* The limit that the connections of inbound.rs implement: what passes at
\* once is a second's worth and one frame more, because a frame that was held
\* may go out later than its deadline while the bucket refills.
Limit == INSTANCE Throttle
             WITH Link <- Link, Size <- PairBandwidth + MaxFrame,
                  open <- Open, level <- meter

\* From the moment a sender is connected and paired with a receiver until it
\* disconnects or finds the pair gone, no more bytes pass between the two than
\* the limit allows, for frames sent at once and frames held, and across every
\* reload of the pairs that keeps this one (TokenBucket, forward,
\* publish_forward, and retain in reload_peers).
Throttled == Limit!Spec

\* A device is held back for no longer than its last frame takes: the debt of
\* one frame is paid before the next is read, whoever it is for (the guard of
\* stream.recv in serve).
WaitBounded ==
    \A d \in Device :
      /\ pending[d] # None => pending[d].deadline - now <= MaxFrame
      /\ pending[d] = None =>
           \A l \in Link : (l[1] = d /\ buckets[l] # None) => Tokens(buckets[l]) >= 0

\* Reaches(d, t): the step asks is_peer(t) on the connection of d, for a frame
\* read from d or for a frame of t that is delivered to it.
Reaches(d, t) ==
    \/ \E n \in FrameLen : n <= MaxFrame /\ Frame(d, t, n)
    \/ /\ on_delivery(d)
       /\ Head(inbox[d]).type = "frame"
       /\ Head(inbox[d]).from = t

\* A frame between paired devices is refused (NOT_PAIRED to the sender, or
\* dropped at the receiver) only within MISS_RELOAD_GAP of the registration
\* of the pair, or when the database could not be asked (is_peer).
RefusalIsFresh ==
    [][\A d, t \in Device :
         (Reaches(d, t) /\ t \notin peers'[d] /\ {d, t} \in pairs)
           => now - since[{d, t}] < PairBandwidth \/ ~lastMiss'[d].ok]_vars

InMail(r, d) == \E k \in 1..Len(inbox[d]) : inbox[d][k] = [type |-> "rv_joined", rv |-> r]

\* Once two devices are in a rendezvous, each of them that joined over its
\* present connection knows it, is about to hear it, or missed the message:
\* it was lost, or the other's rv_join broke off before it was sent.  Joining
\* again does not repair that, since it tells only the joiner (rv_join).
BothKnow ==
    \A r \in Rv : Cardinality(Members(r)) = 2 =>
      \A d \in Members(r) \intersect serving :
        \/ told[r][d] \in {None, TRUE}
        \/ InMail(r, d)
        \/ <<r, d>> \in unheard
        \/ \E e \in serving :
             joining[e] # None /\ joining[e].rv = r /\ (e = d \/ d \in joining[e].tell)
=============================================================================
