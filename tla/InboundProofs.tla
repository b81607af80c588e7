--------------------------- MODULE InboundProofs ---------------------------
(***************************************************************************)
(* Proofs about Inbound, for any number of devices and any limits: the     *)
(* connections implement Throttle and Usage, no device is held back for    *)
(* longer than its last frame takes, and a frame between paired devices is *)
(* refused only for a moment.                                              *)
(***************************************************************************)
EXTENDS Inbound, TLAPS

USE SMTT(60)

-----------------------------------------------------------------------------
(* The bandwidth limit.                                                    *)

\* The lengths of frames that are forwarded.
Fits == {n \in FrameLen : n <= MaxFrame}

\* A frame that is held on link l, and how long it is.
HeldOn(l) == pending[l[1]] # None /\ pending[l[1]].to = l[2]
Waiting(l) == IF HeldOn(l) THEN pending[l[1]].bytes ELSE 0

\* What the bucket of a link is short of, the frame held on it included.
Debt(l) == IF buckets[l] = None THEN 0 ELSE PairBandwidth - Tokens(buckets[l])

LimitType ==
    /\ now \in Nat
    /\ buckets \in [Link -> TokenBucket \union {None}]
    /\ pending \in [Device -> HeldFrame \union {None}]
    /\ \A d \in Device : pending[d] # None => pending[d].bytes \in Fits /\ pending[d].to # d
    /\ meter \in [Link -> Nat]

\* Only a connection has peers.
PeersType ==
    /\ peers \in [Device -> SUBSET Device]
    /\ \A d \in Device \ serving : peers[d] = {}

\* What passed on a link is covered by the debt of its bucket, but for one
\* frame.  Only an open link has a bucket.  Only a held frame puts it below
\* zero, and its deadline is when the bucket is back at zero.
LinkInv(l) ==
    /\ buckets[l] # None => l \in Open
    /\ meter[l] + Waiting(l) <= Debt(l) + MaxFrame
    /\ (buckets[l] # None /\ ~HeldOn(l)) => Tokens(buckets[l]) >= 0
    /\ (buckets[l] # None /\ HeldOn(l)) =>
         pending[l[1]].deadline >= buckets[l].updated - buckets[l].tokens

LimitInv ==
    /\ LimitType
    /\ PeersType
    /\ \A l \in Link : LinkInv(l)
    /\ \A d \in Device : pending[d] # None => pending[d].deadline - now <= MaxFrame

LEMMA Limits ==
  /\ MaxFrame \in Nat \ {0} /\ PairBandwidth \in Nat /\ MaxFrame <= PairBandwidth
  /\ \A n \in Fits : n \in Nat /\ 1 <= n /\ n <= MaxFrame /\ n \in Amount
  <1>1. /\ MaxFrame \in Nat \ {0} /\ PairBandwidth \in Nat /\ MaxFrame <= PairBandwidth
        /\ FrameLen \subseteq Nat \ {0}
    BY InboundConstants, Zenon
  <1>2. Fits \subseteq Amount
    BY InboundConstants, Zenon DEF Fits
  <1>3. ASSUME NEW n \in Fits PROVE n \in Nat /\ 1 <= n /\ n <= MaxFrame
    <2>1. n \in FrameLen /\ n <= MaxFrame
      BY DEF Fits
    <2>2. n \in Nat /\ n # 0
      BY <1>1, <2>1
    <2> QED BY <1>1, <2>1, <2>2
  <1> QED BY <1>1, <1>2, <1>3

LEMMA NotNone ==
  /\ \A b \in TokenBucket : b # None
  /\ \A f \in HeldFrame : f # None
  /\ \A m \in Miss : m # None
  BY InboundConstants, Zenon

LEMMA LinkEnds == \A l \in Link : l[1] \in Device /\ l[2] \in Device /\ l[1] # l[2] /\ l = <<l[1], l[2]>>
  BY DEF Link

LEMMA LinkOf == \A d, t \in Device : d # t => <<d, t>> \in Link
  BY DEF Link

LEMMA TokensInt ==
  ASSUME now \in Nat, NEW b \in TokenBucket
  PROVE  /\ Tokens(b) \in Int /\ Tokens(b) <= PairBandwidth
         /\ b.tokens \in Int /\ b.updated \in Nat
  BY Limits DEF Tokens, Least, TokenBucket

LEMMA DebtNat == LimitType => \A l \in Link : Debt(l) \in Nat
  <1> SUFFICES ASSUME LimitType, NEW l \in Link PROVE Debt(l) \in Nat
    OBVIOUS
  <1>1. CASE buckets[l] = None
    BY <1>1 DEF Debt
  <1>2. CASE buckets[l] # None
    <2>1. buckets[l] \in TokenBucket /\ now \in Nat
      BY <1>2 DEF LimitType
    <2>2. Tokens(buckets[l]) \in Int /\ Tokens(buckets[l]) <= PairBandwidth
      BY <2>1, TokensInt
    <2> QED BY <1>2, <2>2, Limits DEF Debt
  <1> QED BY <1>1, <1>2

LEMMA WaitingType ==
  LimitType => \A l \in Link : Waiting(l) \in Nat /\ Waiting(l) <= MaxFrame
  <1> SUFFICES ASSUME LimitType, NEW l \in Link
               PROVE  Waiting(l) \in Nat /\ Waiting(l) <= MaxFrame
    OBVIOUS
  <1>1. HeldOn(l) => pending[l[1]].bytes \in Fits
    BY LinkEnds DEF LimitType, HeldOn
  <1>2. CASE HeldOn(l)
    <2>1. /\ pending[l[1]].bytes \in Nat /\ 1 <= pending[l[1]].bytes
          /\ pending[l[1]].bytes <= MaxFrame
      BY <1>1, <1>2, Limits
    <2> QED BY <1>2, <2>1, Limits DEF Waiting
  <1>3. CASE ~HeldOn(l)
    BY <1>3, Limits DEF Waiting
  <1> QED BY <1>2, <1>3

\* The same of the next state.
LEMMA NextDebtNat == LimitType' => (\A l \in Link : Debt(l) \in Nat)'
  BY DebtNat, PTL

LEMMA NextWaitingType ==
  LimitType' => (\A l \in Link : Waiting(l) \in Nat /\ Waiting(l) <= MaxFrame)'
  BY WaitingType, PTL

LEMMA LimitInit == Init => LimitInv
  <1> SUFFICES ASSUME Init PROVE LimitInv
    OBVIOUS
  <1>5. /\ now = 0 /\ buckets = [l \in Link |-> None] /\ pending = [d \in Device |-> None]
        /\ meter = [l \in Link |-> 0] /\ peers = [d \in Device |-> {}]
    BY Zenon DEF Init
  <1>1. LimitType
    BY <1>5 DEF LimitType
  <1>6. PeersType
    BY <1>5 DEF PeersType
  <1>2. \A l \in Link : buckets[l] = None /\ pending[l[1]] = None /\ meter[l] = 0
    BY <1>5, LinkEnds
  <1>3. \A l \in Link : LinkInv(l)
    <2> TAKE l \in Link
    <2>1. Debt(l) = 0 /\ Waiting(l) = 0
      BY <1>2 DEF Debt, Waiting, HeldOn
    <2> QED BY <1>2, <2>1, Limits DEF LinkInv
  <1>4. \A d \in Device : pending[d] = None
    BY <1>5, Zenon
  <1> QED BY <1>1, <1>3, <1>4, <1>6 DEF LimitInv

-----------------------------------------------------------------------------
(* Steps of the abstract limit.                                            *)

\* What is left of the meters when links open and close.
MeterLeft == Without(meter, Open \ Open', 0)

LEMMA KeptIsLeft == Limit!Kept = MeterLeft /\ Open \in SUBSET Link /\ Open' \in SUBSET Link
  BY DEF Limit!Kept, MeterLeft, Without, Open

LEMMA PassIsStep ==
  ASSUME NEW l \in Link, NEW n \in Nat, MeterLeft[l] \in Nat,
         MeterLeft[l] + n <= PairBandwidth + MaxFrame,
         meter' = [MeterLeft EXCEPT ![l] = @ + n]
  PROVE  Limit!Next
  <1>1. n \in 0..(PairBandwidth + MaxFrame)
    BY Limits
  <1>2. Limit!Pass(l, n)
    BY KeptIsLeft, Zenon DEF Limit!Pass
  <1> QED BY <1>1, <1>2, Zenon DEF Limit!Next

LEMMA TurnIsStep == meter' = MeterLeft => Limit!Next
  BY KeptIsLeft, Zenon DEF Limit!Turn, Limit!Next

\* The links that a reload finds gone are the ones that close, and their
\* buckets, if they have one, are the ones it drops (retain).
Closes(D) == \A l \in Open : l \in D <=> l \notin Open'

LEMMA ClosedLinks ==
  ASSUME PeersType, NEW d \in Device, NEW P, peers' = [peers EXCEPT ![d] = P]
  PROVE  /\ Closed(d, P) = Open \ Open'
         /\ Closes(Dropped(d, P))
         /\ P = peers[d] => Closes({})
  <1>1. \A l \in Link : l \in Open <=> l[2] \in peers[l[1]]
    BY DEF Open
  <1>2. \A l \in Link : l \in Open' <=> l[2] \in peers'[l[1]]
    BY DEF Open
  <1>3. \A l \in Link : peers'[l[1]] = IF l[1] = d THEN P ELSE peers[l[1]]
    BY LinkEnds DEF PeersType
  <1>4. Open \subseteq Link
    BY DEF Open
  <1> QED BY <1>1, <1>2, <1>3, <1>4, Zenon DEF Closed, Dropped, Closes

\* A reload that works, or none.
LEMMA OutcomeCloses ==
  ASSUME PeersType, NEW d \in Device, NEW r \in {Reloaded(d), NotReloaded(d)},
         peers' = [peers EXCEPT ![d] = r.peers]
  PROVE  Closed(d, r.peers) = Open \ Open' /\ Closes(r.dropped) /\ r.peers \in SUBSET Device
  <1>1. CASE r = Reloaded(d)
    <2>1. r.peers = ActivePeers(d) /\ r.dropped = Dropped(d, ActivePeers(d))
      BY <1>1 DEF Reloaded
    <2>2. ActivePeers(d) \in SUBSET Device
      BY DEF ActivePeers
    <2> QED BY <2>1, <2>2, ClosedLinks, Zenon
  <1>2. CASE r = NotReloaded(d)
    <2>1. r.peers = peers[d] /\ r.dropped = {}
      BY <1>2 DEF NotReloaded
    <2>2. peers[d] \in SUBSET Device
      BY DEF PeersType
    <2> QED BY <2>1, <2>2, ClosedLinks, Zenon
  <1> QED BY <1>1, <1>2

LEMMA ReloadOrNot ==
  ASSUME NEW d \in Device, NEW x \in ReloadOutcomes(d)
  PROVE  x[1] \in {Reloaded(d), NotReloaded(d)}
  <1>1. x = <<Reloaded(d), TRUE>> \/ x = <<NotReloaded(d), FALSE>>
    BY Zenon DEF ReloadOutcomes
  <1>2. \A r : <<r, TRUE>>[1] = r /\ <<r, FALSE>>[1] = r
    OBVIOUS
  <1> QED BY <1>1, <1>2, Zenon

LEMMA CheckReloads ==
  ASSUME NEW d \in Device, NEW t, NEW o \in is_peer(d, t)
  PROVE  o[1] \in {Reloaded(d), NotReloaded(d)}
  <1>1. CASE o = <<NotReloaded(d), lastMiss[d]>>
    BY <1>1
  <1>2. ASSUME NEW x \in ReloadOutcomes(d), o = <<x[1], [at |-> now, ok |-> x[2]]>>
        PROVE  o[1] \in {Reloaded(d), NotReloaded(d)}
    <2>1. o[1] = x[1]
      BY <1>2
    <2> QED BY <2>1, ReloadOrNot, Zenon
  <1> QED BY <1>1, <1>2, Zenon DEF is_peer

\* The connection of d keeps its place when its peers change.
LEMMA PeersChange ==
  ASSUME PeersType, NEW d \in serving \intersect Device, NEW P \in SUBSET Device,
         serving' = serving, peers' = [peers EXCEPT ![d] = P]
  PROVE  PeersType'
  BY DEF PeersType

-----------------------------------------------------------------------------
(* Steps of the connections.                                               *)

\* A reload or the end of a connection drops the buckets of some links; d may
\* lose the frame it holds with its connection.
LEMMA LimitDrop ==
  ASSUME LimitInv, PeersType', NEW D, Closes(D), now' = now,
         buckets' = Without(buckets, D, None), meter' = MeterLeft,
         \/ pending' = pending
         \/ \E d \in Device : /\ pending' = [pending EXCEPT ![d] = None]
                              /\ \A l \in Link : l[1] = d => l \in D
  PROVE  LimitInv' /\ Limit!Next
  <1>1. LimitType
    BY DEF LimitInv
  <1>2. /\ buckets' \in [Link -> TokenBucket \union {None}] /\ meter' \in [Link -> Nat]
        /\ \A l \in Link : buckets'[l] = IF l \in D THEN None ELSE buckets[l]
        /\ \A l \in Link : meter'[l] = IF l \in Open \ Open' THEN 0 ELSE meter[l]
    BY <1>1 DEF LimitType, Without, MeterLeft
  <1>3. /\ pending' \in [Device -> HeldFrame \union {None}]
        /\ \A d \in Device : pending'[d] # None => pending'[d] = pending[d]
        /\ \A l \in Link \ D : pending'[l[1]] = pending[l[1]]
    BY <1>1, LinkEnds DEF LimitType
  <1>4. LimitType'
    BY <1>1, <1>2, <1>3 DEF LimitType
  <1>5. ASSUME NEW l \in Link PROVE LinkInv(l)'
    <2>0. LinkInv(l)
      BY DEF LimitInv
    <2>1. CASE l \in D
      <3>1. Debt(l)' = 0 /\ buckets'[l] = None
        BY <1>2, <2>1 DEF Debt
      <3>2. Waiting(l)' \in Nat /\ Waiting(l)' <= MaxFrame /\ Waiting(l) \in Nat /\ meter[l] \in Nat
        BY <1>1, <1>4, WaitingType, NextWaitingType DEF LimitType
      <3>3. CASE l \in Open
        <4>1. meter'[l] = 0
          BY <1>2, <2>1, <3>3, Zenon DEF Closes
        <4> QED BY <3>1, <3>2, <4>1, Limits DEF LinkInv
      <3>4. CASE l \notin Open
        <4>1. meter'[l] = meter[l] /\ buckets[l] = None
          BY <1>2, <2>0, <3>4, Zenon DEF LinkInv
        <4>2. meter[l] + Waiting(l) <= MaxFrame
          BY <2>0, <3>2, <4>1, Limits DEF LinkInv, Debt
        <4>3. pending'[l[1]] = None \/ pending'[l[1]] = pending[l[1]]
          BY <1>3, LinkEnds
        <4>4. Waiting(l)' = 0 \/ Waiting(l)' = Waiting(l)
          BY <4>3 DEF Waiting, HeldOn
        <4>5. meter'[l] + Waiting(l)' <= MaxFrame
          BY <3>2, <4>1, <4>2, <4>4, Limits
        <4> QED BY <3>1, <3>2, <4>5, Limits DEF LinkInv
      <3> QED BY <3>3, <3>4
    <2>2. CASE l \notin D
      <3>1. buckets'[l] = buckets[l] /\ pending'[l[1]] = pending[l[1]]
        BY <1>2, <1>3, <2>2
      <3>2. meter'[l] = meter[l] /\ (buckets'[l] # None => l \in Open')
        BY <1>2, <2>0, <2>2, <3>1, Zenon DEF Closes, LinkInv
      <3> QED BY <2>0, <3>1, <3>2 DEF LinkInv, Debt, Waiting, HeldOn, Tokens
    <2> QED BY <2>1, <2>2
  <1>6. LimitInv'
    BY <1>3, <1>4, <1>5 DEF LimitInv
  <1> QED BY <1>6, TurnIsStep

\* Time passes: a byte leaks where there is one, and every bucket that is not
\* full gains one.
LEMMA LimitTick == ASSUME LimitInv, Tick PROVE LimitInv' /\ Limit!Next
  <1>1. LimitType
    BY DEF LimitInv
  <1>2a. PeersType' /\ Open' = Open
    BY DEF Tick, connVars, LimitInv, PeersType, Open
  <1>2. /\ now' = now + 1 /\ buckets' = buckets /\ pending' = pending
        /\ meter' = [l \in Link |-> IF meter[l] = 0 THEN 0 ELSE meter[l] - 1]
    BY DEF Tick, connVars
  <1>3. LimitType'
    <2>1. meter' \in [Link -> Nat]
      BY <1>1, <1>2 DEF LimitType
    <2> QED BY <1>1, <1>2, <2>1 DEF LimitType
  <1>4. ASSUME NEW l \in Link PROVE LinkInv(l)'
    <2>1. LinkInv(l) /\ meter[l] \in Nat
      BY <1>1 DEF LimitInv, LimitType
    <2>2. /\ Waiting(l)' = Waiting(l) /\ Waiting(l) \in Nat /\ Waiting(l) <= MaxFrame
          /\ (HeldOn(l)' <=> HeldOn(l))
      BY <1>1, <1>2, WaitingType DEF Waiting, HeldOn
    <2>3. Debt(l) \in Nat /\ Debt(l)' \in Nat
      BY <1>1, <1>3, DebtNat, NextDebtNat
    <2>4. buckets[l] # None => Tokens(buckets[l])' >= Tokens(buckets[l])
                               /\ Tokens(buckets[l])' <= Tokens(buckets[l]) + 1
      BY <1>1, <1>2, Limits DEF LimitType, Tokens, Least, TokenBucket
    <2>5. Debt(l)' >= Debt(l) - 1
      <3>1. CASE buckets[l] = None
        BY <1>2, <3>1 DEF Debt
      <3>2. CASE buckets[l] # None
        <4>1. Tokens(buckets[l]) \in Int /\ Tokens(buckets[l])' \in Int
          BY <1>1, <1>2, <3>2, Limits DEF LimitType, Tokens, Least, TokenBucket
        <4> QED BY <1>2, <2>4, <3>2, <4>1, Limits DEF Debt
      <3> QED BY <3>1, <3>2
    <2>6. meter'[l] = IF meter[l] = 0 THEN 0 ELSE meter[l] - 1
      BY <1>2
    <2>7. meter'[l] + Waiting(l)' <= Debt(l)' + MaxFrame
      <3>1. meter[l] + Waiting(l) <= Debt(l) + MaxFrame
        BY <2>1 DEF LinkInv
      <3> QED BY <2>1, <2>2, <2>3, <2>5, <2>6, <3>1, Limits
    <2>8. (buckets'[l] # None /\ ~HeldOn(l)') => Tokens(buckets[l])' >= 0
      <3> SUFFICES ASSUME buckets[l] # None, ~HeldOn(l) PROVE Tokens(buckets[l])' >= 0
        BY <1>2, <2>2
      <3>1. Tokens(buckets[l]) >= 0
        BY <2>1 DEF LinkInv
      <3>2. Tokens(buckets[l]) \in Int /\ Tokens(buckets[l])' \in Int
        BY <1>1, <1>2, Limits DEF LimitType, Tokens, Least, TokenBucket
      <3> QED BY <2>4, <3>1, <3>2
    <2>9. (buckets'[l] # None /\ HeldOn(l)') =>
            pending'[l[1]].deadline >= buckets'[l].updated - buckets'[l].tokens
      BY <1>2, <2>1, <2>2 DEF LinkInv
    <2>10. buckets'[l] # None => l \in Open'
      BY <1>2, <1>2a, <2>1, Zenon DEF LinkInv
    <2> QED BY <2>7, <2>8, <2>9, <2>10, Zenon DEF LinkInv
  <1>5. \A d \in Device : pending'[d] # None => pending'[d].deadline - now' <= MaxFrame
    BY <1>1, <1>2, Limits DEF LimitInv, LimitType, HeldFrame
  <1>6. Limit!Next
    BY <1>2, <1>2a DEF Limit!Next, Limit!Tick, Limit!Leak
  <1> QED BY <1>2a, <1>3, <1>4, <1>5, <1>6 DEF LimitInv

\* The bucket that forward takes n from, on link l, and what has passed on l.
Before(D, l) == IF Without(buckets, D, None)[l] = None THEN NewBucket
                ELSE Without(buckets, D, None)[l]

LEMMA TakeBucket ==
  ASSUME LimitInv, NEW D, Closes(D), NEW l \in Link, NEW n \in Fits, ~HeldOn(l)
  PROVE  LET b0 == Before(D, l)
             b == Take(b0, n)
             sent == MeterLeft
         IN  /\ b \in TokenBucket /\ b.updated = now /\ Tokens(b) = b.tokens
             /\ -n <= b.tokens /\ b.tokens <= PairBandwidth
             /\ sent[l] \in Nat
             /\ sent[l] + n <= PairBandwidth - b.tokens + MaxFrame
  <1> DEFINE b0 == Before(D, l)
             b == Take(b0, n)
             sent == MeterLeft
             kept == Without(buckets, D, None)
  <1>1. LimitType /\ LinkInv(l) /\ now \in Nat
    BY DEF LimitInv, LimitType
  <1>2. n \in Nat /\ 1 <= n /\ n <= MaxFrame
    BY Limits
  <1>3. \/ kept[l] = None /\ (sent[l] = 0 \/ (buckets[l] = None /\ sent[l] = meter[l]))
        \/ kept[l] = buckets[l] /\ sent[l] = meter[l]
    <2>1. /\ kept[l] = IF l \in D THEN None ELSE buckets[l]
          /\ sent[l] = IF l \in Open \ Open' THEN 0 ELSE meter[l]
      BY DEF Without, MeterLeft
    <2>2. (l \in Open => (l \in D <=> l \notin Open')) /\ (buckets[l] # None => l \in Open)
      BY <1>1, Zenon DEF LinkInv, Closes
    <2> HIDE DEF kept, sent
    <2> QED BY <2>1, <2>2
  <1>4. meter[l] \in Nat /\ buckets[l] \in TokenBucket \union {None}
    BY <1>1 DEF LimitType
  <1>5. Waiting(l) = 0
    BY DEF Waiting
  <1>6. NewBucket \in TokenBucket /\ Tokens(NewBucket) = PairBandwidth
    BY <1>1, Limits DEF NewBucket, TokenBucket, Tokens, Least
  <1>7. /\ b0 \in TokenBucket /\ Tokens(b0) >= 0
        /\ sent[l] <= PairBandwidth - Tokens(b0) + MaxFrame
    <2>1. CASE kept[l] = None
      <3>1. b0 = NewBucket
        BY <2>1 DEF Before
      <3>2. sent[l] <= MaxFrame
        <4>1. CASE sent[l] = 0
          BY <4>1, Limits
        <4>2. CASE buckets[l] = None /\ sent[l] = meter[l]
          <5>1. Debt(l) = 0
            BY <4>2 DEF Debt
          <5> QED BY <1>1, <1>4, <1>5, <4>2, <5>1, Limits DEF LinkInv
        <4> QED BY <1>3, <2>1, <4>1, <4>2
      <3>3. sent[l] \in Nat
        BY <1>3, <1>4
      <3> HIDE DEF b0, sent
      <3> QED BY <1>6, <3>1, <3>2, <3>3, Limits
    <2>2. CASE kept[l] # None
      <3>1. b0 = buckets[l] /\ buckets[l] # None /\ sent[l] = meter[l]
        BY <1>3, <2>2 DEF Before
      <3>2. Debt(l) = PairBandwidth - Tokens(b0) /\ Tokens(b0) >= 0
        BY <1>1, <3>1 DEF Debt, LinkInv
      <3>3. meter[l] + 0 <= Debt(l) + MaxFrame
        BY <1>1, <1>5 DEF LinkInv
      <3>4. Tokens(b0) \in Int
        BY <1>1, <1>4, <3>1, TokensInt
      <3> HIDE DEF b0, sent
      <3> QED BY <1>4, <3>1, <3>2, <3>3, <3>4, Limits
    <2> QED BY <2>1, <2>2
  <1>8. Tokens(b0) \in Int /\ Tokens(b0) <= PairBandwidth
    BY <1>1, <1>7, TokensInt
  <1> HIDE DEF b0, sent
  <1>9. sent[l] \in Nat
    BY <1>3, <1>4
  <1>10. b = [tokens |-> Tokens(b0) - n, updated |-> now]
    BY DEF Take
  <1>11. b \in TokenBucket /\ b.updated = now /\ b.tokens = Tokens(b0) - n
    BY <1>1, <1>2, <1>8, <1>10 DEF TokenBucket
  <1> HIDE DEF b
  <1>12. Tokens(b) = b.tokens
    BY <1>1, <1>2, <1>8, <1>11, Limits DEF Tokens, Least
  <1>13. /\ -n <= b.tokens /\ b.tokens <= PairBandwidth
         /\ sent[l] + n <= PairBandwidth - b.tokens + MaxFrame
    BY <1>2, <1>7, <1>8, <1>9, <1>11, Limits
  <1> QED BY <1>9, <1>11, <1>12, <1>13 DEF b, b0, sent

\* Links on which nothing happens but that some close.
LEMMA OtherLinks ==
  ASSUME LimitInv, NEW D, Closes(D), NEW k \in Link, now' = now,
         buckets'[k] = Without(buckets, D, None)[k], meter'[k] = MeterLeft[k],
         pending'[k[1]] = pending[k[1]] \/ (~HeldOn(k) /\ ~HeldOn(k)')
  PROVE  LinkInv(k)'
  <1>1. LimitType /\ LinkInv(k)
    BY DEF LimitInv
  <1>2. Waiting(k)' = Waiting(k) /\ (HeldOn(k)' <=> HeldOn(k))
        /\ (HeldOn(k) => pending'[k[1]] = pending[k[1]])
    BY DEF Waiting, HeldOn
  <1>3. /\ buckets'[k] = IF k \in D THEN None ELSE buckets[k]
        /\ meter'[k] = IF k \in Open \ Open' THEN 0 ELSE meter[k]
    BY DEF Without, MeterLeft
  <1>4. \/ buckets'[k] = None /\ (meter'[k] = 0 \/ (buckets[k] = None /\ meter'[k] = meter[k]))
        \/ buckets'[k] = buckets[k] /\ meter'[k] = meter[k] /\ k \in Open'
    <2>1. (k \in Open => (k \in D <=> k \notin Open')) /\ (buckets[k] # None => k \in Open)
      BY <1>1, Zenon DEF LinkInv, Closes
    <2> QED BY <1>3, <2>1
  <1>5. CASE buckets'[k] = None /\ meter'[k] = 0
    <2>1. Waiting(k) \in Nat /\ Waiting(k) <= MaxFrame /\ Debt(k)' = 0
      BY <1>1, <1>5, WaitingType DEF Debt
    <2> QED BY <1>2, <1>5, <2>1, Limits DEF LinkInv
  <1>6. CASE /\ buckets'[k] = buckets[k] /\ meter'[k] = meter[k]
             /\ buckets'[k] = None \/ k \in Open'
    BY <1>1, <1>2, <1>6 DEF LinkInv, Debt, Tokens
  <1> QED BY <1>4, <1>5, <1>6, Zenon

LEMMA LimitForward ==
  ASSUME LimitInv, NEW d \in Device, NEW t \in Device, d # t, NEW n \in Fits,
         pending[d] = None, now' = now, d \in serving, serving' = serving, forward(d, t, n)
  PROVE  LimitInv' /\ Limit!Next
  <1> DEFINE l == <<d, t>>
  <1>1. l \in Link /\ l[1] = d /\ l[2] = t
    BY LinkOf
  <1>2. LimitType
    BY DEF LimitInv
  <1>3. \A k \in Link : k[1] = d => ~HeldOn(k)
    BY DEF HeldOn
  <1>4. PICK o \in is_peer(d, t) :
          /\ peers' = [peers EXCEPT ![d] = o[1].peers]
          /\ LET kept == Without(buckets, o[1].dropped, None)
                 b == Take(IF kept[l] = None THEN NewBucket ELSE kept[l], n)
                 sent == Without(meter, Closed(d, o[1].peers), 0)
             IN  \/ /\ buckets' = kept /\ meter' = sent /\ pending' = pending
                 \/ /\ t \in o[1].peers
                    /\ buckets' = [kept EXCEPT ![l] = b]
                    /\ \/ /\ b.tokens >= 0
                          /\ meter' = [sent EXCEPT ![l] = @ + n]
                          /\ pending' = pending
                       \/ /\ b.tokens < 0
                          /\ pending' = [pending EXCEPT ![d] =
                                [to |-> t, bytes |-> n, deadline |-> now - b.tokens]]
                          /\ meter' = sent
    BY Zenon DEF forward
  <1>4a. PICK D : D = o[1].dropped
    OBVIOUS
  <1>4b. /\ Closed(d, o[1].peers) = Open \ Open' /\ Closes(D) /\ o[1].peers \in SUBSET Device
         /\ PeersType
    <2>1. PICK r \in {Reloaded(d), NotReloaded(d)} : r = o[1]
      BY CheckReloads, Zenon
    <2>2. PeersType /\ peers' = [peers EXCEPT ![d] = r.peers]
      BY <1>4, <2>1, Zenon DEF LimitInv
    <2>3. Closed(d, r.peers) = Open \ Open' /\ Closes(r.dropped) /\ r.peers \in SUBSET Device
      BY <2>2, OutcomeCloses, Zenon
    <2> QED BY <1>4a, <2>1, <2>2, <2>3, Zenon
  <1>4c. PeersType' /\ (t \in o[1].peers => l \in Open')
    <2>1. PeersType'
      BY <1>4, <1>4b, PeersChange, Zenon
    <2>2. peers'[d] = o[1].peers
      BY <1>4, <1>4b, Zenon DEF PeersType
    <2>3. l \in Open' <=> t \in peers'[d]
      BY <1>1 DEF Open
    <2> QED BY <2>1, <2>2, <2>3, Zenon
  <1>4d. \/ /\ buckets' = Without(buckets, D, None) /\ meter' = MeterLeft
            /\ pending' = pending
         \/ /\ l \in Open'
            /\ buckets' = [Without(buckets, D, None) EXCEPT ![l] = Take(Before(D, l), n)]
            /\ \/ /\ Take(Before(D, l), n).tokens >= 0
                  /\ meter' = [MeterLeft EXCEPT ![l] = @ + n]
                  /\ pending' = pending
               \/ /\ Take(Before(D, l), n).tokens < 0
                  /\ pending' = [pending EXCEPT ![d] =
                       [to |-> t, bytes |-> n, deadline |-> now - Take(Before(D, l), n).tokens]]
                  /\ meter' = MeterLeft
    BY <1>4, <1>4a, <1>4b, <1>4c, Zenon DEF Before, MeterLeft
  <1> DEFINE b == Take(Before(D, l), n)
             kept == Without(buckets, D, None)
  <1> DEFINE sent == MeterLeft
  <1>5. /\ b \in TokenBucket /\ b.updated = now /\ Tokens(b) = b.tokens
        /\ -n <= b.tokens /\ b.tokens <= PairBandwidth
        /\ sent[l] \in Nat
        /\ sent[l] + n <= PairBandwidth - b.tokens + MaxFrame
    BY <1>1, <1>3, <1>4b, TakeBucket
  <1> HIDE DEF b
  <1>6. n \in Nat /\ 1 <= n /\ n <= MaxFrame /\ b # None /\ b.tokens \in Int /\ now \in Nat
    BY <1>2, <1>5, Limits, NotNone DEF TokenBucket, LimitType
  <1>7. /\ kept \in [Link -> TokenBucket \union {None}] /\ sent \in [Link -> Nat]
    BY <1>2 DEF LimitType, Without, MeterLeft
  <1>8. CASE buckets' = kept /\ meter' = sent /\ pending' = pending
    BY <1>4b, <1>4c, <1>8, LimitDrop
  <1>9. CASE /\ l \in Open' /\ buckets' = [kept EXCEPT ![l] = b] /\ b.tokens >= 0
             /\ meter' = [sent EXCEPT ![l] = @ + n] /\ pending' = pending
    <2>1. /\ buckets' \in [Link -> TokenBucket \union {None}] /\ buckets'[l] = b
          /\ meter' \in [Link -> Nat] /\ meter'[l] = sent[l] + n
          /\ \A k \in Link \ {l} : buckets'[k] = kept[k] /\ meter'[k] = sent[k]
      BY <1>1, <1>5, <1>6, <1>7, <1>9
    <2>2. LimitType'
      BY <1>2, <1>9, <2>1 DEF LimitType
    <2>3. \A k \in Link \ {l} : LinkInv(k)'
      BY <1>4b, <1>9, <2>1, OtherLinks
    <2>4. LinkInv(l)'
      <3>1. ~HeldOn(l)' /\ Waiting(l)' = 0
        BY <1>1, <1>3, <1>9 DEF HeldOn, Waiting
      <3>2. Debt(l)' = PairBandwidth - b.tokens /\ Tokens(buckets[l])' = b.tokens
        BY <1>5, <1>6, <2>1 DEF Debt, Tokens
      <3>3. meter'[l] + Waiting(l)' <= Debt(l)' + MaxFrame /\ Tokens(buckets[l])' >= 0
        BY <1>5, <1>6, <1>9, <2>1, <3>1, <3>2, Limits
      <3> QED BY <1>9, <3>1, <3>3, Zenon DEF LinkInv
    <2>5. \A e \in Device : pending'[e] # None => pending'[e].deadline - now' <= MaxFrame
      BY <1>9, Zenon DEF LimitInv
    <2>6. LimitInv'
      BY <1>4c, <2>2, <2>3, <2>4, <2>5 DEF LimitInv
    <2>7. sent[l] + n <= PairBandwidth + MaxFrame
      BY <1>5, <1>6, <1>9, Limits
    <2>8. Limit!Next
      BY <1>1, <1>5, <1>6, <1>9, <2>7, PassIsStep, Zenon
    <2> QED BY <2>6, <2>8
  <1>10. CASE /\ l \in Open' /\ buckets' = [kept EXCEPT ![l] = b] /\ b.tokens < 0 /\ meter' = sent
              /\ pending' = [pending EXCEPT ![d] =
                               [to |-> t, bytes |-> n, deadline |-> now - b.tokens]]
    <2> DEFINE f == [to |-> t, bytes |-> n, deadline |-> now - b.tokens]
    <2>1. /\ buckets' \in [Link -> TokenBucket \union {None}] /\ buckets'[l] = b
          /\ \A k \in Link \ {l} : buckets'[k] = kept[k]
      BY <1>1, <1>5, <1>7, <1>10
    <2>2. f \in HeldFrame /\ f # None
      <3>1. b.tokens < 0
        BY <1>10, Zenon
      <3>2. n \in 1..MaxFrame /\ now - b.tokens \in Nat
        BY <1>6, <3>1, Limits
      <3>3. f \in HeldFrame
        BY <3>2, Zenon DEF HeldFrame
      <3> QED BY <3>3, NotNone, Zenon
    <2>4. f.bytes = n /\ f.to = t /\ f.deadline = now - b.tokens
      OBVIOUS
    <2>2a. pending' = [pending EXCEPT ![d] = f] /\ pending \in [Device -> HeldFrame \union {None}]
      BY <1>2, <1>10, Zenon DEF LimitType
    <2> HIDE DEF f
    <2>3. /\ pending' \in [Device -> HeldFrame \union {None}] /\ pending'[d] = f
          /\ \A e \in Device \ {d} : pending'[e] = pending[e]
      BY <2>2, <2>2a
    <2>5. LimitType'
      BY <1>2, <1>7, <1>10, <2>1, <2>3, <2>4 DEF LimitType
    <2>6. ASSUME NEW k \in Link, k # l PROVE LinkInv(k)'
      <3>1. CASE k[1] = d
        <4>1. k[2] # t
          BY <2>6, <3>1, LinkEnds
        <4>2. ~HeldOn(k) /\ ~HeldOn(k)'
          BY <1>3, <2>3, <2>4, <3>1, <4>1 DEF HeldOn
        <4> QED BY <1>4b, <1>10, <2>1, <2>6, <4>2, OtherLinks, Zenon
      <3>2. CASE k[1] # d
        BY <1>4b, <1>10, <2>1, <2>3, <2>6, <3>2, LinkEnds, OtherLinks
      <3> QED BY <3>1, <3>2
    <2>7. LinkInv(l)'
      <3>1. HeldOn(l)' /\ Waiting(l)' = n
        BY <1>1, <2>2, <2>3, <2>4 DEF HeldOn, Waiting
      <3>2. Debt(l)' = PairBandwidth - b.tokens
        <4>1. Tokens(buckets[l])' = b.tokens
          BY <1>5, <1>6, <2>1 DEF Tokens
        <4> QED BY <1>6, <2>1, <4>1, Zenon DEF Debt
      <3>3. meter'[l] + n <= Debt(l)' + MaxFrame
        <4>1. meter' = sent
          BY <1>10, Zenon
        <4> HIDE DEF sent
        <4> QED BY <1>5, <1>6, <3>2, <4>1, Limits
      <3>4. pending'[l[1]].deadline = now - b.tokens
        BY <1>1, <2>3, <2>4
      <3>5. pending'[l[1]].deadline >= buckets'[l].updated - buckets'[l].tokens
        BY <1>5, <1>6, <2>1, <3>4
      <3> QED BY <1>10, <3>1, <3>3, <3>5, Zenon DEF LinkInv
    <2>8. \A e \in Device : pending'[e] # None => pending'[e].deadline - now' <= MaxFrame
      <3>1. f.deadline - now' <= MaxFrame
        BY <1>5, <1>6, <2>4, Limits
      <3> QED BY <2>3, <3>1, Zenon DEF LimitInv
    <2>9. LimitInv'
      BY <1>4c, <2>5, <2>6, <2>7, <2>8, Zenon DEF LimitInv
    <2> QED BY <1>10, <2>9, TurnIsStep, Zenon
  <1> QED BY <1>4d, <1>8, <1>9, <1>10, Zenon DEF b

\* A held frame goes out at its deadline or later, when its bucket is out of
\* debt: what has passed is at most the capacity and this frame.
LEMMA LimitRelease ==
  ASSUME LimitInv, NEW d \in Device, Release(d)
  PROVE  LimitInv' /\ Limit!Next
  <1>1. LimitType /\ now \in Nat
    BY DEF LimitInv, LimitType
  <1>2. /\ pending[d] # None /\ now >= pending[d].deadline /\ UNCHANGED <<now, buckets>>
        /\ meter' = [meter EXCEPT ![<<d, pending[d].to>>] = @ + pending[d].bytes]
        /\ pending' = [pending EXCEPT ![d] = None]
    BY DEF Release
  <1>2a. PeersType' /\ Open' = Open /\ Closes({}) /\ MeterLeft = meter
    <2>1. PeersType' /\ Open' = Open
      BY DEF Release, LimitInv, PeersType, Open
    <2> QED BY <1>1, <2>1 DEF Closes, MeterLeft, Without, LimitType
  <1>3. pending[d] \in HeldFrame /\ pending[d].bytes \in Fits /\ pending[d].to # d
    BY <1>1, <1>2 DEF LimitType
  <1>4. pending[d].to \in Device /\ pending[d].deadline \in Nat
    BY <1>3 DEF HeldFrame
  <1>4a. /\ <<d, pending[d].to>> \in Link /\ <<d, pending[d].to>>[1] = d
         /\ <<d, pending[d].to>>[2] = pending[d].to
    BY <1>3, <1>4, LinkOf
  <1>5. PICK l \in Link, n \in Fits : /\ l = <<d, pending[d].to>> /\ l[1] = d
                                      /\ l[2] = pending[d].to /\ n = pending[d].bytes
    BY <1>3, <1>4a, Zenon
  <1>6. n \in Nat /\ 1 <= n /\ n <= MaxFrame
    BY Limits
  <1>7. HeldOn(l) /\ Waiting(l) = n
    BY <1>2, <1>5 DEF HeldOn, Waiting
  <1>8. LinkInv(l) /\ Debt(l) \in Nat /\ meter[l] \in Nat
    BY <1>1, DebtNat DEF LimitInv, LimitType
  <1>9. /\ buckets[l] # None => Tokens(buckets[l]) >= 0
        /\ Debt(l) <= PairBandwidth
    <2>1. CASE buckets[l] = None
      BY <2>1, Limits DEF Debt
    <2>2. CASE buckets[l] # None
      <3>1. buckets[l] \in TokenBucket
        BY <1>1, <1>5, <2>2 DEF LimitType
      <3>2. pending[d].deadline >= buckets[l].updated - buckets[l].tokens
        BY <1>5, <1>7, <1>8, <2>2 DEF LinkInv
      <3>3. Tokens(buckets[l]) \in Int /\ buckets[l].updated \in Nat /\ buckets[l].tokens \in Int
        BY <1>1, <3>1, TokensInt
      <3>4. Tokens(buckets[l]) >= 0
        BY <1>1, <1>2, <1>4, <3>2, <3>3, Limits DEF Tokens, Least
      <3>5. Debt(l) = PairBandwidth - Tokens(buckets[l])
        BY <2>2 DEF Debt
      <3> QED BY <3>3, <3>4, <3>5, Limits
    <2> QED BY <2>1, <2>2
  <1>10. /\ meter' \in [Link -> Nat] /\ meter'[l] = meter[l] + n
         /\ \A k \in Link \ {l} : meter'[k] = meter[k]
    BY <1>1, <1>2, <1>5, <1>6 DEF LimitType
  <1>11. /\ pending' \in [Device -> HeldFrame \union {None}] /\ pending'[d] = None
         /\ \A e \in Device \ {d} : pending'[e] = pending[e]
    BY <1>1, <1>2 DEF LimitType
  <1>12. LimitType'
    <2>1. \A e \in Device : pending'[e] # None => pending'[e].bytes \in Fits /\ pending'[e].to # e
      BY <1>1, <1>11, Zenon DEF LimitType
    <2> QED BY <1>1, <1>2, <1>10, <1>11, <2>1, Zenon DEF LimitType
  <1>13. meter[l] + n <= Debt(l) + MaxFrame
    BY <1>7, <1>8 DEF LinkInv
  <1>14. LinkInv(l)'
    <2>1. ~HeldOn(l)' /\ Waiting(l)' = 0
      BY <1>5, <1>11 DEF HeldOn, Waiting
    <2>2. Debt(l)' = Debt(l) /\ buckets'[l] = buckets[l] /\ Tokens(buckets[l])' = Tokens(buckets[l])
      BY <1>2 DEF Debt, Tokens
    <2>3. meter'[l] + Waiting(l)' <= Debt(l)' + MaxFrame
      BY <1>6, <1>8, <1>10, <1>13, <2>1, <2>2, Limits
    <2>4. buckets'[l] # None => l \in Open' /\ Tokens(buckets[l])' >= 0
      BY <1>2a, <1>8, <1>9, <2>2, Zenon DEF LinkInv
    <2> QED BY <2>1, <2>3, <2>4, Zenon DEF LinkInv
  <1>15. ASSUME NEW k \in Link, k # l PROVE LinkInv(k)'
    <2>1. pending'[k[1]] = pending[k[1]] \/ (~HeldOn(k) /\ ~HeldOn(k)')
      <3>1. CASE k[1] = d
        <4>1. k[2] # pending[d].to
          BY <1>5, <1>15, <3>1, LinkEnds
        <4> QED BY <1>11, <3>1, <4>1 DEF HeldOn
      <3>2. CASE k[1] # d
        BY <1>11, <3>2, LinkEnds
      <3> QED BY <3>1, <3>2
    <2>2. buckets'[k] = Without(buckets, {}, None)[k] /\ meter'[k] = MeterLeft[k]
      BY <1>2, <1>2a, <1>10, <1>15 DEF Without
    <2> QED BY <1>2, <1>2a, <2>1, <2>2, OtherLinks
  <1>16. \A e \in Device : pending'[e] # None => pending'[e].deadline - now' <= MaxFrame
    BY <1>2, <1>11, Zenon DEF LimitInv
  <1>17. LimitInv'
    BY <1>2a, <1>12, <1>14, <1>15, <1>16, Zenon DEF LimitInv
  <1>18. meter[l] + n <= PairBandwidth + MaxFrame
    BY <1>6, <1>8, <1>9, <1>13, Limits
  <1>19. Limit!Next
    <2>1. meter' = [MeterLeft EXCEPT ![l] = @ + n]
      BY <1>2, <1>2a, <1>5, Zenon
    <2> QED BY <1>2a, <1>6, <1>8, <1>18, <2>1, PassIsStep, Zenon
  <1> QED BY <1>17, <1>19

\* Steps that have nothing to do with the limit.
LEMMA LimitSame ==
  ASSUME LimitInv, UNCHANGED <<now, serving, peers, buckets, pending, meter>>
  PROVE  LimitInv' /\ UNCHANGED <<Open, meter>>
  <1>1. LimitType' /\ PeersType' /\ Open' = Open
    BY Zenon DEF LimitInv, LimitType, PeersType, Open
  <1>2. \A l \in Link : LinkInv(l)'
    BY <1>1 DEF LimitInv, LinkInv, Debt, Waiting, HeldOn, Tokens
  <1> QED BY <1>1, <1>2 DEF LimitInv

\* A device connects: its links open.
LEMMA LimitConnect ==
  ASSUME LimitInv, NEW d \in Device, Connect(d)
  PROVE  LimitInv' /\ Limit!Next
  <1>1. /\ UNCHANGED <<now, buckets, pending, meter>> /\ d \notin serving
        /\ serving' = serving \union {d} /\ peers' = [peers EXCEPT ![d] = ActivePeers(d)]
    BY Zenon DEF Connect
  <1>2. PeersType /\ LimitType /\ peers[d] = {} /\ ActivePeers(d) \in SUBSET Device
    BY <1>1 DEF LimitInv, PeersType, ActivePeers
  <1>3. PeersType'
    BY <1>1, <1>2 DEF PeersType
  <1>4. \A l \in Open : l \in Link /\ l \in Open'
    BY <1>1, <1>2, LinkEnds DEF Open, PeersType
  <1>5. MeterLeft = meter
    BY <1>2, <1>4 DEF MeterLeft, Without, LimitType
  <1>6. LimitType'
    BY <1>1, <1>2, Zenon DEF LimitType
  <1>7. \A l \in Link : LinkInv(l)'
    BY <1>1, <1>4 DEF LimitInv, LinkInv, Debt, Waiting, HeldOn, Tokens
  <1> QED BY <1>1, <1>3, <1>5, <1>6, <1>7, TurnIsStep DEF LimitInv

LEMMA LimitStep == LimitInv /\ [Next]_vars => LimitInv' /\ [Limit!Next]_<<Open, meter>>
  <1> SUFFICES ASSUME LimitInv, [Next]_vars PROVE LimitInv' /\ [Limit!Next]_<<Open, meter>>
    OBVIOUS
  <1>1. ASSUME NEW d \in Device, NEW t \in Device, t # d, NEW n \in FrameLen, Frame(d, t, n)
        PROVE  LimitInv' /\ [Limit!Next]_<<Open, meter>>
    <2>1. now' = now /\ pending[d] = None /\ d \in serving /\ serving' = serving
      BY <1>1, Zenon DEF Frame, Reading, Between
    <2>2. CASE n <= MaxFrame /\ forward(d, t, n)
      <3>1. n \in Fits
        BY <2>2 DEF Fits
      <3> QED BY <1>1, <2>1, <2>2, <3>1, LimitForward
    <2>3. CASE UNCHANGED <<peers, buckets, pending, meter>>
      BY <2>1, <2>3, LimitSame, Zenon
    <2> QED BY <1>1, <2>2, <2>3, Zenon DEF Frame
  <1>2. ASSUME NEW d \in Device, on_delivery(d) PROVE LimitInv' /\ [Limit!Next]_<<Open, meter>>
    <2>1. now' = now /\ pending' = pending /\ d \in serving /\ serving' = serving
      BY <1>2, Zenon DEF on_delivery, Between
    <2> DEFINE S == IF Head(inbox[d]).type = "frame" THEN is_peer(d, Head(inbox[d]).from)
                      ELSE {<<x[1], lastMiss[d]>> : x \in ReloadOutcomes(d)}
    <2>2. ASSUME NEW o \in S, peers' = [peers EXCEPT ![d] = o[1].peers],
                 buckets' = Without(buckets, o[1].dropped, None),
                 meter' = Without(meter, Closed(d, o[1].peers), 0)
          PROVE  LimitInv' /\ [Limit!Next]_<<Open, meter>>
      <3>1. o[1] \in {Reloaded(d), NotReloaded(d)}
        <4>1. ASSUME NEW x \in ReloadOutcomes(d), o = <<x[1], lastMiss[d]>>
              PROVE  o[1] \in {Reloaded(d), NotReloaded(d)}
          <5>1. o[1] = x[1]
            BY <4>1
          <5> QED BY <5>1, ReloadOrNot, Zenon
        <4> QED BY <2>2, <4>1, CheckReloads, Zenon
      <3>2. /\ Closed(d, o[1].peers) = Open \ Open' /\ Closes(o[1].dropped)
            /\ o[1].peers \in SUBSET Device /\ PeersType
        BY <2>2, <3>1, OutcomeCloses, Zenon DEF LimitInv
      <3>3. PeersType'
        BY <2>1, <2>2, <3>2, PeersChange, Zenon
      <3>4. meter' = MeterLeft
        BY <2>2, <3>2, Zenon DEF MeterLeft
      <3>5. PICK D : D = o[1].dropped
        OBVIOUS
      <3> QED BY <2>1, <2>2, <3>2, <3>3, <3>4, <3>5, LimitDrop, Zenon
    <2>3. CASE UNCHANGED <<peers, buckets, meter>>
      BY <2>1, <2>3, LimitSame, Zenon
    <2> QED BY <1>2, <2>2, <2>3, Zenon DEF on_delivery
  <1>3. ASSUME NEW d \in Device, Disconnect(d) PROVE LimitInv' /\ [Limit!Next]_<<Open, meter>>
    <2>1. /\ now' = now /\ pending' = [pending EXCEPT ![d] = None]
          /\ buckets' = Without(buckets, Dropped(d, {}), None)
          /\ meter' = Without(meter, Closed(d, {}), 0)
          /\ peers' = [peers EXCEPT ![d] = {}] /\ serving' = serving \ {d}
      BY <1>3, Zenon DEF Disconnect
    <2>2. \A l \in Link : l[1] = d => l \in Dropped(d, {})
      BY DEF Dropped
    <2>3. PeersType /\ PeersType'
      BY <2>1 DEF LimitInv, PeersType
    <2>4. Closed(d, {}) = Open \ Open' /\ Closes(Dropped(d, {}))
      BY <2>1, <2>3, ClosedLinks, Zenon
    <2>5. meter' = MeterLeft
      BY <2>1, <2>4, Zenon DEF MeterLeft
    <2> QED BY <2>1, <2>2, <2>3, <2>4, <2>5, LimitDrop, Zenon
  <1>4. ASSUME NEW d \in Device,
               \/ \E r \in Rv : rv_join(d, r) \/ rv_msg(d, r)
               \/ rv_joined(d) \/ PairNews(d) \/ Lose(d)
        PROVE  UNCHANGED <<now, serving, peers, buckets, pending, meter>>
    BY <1>4, Zenon DEF rv_join, rv_msg, rv_joined, PairNews, Lose, connVars
  <1>5. ASSUME NEW q \in Pair, AddPair(q) \/ RemovePair(q)
        PROVE  UNCHANGED <<now, serving, peers, buckets, pending, meter>>
    BY <1>5, Zenon DEF AddPair, RemovePair, connVars
  <1>6. Statistics \/ UNCHANGED vars => UNCHANGED <<now, serving, peers, buckets, pending, meter>>
    BY Zenon DEF Statistics, vars, connVars
  <1>7. ASSUME NEW d \in Device, FromDevice(d)
        PROVE  LimitInv' /\ [Limit!Next]_<<Open, meter>>
    <2>1. CASE \E t \in Device \ {d}, n \in FrameLen : Frame(d, t, n)
      BY <1>1, <2>1
    <2> QED BY <1>4, <1>7, <2>1, LimitSame, Zenon DEF FromDevice
  <1>8. ASSUME NEW d \in Device,
               FromDevice(d) \/ Release(d) \/ rv_joined(d) \/ on_delivery(d)
                 \/ Connect(d) \/ Disconnect(d) \/ PairNews(d) \/ Lose(d)
        PROVE  LimitInv' /\ [Limit!Next]_<<Open, meter>>
    BY <1>2, <1>3, <1>4, <1>7, <1>8, LimitRelease, LimitConnect, LimitSame, Zenon
  <1> QED BY <1>5, <1>6, <1>8, LimitTick, LimitSame, Zenon DEF Next

\* The connections implement the limit of Throttle: from the moment a link
\* opens until its sender disconnects or finds the pair gone, no more than a
\* second's worth and one frame passes on it beyond what leaks, however often
\* the pairs are reloaded (TokenBucket in bandwidth.rs, forward, the deadline
\* arm of serve, and retain in reload_peers).
THEOREM BandwidthLimited == Spec => Throttled
  <1>1. Init => Limit!Init
    <2> SUFFICES ASSUME Init PROVE Limit!Init
      OBVIOUS
    <2>1. peers = [d \in Device |-> {}] /\ meter = [l \in Link |-> 0]
      BY Zenon DEF Init
    <2>2. Open = {}
      BY <2>1, LinkEnds DEF Open
    <2> QED BY <2>1, <2>2, Zenon DEF Limit!Init
  <1> QED BY <1>1, LimitInit, LimitStep, PTL DEF Spec, Throttled, Limit!Spec

\* No device is held back for longer than its last frame takes (serve).
THEOREM WaitsBounded == Spec => []WaitBounded
  <1>1. LimitInv => WaitBounded
    <2> SUFFICES ASSUME LimitInv PROVE WaitBounded
      OBVIOUS
    <2>1. \A d \in Device : pending[d] # None => pending[d].deadline - now <= MaxFrame
      BY DEF LimitInv
    <2>2. ASSUME NEW d \in Device, pending[d] = None, NEW l \in Link, l[1] = d, buckets[l] # None
          PROVE  Tokens(buckets[l]) >= 0
      BY <2>2 DEF LimitInv, LinkInv, HeldOn
    <2> QED BY <2>1, <2>2, Zenon DEF WaitBounded
  <1> QED BY <1>1, LimitInit, LimitStep, PTL DEF Spec

-----------------------------------------------------------------------------
(* The statistics.                                                         *)

LEMMA PublishCounts ==
  ASSUME NEW l \in Link, NEW n \in Fits, publish_forward(l, n)
  PROVE  [UsageNext]_usageVars
  <1>1. l[1] \in Device /\ n \in Amount
    BY LinkEnds, Limits
  <1>2. Home[l[1]] \in Instance
    BY <1>1, InboundConstants
  <1>3. CASE Count(Home[l[1]], l[1], n)
    BY <1>1, <1>2, <1>3, Zenon DEF UsageNext
  <1>4. CASE UNCHANGED usageVars
    BY <1>4
  <1> QED BY <1>3, <1>4, Zenon DEF publish_forward

\* Every step counts a frame that was delivered, is a step of the statistics
\* or leaves them alone.
LEMMA StepCounts == LimitInv /\ [Next]_vars => [UsageNext]_usageVars
  <1> SUFFICES ASSUME LimitInv, [Next]_vars PROVE [UsageNext]_usageVars
    OBVIOUS
  <1>1. ASSUME NEW d \in Device, NEW t \in Device \ {d}, NEW n \in FrameLen, Frame(d, t, n)
        PROVE  [UsageNext]_usageVars
    <2>1. CASE n <= MaxFrame /\ publish_forward(<<d, t>>, n)
      <3>1. n \in Fits /\ <<d, t>> \in Link
        BY <2>1, LinkOf DEF Fits
      <3> QED BY <2>1, <3>1, PublishCounts
    <2>2. CASE UNCHANGED usageVars
      BY <2>2
    <2> QED BY <1>1, <2>1, <2>2, Zenon DEF Frame, forward
  <1>2. ASSUME NEW d \in Device, Release(d) PROVE [UsageNext]_usageVars
    <2>1. pending[d] \in HeldFrame /\ pending[d].bytes \in Fits /\ pending[d].to # d
      BY <1>2 DEF LimitInv, LimitType, Release
    <2>2. <<d, pending[d].to>> \in Link
      BY <2>1, LinkOf DEF HeldFrame
    <2>3. publish_forward(<<d, pending[d].to>>, pending[d].bytes)
      BY <1>2, Zenon DEF Release
    <2>4. PICK l \in Link, n \in Fits : publish_forward(l, n)
      BY <2>1, <2>2, <2>3, Zenon
    <2> QED BY <2>4, PublishCounts
  <1>3. ASSUME NEW d \in Device,
               \/ \E r \in Rv : rv_join(d, r) \/ rv_msg(d, r)
               \/ rv_joined(d) \/ on_delivery(d) \/ Connect(d) \/ Disconnect(d)
               \/ PairNews(d) \/ Lose(d)
        PROVE  UNCHANGED usageVars
    BY <1>3, Zenon DEF rv_join, rv_msg, rv_joined, on_delivery, Connect, Disconnect,
                       PairNews, Lose
  <1>4. ASSUME NEW q \in Pair, AddPair(q) \/ RemovePair(q) PROVE UNCHANGED usageVars
    BY <1>4, Zenon DEF AddPair, RemovePair
  <1>5. Tick \/ UNCHANGED vars => UNCHANGED usageVars
    BY Zenon DEF Tick, vars
  <1>6. Statistics => UsageNext
    BY Zenon DEF Statistics
  <1>7. ASSUME NEW d \in Device,
               FromDevice(d) \/ Release(d) \/ rv_joined(d) \/ on_delivery(d)
                 \/ Connect(d) \/ Disconnect(d) \/ PairNews(d) \/ Lose(d)
        PROVE  [UsageNext]_usageVars
    BY <1>1, <1>2, <1>3, <1>7, Zenon DEF FromDevice
  <1> QED BY <1>4, <1>5, <1>6, <1>7, Zenon DEF Next

\* The connections count the way Usage describes: a frame that was delivered,
\* for its sender and in the instance that serves it (publish_forward).
THEOREM InboundCounts == Spec => UsageSpec
  <1>1. Init => UsageInit
    BY Zenon DEF Init
  <1> QED BY <1>1, LimitInit, LimitStep, StepCounts, PTL DEF Spec, UsageSpec

-----------------------------------------------------------------------------
(* The pair check.                                                         *)

\* A reload that worked knew every pair that was valid before it.
MissInv ==
    /\ now \in Nat
    /\ pairs \subseteq Pair
    /\ since \in [Pair -> Nat]
    /\ peers \in [Device -> SUBSET Device]
    /\ lastMiss \in [Device -> Miss \union {None}]
    /\ \A d \in Device : lastMiss[d] # None => lastMiss[d].at <= now
    /\ \A d, t \in Device :
         (lastMiss[d] # None /\ lastMiss[d].ok /\ {d, t} \in pairs
            /\ since[{d, t}] < lastMiss[d].at) => t \in peers[d]

LEMMA MissInit == Init => MissInv
  <1> SUFFICES ASSUME Init PROVE MissInv
    OBVIOUS
  <1>1. /\ now = 0 /\ pairs \in SUBSET Pair /\ since = [q \in Pair |-> 0]
        /\ peers = [d \in Device |-> {}] /\ lastMiss = [d \in Device |-> None]
    BY Zenon DEF Init
  <1> QED BY <1>1 DEF MissInv

\* What a reload, or none, does to the cache and to the last miss.
Asked(d, P, m) ==
    \/ P = ActivePeers(d) /\ m \in {lastMiss[d], [at |-> now, ok |-> TRUE]}
    \/ P = peers[d] /\ m \in {lastMiss[d], [at |-> now, ok |-> FALSE]}

LEMMA ReloadAsks ==
  ASSUME NEW d \in Device, NEW o \in ReloadOutcomes(d)
  PROVE  \/ o[1].peers = ActivePeers(d) /\ o[2] = TRUE
         \/ o[1].peers = peers[d] /\ o[2] = FALSE
  <1>1. o \in {<<Reloaded(d), TRUE>>, <<NotReloaded(d), FALSE>>}
    BY Zenon DEF ReloadOutcomes
  <1>2. CASE o = <<Reloaded(d), TRUE>>
    BY <1>2 DEF Reloaded
  <1>3. CASE o = <<NotReloaded(d), FALSE>>
    BY <1>3 DEF NotReloaded
  <1> QED BY <1>1, <1>2, <1>3, Zenon

LEMMA CheckAsks ==
  ASSUME NEW d \in Device, NEW t, NEW o \in is_peer(d, t)
  PROVE  /\ Asked(d, o[1].peers, o[2])
         /\ \/ t \in o[1].peers
            \/ o[1].peers = ActivePeers(d)
            \/ o[2] = [at |-> now, ok |-> FALSE]
            \/ TooSoon(d) /\ o[1].peers = peers[d] /\ o[2] = lastMiss[d]
  <1>1. CASE t \in peers[d] \/ TooSoon(d)
    <2>1. o = <<NotReloaded(d), lastMiss[d]>>
      BY <1>1 DEF is_peer
    <2>2. o[1].peers = peers[d] /\ o[2] = lastMiss[d]
      BY <2>1 DEF NotReloaded
    <2> QED BY <1>1, <2>2 DEF Asked
  <1>2. CASE ~(t \in peers[d] \/ TooSoon(d))
    <2>1. PICK x \in ReloadOutcomes(d) : o = <<x[1], [at |-> now, ok |-> x[2]]>>
      BY <1>2 DEF is_peer
    <2>2. o[1] = x[1] /\ o[2] = [at |-> now, ok |-> x[2]]
      BY <2>1
    <2>3. \/ x[1].peers = ActivePeers(d) /\ x[2] = TRUE
          \/ x[1].peers = peers[d] /\ x[2] = FALSE
      BY ReloadAsks, Zenon
    <2>4. CASE x[1].peers = ActivePeers(d) /\ x[2] = TRUE
      BY <2>2, <2>4, Zenon DEF Asked
    <2>5. CASE x[1].peers = peers[d] /\ x[2] = FALSE
      BY <2>2, <2>5, Zenon DEF Asked
    <2> QED BY <2>3, <2>4, <2>5, Zenon
  <1> QED BY <1>1, <1>2

LEMMA MissAsked ==
  ASSUME MissInv, NEW d \in Device, NEW P, NEW m, Asked(d, P, m),
         UNCHANGED <<now, pairs, since>>,
         peers' = [peers EXCEPT ![d] = P], lastMiss' = [lastMiss EXCEPT ![d] = m]
  PROVE  MissInv'
  <1>1. /\ now \in Nat /\ pairs \subseteq Pair /\ since \in [Pair -> Nat]
        /\ peers \in [Device -> SUBSET Device]
        /\ lastMiss \in [Device -> Miss \union {None}]
    BY DEF MissInv
  <1>2. P \in SUBSET Device /\ m \in Miss \union {None}
    <2>1. ActivePeers(d) \in SUBSET Device /\ peers[d] \in SUBSET Device
      BY <1>1 DEF ActivePeers
    <2>2. \A x \in BOOLEAN : [at |-> now, ok |-> x] \in Miss
      BY <1>1 DEF Miss
    <2>3. lastMiss[d] \in Miss \union {None}
      BY <1>1
    <2> QED BY <2>1, <2>2, <2>3, Zenon DEF Asked
  <1>3. /\ peers' \in [Device -> SUBSET Device] /\ peers'[d] = P
        /\ lastMiss' \in [Device -> Miss \union {None}] /\ lastMiss'[d] = m
        /\ \A e \in Device \ {d} : peers'[e] = peers[e] /\ lastMiss'[e] = lastMiss[e]
    BY <1>1, <1>2
  <1>4. m # None => m.at <= now
    <2>1. lastMiss[d] # None => lastMiss[d].at <= now
      BY DEF MissInv
    <2> QED BY <1>1, <2>1 DEF Asked
  <1>5. \A e \in Device : lastMiss'[e] # None => lastMiss'[e].at <= now'
    BY <1>3, <1>4 DEF MissInv
  <1>6. ASSUME NEW t \in Device, m # None, m.ok, {d, t} \in pairs, since[{d, t}] < m.at
        PROVE  t \in P
    <2>1. CASE P = ActivePeers(d)
      BY <1>6, <2>1 DEF ActivePeers
    <2>2. CASE P = peers[d] /\ m = lastMiss[d]
      BY <1>6, <2>2 DEF MissInv
    <2>3. m # [at |-> now, ok |-> FALSE]
      BY <1>6
    <2> QED BY <2>1, <2>2, <2>3 DEF Asked
  <1>7. ASSUME NEW e \in Device, NEW t \in Device, lastMiss'[e] # None, lastMiss'[e].ok,
               {e, t} \in pairs', since'[{e, t}] < lastMiss'[e].at
        PROVE  t \in peers'[e]
    <2>1. CASE e = d
      BY <1>3, <1>6, <1>7, <2>1
    <2>2. CASE e # d
      BY <1>3, <1>7, <2>2 DEF MissInv
    <2> QED BY <2>1, <2>2
  <1> QED BY <1>1, <1>3, <1>5, <1>7, Zenon DEF MissInv

LEMMA MissSame ==
  ASSUME MissInv, UNCHANGED <<now, pairs, since, peers, lastMiss>>
  PROVE  MissInv'
  BY Zenon DEF MissInv

LEMMA MissForward ==
  ASSUME MissInv, NEW d \in Device, NEW t, NEW n, forward(d, t, n),
         UNCHANGED <<now, pairs, since>>
  PROVE  MissInv'
  <1>1. PICK o \in is_peer(d, t) : /\ peers' = [peers EXCEPT ![d] = o[1].peers]
                                   /\ lastMiss' = [lastMiss EXCEPT ![d] = o[2]]
    BY Zenon DEF forward
  <1>2. Asked(d, o[1].peers, o[2])
    BY CheckAsks, Zenon
  <1> QED BY <1>1, <1>2, MissAsked, Zenon

LEMMA MissDelivery ==
  ASSUME MissInv, NEW d \in Device, on_delivery(d)
  PROVE  MissInv'
  <1>1. UNCHANGED <<now, pairs, since>>
    BY Zenon DEF on_delivery
  <1>2. CASE UNCHANGED <<peers, lastMiss>>
    BY <1>1, <1>2, MissSame, Zenon
  <1> DEFINE m == Head(inbox[d])
             S == IF m.type = "frame" THEN is_peer(d, m.from)
                    ELSE {<<x[1], lastMiss[d]>> : x \in ReloadOutcomes(d)}
  <1>3. CASE \E o \in S : /\ peers' = [peers EXCEPT ![d] = o[1].peers]
                         /\ lastMiss' = [lastMiss EXCEPT ![d] = o[2]]
    <2>1. PICK o \in S : /\ peers' = [peers EXCEPT ![d] = o[1].peers]
                        /\ lastMiss' = [lastMiss EXCEPT ![d] = o[2]]
      BY <1>3, Zenon
    <2>2. Asked(d, o[1].peers, o[2])
      <3>1. CASE o \in is_peer(d, m.from)
        BY <3>1, CheckAsks, Zenon
      <3>2. CASE \E x \in ReloadOutcomes(d) : o = <<x[1], lastMiss[d]>>
        <4>1. PICK x \in ReloadOutcomes(d) : o = <<x[1], lastMiss[d]>>
          BY <3>2
        <4>2. o[1] = x[1] /\ o[2] = lastMiss[d]
          BY <4>1
        <4>3. x[1].peers \in {ActivePeers(d), peers[d]}
          BY ReloadAsks, Zenon
        <4> QED BY <4>2, <4>3, Zenon DEF Asked
      <3> QED BY <2>1, <3>1, <3>2, Zenon
    <2> QED BY <1>1, <2>1, <2>2, MissAsked, Zenon
  <1> QED BY <1>2, <1>3, Zenon DEF on_delivery

LEMMA MissStep == MissInv /\ [Next]_vars => MissInv'
  <1> SUFFICES ASSUME MissInv, [Next]_vars PROVE MissInv'
    OBVIOUS
  <1>1. ASSUME NEW d \in Device, NEW t \in Device \ {d}, NEW n \in FrameLen, Frame(d, t, n)
        PROVE  MissInv'
    <2>1. UNCHANGED <<now, pairs, since>>
      BY <1>1, Zenon DEF Frame
    <2>2. CASE forward(d, t, n)
      BY <2>1, <2>2, MissForward, Zenon
    <2>3. CASE UNCHANGED <<peers, lastMiss>>
      BY <2>1, <2>3, MissSame, Zenon
    <2> QED BY <1>1, <2>2, <2>3, Zenon DEF Frame
  <1>2. ASSUME NEW d \in Device,
               \/ \E r \in Rv : rv_join(d, r) \/ rv_msg(d, r)
               \/ Release(d) \/ rv_joined(d) \/ PairNews(d) \/ Lose(d)
        PROVE  UNCHANGED <<now, pairs, since, peers, lastMiss>>
    BY <1>2, Zenon DEF rv_join, rv_msg, Release, rv_joined, PairNews, Lose, connVars
  <1>3. ASSUME NEW d \in Device, Connect(d) PROVE MissInv'
    <2>1. /\ peers' = [peers EXCEPT ![d] = ActivePeers(d)]
          /\ UNCHANGED <<now, pairs, since, lastMiss>>
      BY <1>3, Zenon DEF Connect
    <2>2. lastMiss' = [lastMiss EXCEPT ![d] = lastMiss[d]]
      BY <2>1 DEF MissInv
    <2>3. Asked(d, ActivePeers(d), lastMiss[d])
      BY Zenon DEF Asked
    <2> QED BY <2>1, <2>2, <2>3, MissAsked, Zenon
  <1>4. ASSUME NEW d \in Device, Disconnect(d) PROVE MissInv'
    <2>1. /\ peers' = [peers EXCEPT ![d] = {}] /\ lastMiss' = [lastMiss EXCEPT ![d] = None]
          /\ UNCHANGED <<now, pairs, since>>
      BY <1>4, Zenon DEF Disconnect
    <2> QED BY <2>1 DEF MissInv
  <1>5. ASSUME NEW q \in Pair, AddPair(q) PROVE MissInv'
    <2>1. /\ pairs' = pairs \union {q} /\ since' = [since EXCEPT ![q] = now]
          /\ UNCHANGED <<now, peers, lastMiss>>
      BY <1>5, Zenon DEF AddPair, connVars
    <2>2. now \in Nat /\ pairs \subseteq Pair /\ since \in [Pair -> Nat]
      BY DEF MissInv
    <2>3. pairs' \subseteq Pair /\ since' \in [Pair -> Nat]
      BY <2>1, <2>2
    <2>4. ASSUME NEW d \in Device, NEW t \in Device, lastMiss[d] # None, lastMiss[d].ok,
                 {d, t} \in pairs', since'[{d, t}] < lastMiss[d].at
          PROVE  t \in peers[d]
      <3>1. lastMiss[d] \in Miss /\ lastMiss[d].at <= now
        BY <2>4 DEF MissInv
      <3>2. {d, t} # q
        <4>1. lastMiss[d].at \in Nat
          BY <3>1 DEF Miss
        <4> QED BY <2>1, <2>2, <2>4, <3>1, <4>1
      <3>3. {d, t} \in pairs /\ since'[{d, t}] = since[{d, t}]
        BY <2>1, <2>2, <2>4, <3>2
      <3> QED BY <2>4, <3>3, Zenon DEF MissInv
    <2> QED BY <2>1, <2>3, <2>4, Zenon DEF MissInv
  <1>6. ASSUME NEW q \in Pair, RemovePair(q) PROVE MissInv'
    <2>1. pairs' = pairs \ {q} /\ UNCHANGED <<now, since, peers, lastMiss>>
      BY <1>6, Zenon DEF RemovePair, connVars
    <2> QED BY <2>1 DEF MissInv
  <1>7. ASSUME Tick PROVE MissInv'
    <2>1. now' = now + 1 /\ UNCHANGED <<pairs, since, peers, lastMiss>>
      BY <1>7, Zenon DEF Tick, connVars
    <2>2. now' \in Nat /\ \A d \in Device : lastMiss[d] # None => lastMiss[d].at <= now'
      <3>1. now \in Nat /\ lastMiss \in [Device -> Miss \union {None}]
        BY DEF MissInv
      <3>2. ASSUME NEW d \in Device, lastMiss[d] # None PROVE lastMiss[d].at <= now'
        <4>1. lastMiss[d].at \in Nat /\ lastMiss[d].at <= now
          BY <3>1, <3>2 DEF MissInv, Miss
        <4> QED BY <2>1, <3>1, <4>1
      <3> QED BY <2>1, <3>1, <3>2
    <2> QED BY <2>1, <2>2, Zenon DEF MissInv
  <1>8. Statistics \/ UNCHANGED vars => UNCHANGED <<now, pairs, since, peers, lastMiss>>
    BY Zenon DEF Statistics, vars, connVars
  <1>9. ASSUME NEW d \in Device,
               FromDevice(d) \/ Release(d) \/ rv_joined(d) \/ on_delivery(d)
                 \/ Connect(d) \/ Disconnect(d) \/ PairNews(d) \/ Lose(d)
        PROVE  MissInv'
    BY <1>1, <1>2, <1>3, <1>4, <1>9, MissDelivery, MissSame, Zenon DEF FromDevice
  <1> QED BY <1>5, <1>6, <1>7, <1>8, <1>9, MissSame, Zenon DEF Next

\* The step that refuses: the cache was reloaded less than a second ago, and
\* that reload did not know the pair.
LEMMA RefusedIsFresh ==
  ASSUME MissInv, NEW d \in Device, NEW t \in Device, NEW o \in is_peer(d, t),
         peers' = [peers EXCEPT ![d] = o[1].peers],
         lastMiss' = [lastMiss EXCEPT ![d] = o[2]],
         t \notin peers'[d], {d, t} \in pairs
  PROVE  now - since[{d, t}] < PairBandwidth \/ ~lastMiss'[d].ok
  <1>1. /\ now \in Nat /\ pairs \subseteq Pair /\ since \in [Pair -> Nat]
        /\ peers \in [Device -> SUBSET Device]
        /\ lastMiss \in [Device -> Miss \union {None}]
    BY DEF MissInv
  <1>2. t \notin o[1].peers /\ lastMiss'[d] = o[2]
    BY <1>1
  <1>3. t \in ActivePeers(d)
    BY DEF ActivePeers
  <1>4. \/ o[2] = [at |-> now, ok |-> FALSE]
        \/ TooSoon(d) /\ o[1].peers = peers[d] /\ o[2] = lastMiss[d]
    BY <1>2, <1>3, CheckAsks, Zenon
  <1>5. CASE o[2] = [at |-> now, ok |-> FALSE]
    BY <1>2, <1>5
  <1>6. CASE TooSoon(d) /\ o[1].peers = peers[d] /\ o[2] = lastMiss[d] /\ lastMiss[d].ok
    <2>1. lastMiss[d] # None /\ now - lastMiss[d].at < PairBandwidth
      BY <1>6 DEF TooSoon
    <2>2. lastMiss[d].at \in Nat /\ since[{d, t}] \in Nat
      BY <1>1, <2>1 DEF Miss
    <2>3. ~(since[{d, t}] < lastMiss[d].at)
      BY <1>2, <1>6, <2>1 DEF MissInv
    <2> QED BY <1>1, <2>1, <2>2, <2>3, Limits
  <1> QED BY <1>2, <1>4, <1>5, <1>6, Zenon

\* A frame between paired devices is refused only in the second after the
\* registration, or while the database cannot be asked (is_peer).
THEOREM RefusalsAreFresh == Spec => RefusalIsFresh
  <1> DEFINE Fresh == \A d, t \in Device :
                 (Reaches(d, t) /\ t \notin peers'[d] /\ {d, t} \in pairs)
                   => now - since[{d, t}] < PairBandwidth \/ ~lastMiss'[d].ok
  <1>1. MissInv => Fresh
    <2> SUFFICES ASSUME MissInv, NEW d \in Device, NEW t \in Device, Reaches(d, t),
                        t \notin peers'[d], {d, t} \in pairs
                 PROVE  now - since[{d, t}] < PairBandwidth \/ ~lastMiss'[d].ok
      BY Zenon
    <2>1. CASE \E n \in FrameLen : n <= MaxFrame /\ Frame(d, t, n)
      <3>1. PICK n \in FrameLen : n <= MaxFrame /\ Frame(d, t, n)
        BY <2>1
      <3>2. n \in Nat
        BY InboundConstants
      <3>3. ~(n > MaxFrame)
        BY <3>1, <3>2, Limits
      <3>4. forward(d, t, n)
        BY <3>1, <3>3, Zenon DEF Frame
      <3>5. PICK o \in is_peer(d, t) : /\ peers' = [peers EXCEPT ![d] = o[1].peers]
                                       /\ lastMiss' = [lastMiss EXCEPT ![d] = o[2]]
        BY <3>4, Zenon DEF forward
      <3> QED BY <3>5, RefusedIsFresh, Zenon
    <2>2. CASE on_delivery(d) /\ Head(inbox[d]).type = "frame" /\ Head(inbox[d]).from = t
      <3>1. PICK o \in is_peer(d, t) : /\ peers' = [peers EXCEPT ![d] = o[1].peers]
                                       /\ lastMiss' = [lastMiss EXCEPT ![d] = o[2]]
        BY <2>2, Zenon DEF on_delivery
      <3> QED BY <3>1, RefusedIsFresh, Zenon
    <2> QED BY <2>1, <2>2, Zenon DEF Reaches
  <1>2. MissInv => [Fresh]_vars
    BY <1>1
  <1> QED BY <1>2, MissInit, MissStep, PTL DEF Spec, RefusalIsFresh
=============================================================================
