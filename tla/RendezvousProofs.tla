---- MODULE RendezvousProofs ----
(***************************************************************************)
(* Proofs about the rendezvous of Inbound, and about the shape of its      *)
(* state.                                                                  *)
(*                                                                         *)
(* BothKnow is not inductive: that a member which was told that it is      *)
(* alone will hear of the other rests on what the other's rv_join is about *)
(* to do, and on the answers that are still to come.  KnowInv says so for  *)
(* every member of a set that is not alone, also for the one whose answer  *)
(* will say that it is.                                                    *)
(***************************************************************************)
EXTENDS Inbound, FiniteSetTheorems, TLAPS

USE SMTT(60)

-----------------------------------------------------------------------------
(* The rendezvous.                                                         *)

\* The state the rendezvous use.  A device without a connection has no mail,
\* no rv_join in progress and has been told nothing.
RvType ==
    /\ now \in Nat
    /\ serving \subseteq Device
    /\ inbox \in [Device -> Seq(Message)]
    /\ joining \in [Device -> RvJoin \union {None}]
    /\ rv \in [Rv -> [members : SUBSET Device, expires : Nat]]
    /\ \A r \in Rv : IsFiniteSet(rv[r].members) /\ Cardinality(rv[r].members) <= 2
    /\ told \in [Rv -> [Device -> BOOLEAN \union {None}]]
    /\ unheard \subseteq Rv \X Device
    /\ \A d \in Device \ serving :
         inbox[d] = <<>> /\ joining[d] = None /\ \A r \in Rv : told[r][d] = None

\* Somebody has told d, is about to, or could not.
Coming(r, d) ==
    \/ InMail(r, d)
    \/ <<r, d>> \in unheard
    \/ \E e \in serving \ {d} :
         joining[e] # None /\ joining[e].rv = r /\ d \in joining[e].tell

Joins(r, d) == joining[d] # None /\ joining[d].rv = r

\* A member that is not alone knows it or will; one whose answer will say that
\* it is alone is going to hear the contrary as well.
Known(r, d) ==
    (d \in Members(r) \intersect serving /\ Members(r) \ {d} # {}) =>
      /\ told[r][d] \in {None, TRUE} \/ Coming(r, d) \/ Joins(r, d)
      /\ (Joins(r, d) /\ ~joining[d].present) => Coming(r, d)

KnowInv == RvType /\ \A r \in Rv, d \in Device : Known(r, d)

LEMMA KnowInit == Init => KnowInv
  <1> SUFFICES ASSUME Init PROVE KnowInv
    OBVIOUS
  <1>1. /\ now = 0 /\ serving = {} /\ inbox = [d \in Device |-> <<>>]
        /\ joining = [d \in Device |-> None] /\ rv = [r \in Rv |-> EmptyRv]
        /\ told = [r \in Rv |-> [d \in Device |-> None]] /\ unheard = {}
    BY Zenon DEF Init
  <1>2. \A r \in Rv : IsFiniteSet(rv[r].members) /\ Cardinality(rv[r].members) <= 2
    BY <1>1, FS_EmptySet DEF EmptyRv
  <1>3. inbox \in [Device -> Seq(Message)]
    <2>1. <<>> \in Seq(Message)
      OBVIOUS
    <2> QED BY <1>1, <2>1, Zenon
  <1>4. rv \in [Rv -> [members : SUBSET Device, expires : Nat]]
    BY <1>1 DEF EmptyRv
  <1>5. RvType
    BY <1>1, <1>2, <1>3, <1>4 DEF RvType
  <1>6. \A r \in Rv, d \in Device : Known(r, d)
    BY <1>1, Zenon DEF Known
  <1> QED BY <1>5, <1>6 DEF KnowInv

\* A mailbox gets a message, or none.
Gets(s, t) == t = s \/ \E m \in Message : t = Append(s, m)

LEMMA GetsKeeps ==
  ASSUME NEW s \in Seq(Message), NEW t, Gets(s, t)
  PROVE  /\ t \in Seq(Message)
         /\ \A k \in 1..Len(s) : k \in 1..Len(t) /\ t[k] = s[k]
  BY DEF Gets

LEMMA PostedGets ==
  ASSUME RvType, NEW t \in Device, NEW m \in Message
  PROVE  /\ Posted(t, m) \in [Device -> Seq(Message)]
         /\ \A d \in Device : Gets(inbox[d], Posted(t, m)[d])
         /\ \A d \in Device \ serving : Posted(t, m)[d] = inbox[d]
         /\ t \in serving => Posted(t, m)[t] = Append(inbox[t], m)
  <1>1. inbox \in [Device -> Seq(Message)]
    BY DEF RvType
  <1> DEFINE new == IF t \in serving THEN Append(inbox[t], m) ELSE inbox[t]
             P == Posted(t, m)
  <1>2. new \in Seq(Message) /\ Gets(inbox[t], new)
    BY <1>1, GetsKeeps DEF Gets
  <1>3. P = [inbox EXCEPT ![t] = new]
    BY Zenon DEF Posted
  <1>4. t \in serving => new = Append(inbox[t], m)
    OBVIOUS
  <1>5. t \notin serving => new = inbox[t]
    OBVIOUS
  <1> HIDE DEF new, P
  <1>6. /\ P \in [Device -> Seq(Message)] /\ P[t] = new
        /\ \A d \in Device \ {t} : P[d] = inbox[d]
    BY <1>1, <1>2, <1>3
  <1>7. ASSUME NEW d \in Device PROVE Gets(inbox[d], P[d]) /\ (d \notin serving => P[d] = inbox[d])
    <2>1. CASE d = t
      BY <1>2, <1>5, <1>6, <2>1, Zenon
    <2>2. CASE d # t
      BY <1>6, <2>2, Zenon DEF Gets
    <2> QED BY <2>1, <2>2
  <1> QED BY <1>4, <1>6, <1>7, Zenon DEF P

LEMMA InMailKept ==
  ASSUME RvType, NEW r, NEW d \in Device, Gets(inbox[d], inbox'[d]), InMail(r, d)
  PROVE  InMail(r, d)'
  <1>1. inbox[d] \in Seq(Message)
    BY DEF RvType
  <1>2. PICK k \in 1..Len(inbox[d]) : inbox[d][k] = [type |-> "rv_joined", rv |-> r]
    BY DEF InMail
  <1>3. k \in 1..Len(inbox'[d]) /\ inbox'[d][k] = inbox[d][k]
    BY <1>1, GetsKeeps
  <1> QED BY <1>2, <1>3, Zenon DEF InMail

\* Messages for anybody that leave the rendezvous alone.
LEMMA MailKnow ==
  ASSUME KnowInv, inbox' \in [Device -> Seq(Message)],
         \A d \in Device : Gets(inbox[d], inbox'[d]),
         \A d \in Device \ serving : inbox'[d] = inbox[d],
         UNCHANGED <<now, serving, rvVars>>
  PROVE  KnowInv'
  <1>1. UNCHANGED <<now, serving, rv, joining, told, unheard>>
    BY DEF rvVars
  <1>2. RvType
    BY DEF KnowInv
  <1>3. RvType'
    BY <1>1, <1>2, Zenon DEF RvType
  <1>4. ASSUME NEW r \in Rv, NEW d \in Device PROVE Known(r, d)'
    <2>1. Coming(r, d) => Coming(r, d)'
      BY <1>1, <1>2, InMailKept, Zenon DEF Coming
    <2>2. Members(r)' = Members(r) /\ Joins(r, d)' = Joins(r, d)
      BY <1>1 DEF Members, Joins
    <2>3. Known(r, d)
      BY DEF KnowInv
    <2> QED BY <1>1, <2>1, <2>2, <2>3, Zenon DEF Known
  <1> QED BY <1>3, <1>4, Zenon DEF KnowInv

LEMMA PostKnow ==
  ASSUME KnowInv, NEW t \in Device, NEW m \in Message, inbox' = Posted(t, m),
         UNCHANGED <<now, serving, rvVars>>
  PROVE  KnowInv'
  BY PostedGets, MailKnow DEF KnowInv

LEMMA SameKnow ==
  ASSUME KnowInv, UNCHANGED <<now, serving, inbox, rvVars>>
  PROVE  KnowInv'
  <1>1. inbox \in [Device -> Seq(Message)]
    BY DEF KnowInv, RvType
  <1> QED BY <1>1, MailKnow, Zenon DEF Gets

\* What JOIN_SCRIPT does to the members.
LEMMA JoinedMembers ==
  ASSUME RvType, NEW r \in Rv, NEW e \in Device, Admits(r, e),
         now' = now, rv' = [rv EXCEPT ![r] = Joined(r, e)]
  PROVE  /\ rv' \in [Rv -> [members : SUBSET Device, expires : Nat]]
         /\ \A q \in Rv : IsFiniteSet(rv'[q].members) /\ Cardinality(rv'[q].members) <= 2
         /\ \A q \in Rv \ {r} : Members(q)' = Members(q)
         /\ Members(r)' \subseteq Members(r) \union {e}
  <1>1. /\ rv \in [Rv -> [members : SUBSET Device, expires : Nat]]
        /\ \A q \in Rv : IsFiniteSet(rv[q].members) /\ Cardinality(rv[q].members) <= 2
        /\ now \in Nat
    BY DEF RvType
  <1> DEFINE M == Members(r)
  <1>2. M \in SUBSET Device /\ IsFiniteSet(M)
    BY <1>1, FS_EmptySet DEF Members
  <1>2a. Cardinality(M) \in Nat /\ Cardinality(M) <= 2
    <2>1. CASE M = {}
      BY <2>1, FS_EmptySet
    <2>2. CASE M = rv[r].members
      BY <1>1, <1>2, <2>2, FS_CardinalityType
    <2> QED BY <2>1, <2>2 DEF Members
  <1>3. e \in M \/ Cardinality(M) < 2
    BY DEF Admits
  <1>4. Joined(r, e).members = M \union {e} /\ Joined(r, e).expires \in Nat
    <2>1. RvTtl \in Nat
      BY InboundConstants, Zenon
    <2> QED BY <1>1, <2>1 DEF Joined
  <1> HIDE DEF M
  <1>5. IsFiniteSet(M \union {e}) /\ Cardinality(M \union {e}) <= 2
    <2>1. /\ IsFiniteSet(M \union {e})
          /\ Cardinality(M \union {e}) = IF e \in M THEN Cardinality(M) ELSE Cardinality(M) + 1
      BY <1>2, FS_AddElement
    <2> QED BY <1>2a, <1>3, <2>1
  <1>6. Joined(r, e) \in [members : SUBSET Device, expires : Nat]
    BY <1>2, <1>4 DEF Joined
  <1>7. rv'[r] = Joined(r, e) /\ \A q \in Rv \ {r} : rv'[q] = rv[q]
    BY <1>1
  <1>8. rv' \in [Rv -> [members : SUBSET Device, expires : Nat]]
    BY <1>1, <1>6
  <1>9. \A q \in Rv : IsFiniteSet(rv'[q].members) /\ Cardinality(rv'[q].members) <= 2
    <2>1. ASSUME NEW q \in Rv PROVE IsFiniteSet(rv'[q].members) /\ Cardinality(rv'[q].members) <= 2
      <3>1. CASE q = r
        BY <1>4, <1>5, <1>7, <3>1, Zenon
      <3>2. CASE q # r
        BY <1>1, <1>7, <3>2, Zenon
      <3> QED BY <3>1, <3>2
    <2> QED BY <2>1
  <1>10. \A q \in Rv \ {r} : Members(q)' = Members(q)
    BY <1>7 DEF Members
  <1>11. Members(r)' \subseteq M \union {e}
    BY <1>4, <1>7, Zenon DEF Members
  <1> QED BY <1>8, <1>9, <1>10, <1>11, Zenon DEF M

\* rv_join up to the answer of the script.
LEMMA JoinKnow ==
  ASSUME KnowInv, NEW r \in Rv, NEW e \in Device, rv_join(e, r)
  PROVE  KnowInv'
  <1>1. /\ e \in serving /\ joining[e] = None
        /\ UNCHANGED <<now, serving, inbox, told>>
    BY Zenon DEF rv_join, Reading, Between, connVars
  <1>2. CASE UNCHANGED <<rv, joining, unheard>>
    BY <1>1, <1>2, SameKnow DEF rvVars
  <1> DEFINE j == [rv |-> r, present |-> Members(r) \ {e} # {}, tell |-> ToTell(r, e)]
  <1>3. /\ RvType /\ joining \in [Device -> RvJoin \union {None}] /\ serving \subseteq Device
        /\ unheard \subseteq Rv \X Device /\ \A q \in Rv : Members(q) \in SUBSET Device
    BY DEF KnowInv, RvType, Members
  <1>4. ToTell(r, e) \in SUBSET Device /\ e \notin ToTell(r, e)
    BY <1>3 DEF ToTell
  <1>5. j \in RvJoin /\ j # None
    <2>1. j \in RvJoin
      BY <1>4 DEF RvJoin
    <2> QED BY <2>1, InboundConstants, Zenon
  <1>6. OfThisSet(r) \subseteq unheard /\ \A q \in Rv, d \in Device :
           (<<q, d>> \in unheard /\ (q # r \/ Members(r) # {})) => <<q, d>> \in OfThisSet(r)
    BY DEF OfThisSet
  <1>7. ASSUME Admits(r, e), rv' = [rv EXCEPT ![r] = Joined(r, e)],
               \/ joining' = [joining EXCEPT ![e] = j] /\ unheard' = OfThisSet(r)
               \/ /\ joining' = joining
                  /\ unheard' = OfThisSet(r) \union ({r} \X (ToTell(r, e) \union {e}))
        PROVE  KnowInv'
    <2>1. /\ rv' \in [Rv -> [members : SUBSET Device, expires : Nat]]
          /\ \A q \in Rv : IsFiniteSet(rv'[q].members) /\ Cardinality(rv'[q].members) <= 2
          /\ \A q \in Rv \ {r} : Members(q)' = Members(q)
          /\ Members(r)' \subseteq Members(r) \union {e}
      BY <1>1, <1>3, <1>7, JoinedMembers, Zenon
    <2>2. j.rv = r /\ j.present = (Members(r) \ {e} # {}) /\ j.tell = ToTell(r, e)
      BY Zenon
    <2> HIDE DEF j
    <2>3. CASE joining' = [joining EXCEPT ![e] = j] /\ unheard' = OfThisSet(r)
      <3>1. /\ joining' \in [Device -> RvJoin \union {None}] /\ joining'[e] = j
            /\ \A d \in Device \ {e} : joining'[d] = joining[d]
        BY <1>3, <1>5, <2>3
      <3>2. RvType'
        BY <1>1, <1>3, <1>6, <2>1, <2>3, <3>1, Zenon DEF RvType
      <3>3. ASSUME NEW q \in Rv, NEW d \in Device, q # r \/ Members(r) # {}, Coming(q, d)
            PROVE  Coming(q, d)'
        BY <1>1, <1>3, <1>6, <2>3, <3>1, <3>3, Zenon DEF Coming, InMail
      <3>4. ASSUME NEW q \in Rv \ {r}, NEW d \in Device PROVE Known(q, d)'
        <4>1. Known(q, d) /\ Members(q)' = Members(q)
          BY <2>1, Zenon DEF KnowInv
        <4>2. (Joins(q, d) <=> Joins(q, d)') /\ (Joins(q, d) => joining'[d] = joining[d])
          BY <1>1, <2>2, <3>1, Zenon DEF Joins
        <4> QED BY <1>1, <3>3, <4>1, <4>2, Zenon DEF Known
      <3>5. ASSUME NEW d \in Device \ {e} PROVE Known(r, d)'
        <4> SUFFICES ASSUME d \in Members(r)', d \in serving
                     PROVE  /\ told[r][d] \in {None, TRUE} \/ Coming(r, d)' \/ Joins(r, d)'
                            /\ (Joins(r, d)' /\ ~joining'[d].present) => Coming(r, d)'
          BY <1>1, Zenon DEF Known
        <4>1. d \in Members(r)
          BY <2>1
        <4>2. CASE e \in Members(r)
          <5>1. Known(r, d) /\ Members(r) \ {d} # {}
            BY <4>2, <3>5 DEF KnowInv
          <5>2. joining'[d] = joining[d]
            BY <3>1
          <5> QED BY <3>3, <4>1, <5>1, <5>2, Zenon DEF Known, Joins
        <4>3. CASE e \notin Members(r)
          <5>1. d \in joining'[e].tell
            BY <2>2, <3>1, <4>1, <4>3 DEF ToTell
          <5>2. Coming(r, d)'
            BY <1>1, <1>5, <2>2, <3>1, <3>5, <5>1 DEF Coming
          <5> QED BY <5>2
        <4> QED BY <4>2, <4>3, Zenon
      <3>6. Known(r, e)'
        <4>1. Joins(r, e)'
          BY <1>5, <2>2, <3>1 DEF Joins
        <4>2. Members(r)' \ {e} # {} => joining'[e].present
          <5>1. Members(r)' \ {e} # {} => Members(r) \ {e} # {}
            BY <2>1
          <5> QED BY <2>2, <3>1, <5>1, Zenon
        <4> QED BY <4>1, <4>2, Zenon DEF Known
      <3> QED BY <3>2, <3>4, <3>5, <3>6, Zenon DEF KnowInv
    <2>4. CASE /\ joining' = joining
               /\ unheard' = OfThisSet(r) \union ({r} \X (ToTell(r, e) \union {e}))
      <3>1. /\ OfThisSet(r) \subseteq unheard' /\ unheard' \subseteq Rv \X Device
            /\ \A d \in ToTell(r, e) \union {e} : <<r, d>> \in unheard'
        BY <1>3, <1>4, <1>6, <2>4
      <3>2. RvType'
        BY <1>1, <1>3, <2>1, <2>4, <3>1, Zenon DEF RvType
      <3>3. ASSUME NEW q \in Rv, NEW d \in Device, q # r \/ Members(r) # {}, Coming(q, d)
            PROVE  Coming(q, d)'
        <4>1. <<q, d>> \in unheard => <<q, d>> \in unheard'
          BY <1>6, <3>1, <3>3, Zenon
        <4> QED BY <1>1, <2>4, <3>3, <4>1, Zenon DEF Coming, InMail
      <3>4. ASSUME NEW q \in Rv \ {r}, NEW d \in Device PROVE Known(q, d)'
        <4>1. Known(q, d) /\ Members(q)' = Members(q) /\ Joins(q, d)' = Joins(q, d)
          BY <2>1, <2>4, Zenon DEF KnowInv, Joins
        <4> QED BY <1>1, <2>4, <3>3, <4>1, Zenon DEF Known
      <3>5. ASSUME NEW d \in Device, d \in Members(r)' PROVE Known(r, d)'
        <4>1. CASE d = e \/ d \in ToTell(r, e)
          BY <3>1, <4>1, Zenon DEF Known, Coming
        <4>2. CASE d # e /\ d \notin ToTell(r, e)
          <5>1. d \in Members(r) /\ e \in Members(r)
            BY <2>1, <3>5, <4>2 DEF ToTell
          <5>2. Known(r, d) /\ Members(r) \ {d} # {} /\ Joins(r, d)' = Joins(r, d)
            BY <2>4, <4>2, <5>1 DEF KnowInv, Joins
          <5> QED BY <1>1, <2>4, <3>3, <5>1, <5>2, Zenon DEF Known
        <4> QED BY <4>1, <4>2
      <3>6. ASSUME NEW d \in Device PROVE Known(r, d)'
        BY <3>5, Zenon DEF Known
      <3> QED BY <3>2, <3>4, <3>6, Zenon DEF KnowInv
    <2> QED BY <1>7, <2>3, <2>4 DEF j
  <1> QED BY <1>2, <1>7, Zenon DEF rv_join

\* The rest of rv_join.
LEMMA JoinedKnow ==
  ASSUME KnowInv, NEW e \in Device, rv_joined(e)
  PROVE  KnowInv'
  <1>0. PICK j : j = joining[e]
    OBVIOUS
  <1> DEFINE r == j.rv
             tell == j.tell
             msg == [type |-> "rv_joined", rv |-> r]
             heard == IF j.present THEN unheard \ {<<r, e>>} ELSE unheard
  <1>1. /\ e \in serving /\ joining[e] # None
        /\ told' = [told EXCEPT ![r][e] = j.present]
        /\ joining' = [joining EXCEPT ![e] = None]
        /\ UNCHANGED <<now, serving, rv>>
        /\ \/ /\ inbox' = [d \in Device |-> IF d \in tell THEN Posted(d, msg)[d] ELSE inbox[d]]
              /\ unheard' = heard
           \/ inbox' = inbox /\ unheard' = heard \union ({r} \X tell)
    BY <1>0, Zenon DEF rv_joined, connVars
  <1>2. /\ RvType /\ joining \in [Device -> RvJoin \union {None}]
        /\ told \in [Rv -> [Device -> BOOLEAN \union {None}]]
        /\ inbox \in [Device -> Seq(Message)]
        /\ unheard \subseteq Rv \X Device
    BY DEF KnowInv, RvType
  <1>3. j \in RvJoin
    BY <1>0, <1>1, <1>2, Zenon DEF RvType, KnowInv
  <1>4. r \in Rv /\ tell \in SUBSET Device /\ j.present \in BOOLEAN /\ msg \in Message
    BY <1>3 DEF RvJoin, Message
  <1>5. /\ heard \subseteq unheard
        /\ ~j.present => heard = unheard
        /\ \A q \in Rv, d \in Device : (<<q, d>> \in unheard /\ <<q, d>> # <<r, e>>) => <<q, d>> \in heard
    <2>1. CASE j.present
      BY <2>1
    <2>2. CASE ~j.present
      BY <2>2
    <2> QED BY <2>1, <2>2
  <1>6. /\ inbox' \in [Device -> Seq(Message)]
        /\ \A d \in Device : Gets(inbox[d], inbox'[d])
        /\ \A d \in Device \ serving : inbox'[d] = inbox[d]
    <2>1. ASSUME NEW d \in Device
          PROVE  /\ Posted(d, msg)[d] \in Seq(Message) /\ Gets(inbox[d], Posted(d, msg)[d])
                 /\ d \notin serving => Posted(d, msg)[d] = inbox[d]
      <3>1. PICK m \in Message : m = msg
        BY <1>4, Zenon
      <3> HIDE DEF msg
      <3> QED BY <1>2, <3>1, PostedGets
    <2>2. CASE inbox' = inbox
      BY <1>2, <2>2, Zenon DEF Gets
    <2>3. CASE inbox' = [d \in Device |-> IF d \in tell THEN Posted(d, msg)[d] ELSE inbox[d]]
      <3> HIDE DEF tell, msg
      <3>1. ASSUME NEW d \in Device
            PROVE  /\ inbox'[d] \in Seq(Message) /\ Gets(inbox[d], inbox'[d])
                   /\ d \notin serving => inbox'[d] = inbox[d]
        <4>1. CASE d \in tell
          BY <2>1, <2>3, <4>1, Zenon
        <4>2. CASE d \notin tell
          <5>1. inbox'[d] = inbox[d]
            BY <2>3, <4>2, Zenon
          <5> QED BY <1>2, <5>1 DEF Gets
        <4> QED BY <4>1, <4>2
      <3>2. inbox' = [d \in Device |-> inbox'[d]]
        BY <2>3
      <3> QED BY <3>1, <3>2
    <2> QED BY <1>1, <2>2, <2>3, Zenon
  <1>7. /\ heard \subseteq unheard' /\ unheard' \subseteq Rv \X Device
        /\ \A d \in tell \intersect serving : InMail(r, d)' \/ <<r, d>> \in unheard'
    <2>1. CASE inbox' = inbox /\ unheard' = heard \union ({r} \X tell)
      <3> HIDE DEF heard, tell, r
      <3> QED BY <1>2, <1>4, <1>5, <2>1
    <2>2. CASE /\ inbox' = [d \in Device |-> IF d \in tell THEN Posted(d, msg)[d] ELSE inbox[d]]
               /\ unheard' = heard
      <3>1. ASSUME NEW d \in tell \intersect serving PROVE InMail(r, d)'
        <4>1. PICK m \in Message : m = msg
          BY <1>4, Zenon
        <4>2. d \in Device /\ d \in tell
          BY <1>4
        <4>3. inbox'[d] = Posted(d, msg)[d]
          BY <2>2, <4>2, Zenon
        <4> HIDE DEF msg
        <4>4. Posted(d, m)[d] = Append(inbox[d], m)
          BY <1>2, <3>1, <4>2, PostedGets
        <4>5. inbox'[d] = Append(inbox[d], m)
          BY <4>1, <4>3, <4>4
        <4>6. inbox[d] \in Seq(Message)
          BY <1>2, <4>2
        <4>7. /\ Len(inbox[d]) + 1 \in 1..Len(inbox'[d])
              /\ inbox'[d][Len(inbox[d]) + 1] = m
          BY <4>5, <4>6
        <4> QED BY <4>1, <4>7, Zenon DEF InMail, msg
      <3>2. heard \subseteq unheard' /\ unheard' \subseteq Rv \X Device
        BY <1>2, <1>5, <2>2, Zenon
      <3> QED BY <3>1, <3>2, Zenon
    <2> QED BY <1>1, <2>1, <2>2, Zenon
  <1> HIDE DEF heard, msg
  <1>8. /\ told' \in [Rv -> [Device -> BOOLEAN \union {None}]]
        /\ told'[r][e] = j.present
        /\ \A q \in Rv, d \in Device : (q # r \/ d # e) => told'[q][d] = told[q][d]
    BY <1>1, <1>2, <1>4
  <1>9. /\ joining' \in [Device -> RvJoin \union {None}] /\ joining'[e] = None
        /\ \A d \in Device \ {e} : joining'[d] = joining[d]
    BY <1>1, <1>2
  <1>10. RvType'
    <2>1. \A d \in Device \ serving :
            inbox'[d] = <<>> /\ joining'[d] = None /\ \A q \in Rv : told'[q][d] = None
      <3> SUFFICES ASSUME NEW d \in Device \ serving
                   PROVE  inbox'[d] = <<>> /\ joining'[d] = None /\ \A q \in Rv : told'[q][d] = None
        OBVIOUS
      <3>1. d \in Device /\ d # e
        BY <1>1
      <3>2. inbox[d] = <<>> /\ joining[d] = None /\ \A q \in Rv : told[q][d] = None
        BY <1>2, Zenon DEF RvType
      <3> QED BY <1>6, <1>8, <1>9, <3>1, <3>2, Zenon
    <2> QED BY <1>1, <1>2, <1>6, <1>7, <1>8, <1>9, <2>1, Zenon DEF RvType
  <1>11. ASSUME NEW q \in Rv, NEW d \in serving, d \in Device, Coming(q, d),
                d # e \/ q # r \/ ~j.present
         PROVE  Coming(q, d)'
    <2>1. CASE InMail(q, d)
      BY <1>2, <1>6, <1>11, <2>1, InMailKept, Zenon DEF Coming
    <2>2. CASE <<q, d>> \in unheard
      <3>1. <<q, d>> \in heard
        BY <1>5, <1>11, <2>2
      <3> QED BY <1>7, <3>1, Zenon DEF Coming
    <2>3. CASE \E f \in serving \ {d} : joining[f] # None /\ joining[f].rv = q /\ d \in joining[f].tell
      <3>1. PICK f \in serving \ {d} : joining[f] # None /\ joining[f].rv = q /\ d \in joining[f].tell
        BY <2>3
      <3>2. CASE f = e
        <4>1. q = r /\ d \in tell \intersect serving
          BY <1>0, <3>1, <3>2
        <4> QED BY <1>7, <4>1, Zenon DEF Coming
      <3>3. CASE f # e
        <4>1. f \in Device /\ joining'[f] = joining[f] /\ serving' = serving
          BY <1>1, <1>2, <1>9, <3>3, Zenon DEF RvType
        <4> QED BY <3>1, <4>1, Zenon DEF Coming
      <3> QED BY <3>2, <3>3
    <2> QED BY <1>11, <2>1, <2>2, <2>3, Zenon DEF Coming
  <1>12. ASSUME NEW q \in Rv, NEW d \in Device PROVE Known(q, d)'
    <2>1. Known(q, d) /\ Members(q)' = Members(q) /\ serving' = serving
      BY <1>1, Zenon DEF KnowInv, Members
    <2>2. CASE d # e
      <3>1. joining'[d] = joining[d] /\ told'[q][d] = told[q][d]
        BY <1>8, <1>9, <2>2
      <3> QED BY <1>11, <2>1, <2>2, <3>1, Zenon DEF Known, Joins
    <2>3. CASE d = e /\ q # r
      <3>1. told'[q][d] = told[q][d] /\ ~Joins(q, d) /\ ~Joins(q, d)'
        BY <1>0, <1>8, <1>9, <2>3, Zenon DEF Joins
      <3> QED BY <1>11, <2>1, <2>3, <3>1, Zenon DEF Known
    <2>4. CASE d = e /\ q = r
      <3>1. told'[q][d] = j.present /\ j = joining[d] /\ j.present \in BOOLEAN
            /\ Joins(q, d) /\ ~Joins(q, d)'
        BY <1>0, <1>1, <1>4, <1>8, <1>9, <2>4, Zenon DEF Joins
      <3> QED BY <1>11, <2>1, <2>4, <3>1, Zenon DEF Known
    <2> QED BY <2>2, <2>3, <2>4, Zenon
  <1> QED BY <1>10, <1>12 DEF KnowInv

LEMMA ToldSet ==
  ASSUME told \in [Rv -> [Device -> BOOLEAN \union {None}]],
         NEW q \in Rv, NEW e \in Device, NEW v \in BOOLEAN, told' = [told EXCEPT ![q][e] = v]
  PROVE  /\ told' \in [Rv -> [Device -> BOOLEAN \union {None}]] /\ told'[q][e] = v
         /\ \A p \in Rv, d \in Device : (p # q \/ d # e) => told'[p][d] = told[p][d]
  OBVIOUS

LEMMA DeliveryKnow ==
  ASSUME KnowInv, NEW e \in Device, on_delivery(e)
  PROVE  KnowInv'
  <1>1. /\ e \in serving /\ joining[e] = None /\ inbox[e] # <<>>
        /\ inbox' = [inbox EXCEPT ![e] = Tail(@)]
        /\ UNCHANGED <<now, serving, rv, joining, unheard>>
    BY Zenon DEF on_delivery, Between
  <1>2. /\ RvType /\ inbox \in [Device -> Seq(Message)] /\ inbox[e] \in Seq(Message)
        /\ told \in [Rv -> [Device -> BOOLEAN \union {None}]]
    BY DEF KnowInv, RvType
  <1>3. PICK m : m = Head(inbox[e])
    OBVIOUS
  <1>4. m \in Message
    BY <1>1, <1>2, <1>3
  <1>5. \/ told' = told /\ m.type # "rv_joined"
        \/ told' = [told EXCEPT ![m.rv][e] = TRUE] /\ m.type = "rv_joined"
    <2>1. \/ told' = told /\ m.type \in {"frame", "pairs", "rv_msg"}
          \/ told' = [told EXCEPT ![m.rv][e] = TRUE] /\ m.type = "rv_joined"
      BY <1>3, Zenon DEF on_delivery
    <2> QED BY <2>1
  <1>6. m.type = "rv_joined" => m.rv \in Rv
    BY <1>4 DEF Message
  <1>7. /\ told' \in [Rv -> [Device -> BOOLEAN \union {None}]]
        /\ \A q \in Rv, d \in Device : told'[q][d] = told[q][d] \/ told'[q][d] = TRUE
        /\ \A q \in Rv, d \in Device \ {e} : told'[q][d] = told[q][d]
        /\ m.type = "rv_joined" => told'[m.rv][e] = TRUE
    <2>1. CASE told' = told /\ m.type # "rv_joined"
      BY <1>2, <2>1
    <2>2. CASE told' = [told EXCEPT ![m.rv][e] = TRUE] /\ m.type = "rv_joined"
      <3>1. PICK q \in Rv : q = m.rv
        BY <1>6, <2>2
      <3>2. told' = [told EXCEPT ![q][e] = TRUE]
        BY <2>2, <3>1
      <3>3. /\ told' \in [Rv -> [Device -> BOOLEAN \union {None}]] /\ told'[q][e] = TRUE
            /\ \A p \in Rv, d \in Device : (p # q \/ d # e) => told'[p][d] = told[p][d]
        BY <1>2, <3>2, ToldSet, Zenon
      <3> QED BY <3>1, <3>3, Zenon
    <2> QED BY <1>5, <2>1, <2>2, Zenon
  <1>8. /\ inbox' \in [Device -> Seq(Message)]
        /\ inbox'[e] = Tail(inbox[e])
        /\ \A d \in Device \ {e} : inbox'[d] = inbox[d]
    <2>1. Tail(inbox[e]) \in Seq(Message)
      BY <1>1, <1>2
    <2> QED BY <1>1, <1>2, <2>1
  <1>9. RvType'
    <2>1. ASSUME NEW d \in Device \ serving
          PROVE  inbox'[d] = <<>> /\ joining'[d] = None /\ \A q \in Rv : told'[q][d] = None
      <3>1. d \in Device \ {e}
        BY <1>1
      <3>2. inbox[d] = <<>> /\ joining[d] = None /\ \A q \in Rv : told[q][d] = None
        BY <1>2, Zenon DEF RvType
      <3> QED BY <1>1, <1>7, <1>8, <3>1, <3>2, Zenon
    <2> QED BY <1>1, <1>2, <1>7, <1>8, <2>1, Zenon DEF RvType
  <1>10. ASSUME NEW q \in Rv, NEW d \in Device, InMail(q, d)
         PROVE  InMail(q, d)' \/ (d = e /\ told'[q][d] = TRUE)
    <2>1. CASE d # e
      BY <1>8, <1>10, <2>1, Zenon DEF InMail
    <2>2. CASE d = e
      <3>1. PICK k \in 1..Len(inbox[e]) : inbox[e][k] = [type |-> "rv_joined", rv |-> q]
        BY <1>10, <2>2, Zenon DEF InMail
      <3>2. CASE k = 1
        <4>1. m = [type |-> "rv_joined", rv |-> q]
          BY <1>2, <1>3, <3>1, <3>2
        <4> QED BY <1>7, <2>2, <4>1
      <3>3. CASE k # 1
        <4>1. k - 1 \in 1..Len(Tail(inbox[e])) /\ Tail(inbox[e])[k - 1] = inbox[e][k]
          BY <1>1, <1>2, <3>1, <3>3
        <4> QED BY <1>8, <2>2, <3>1, <4>1, Zenon DEF InMail
      <3> QED BY <3>2, <3>3, Zenon
    <2> QED BY <2>1, <2>2, Zenon
  <1>11. ASSUME NEW q \in Rv, NEW d \in Device PROVE Known(q, d)'
    <2>1. Known(q, d) /\ Members(q)' = Members(q) /\ Joins(q, d)' = Joins(q, d)
      BY <1>1, Zenon DEF KnowInv, Members, Joins
    <2>2. Coming(q, d) => Coming(q, d)' \/ (d = e /\ told'[q][d] = TRUE)
      BY <1>1, <1>10, Zenon DEF Coming
    <2>3. d = e => ~Joins(q, d)
      BY <1>1, Zenon DEF Joins
    <2>4. told'[q][d] = told[q][d] \/ told'[q][d] = TRUE
      BY <1>7
    <2> QED BY <1>1, <2>1, <2>2, <2>3, <2>4, Zenon DEF Known
  <1> QED BY <1>9, <1>11, Zenon DEF KnowInv

LEMMA ConnectKnow ==
  ASSUME KnowInv, NEW e \in Device, Connect(e)
  PROVE  KnowInv'
  <1>1. /\ e \notin serving /\ serving' = serving \union {e}
        /\ UNCHANGED <<now, inbox, rv, joining, told, unheard>>
    BY Zenon DEF Connect, rvVars
  <1>2. RvType /\ serving \subseteq Device /\ joining[e] = None /\ \A q \in Rv : told[q][e] = None
    BY <1>1, Zenon DEF KnowInv, RvType
  <1>3. serving' \subseteq Device /\ \A d \in Device : d \notin serving' => d \in Device \ serving
    BY <1>1, <1>2
  <1>4. RvType'
    BY <1>1, <1>2, <1>3, Zenon DEF RvType
  <1>5. ASSUME NEW q \in Rv, NEW d \in Device PROVE Known(q, d)'
    <2>1. Known(q, d) /\ Members(q)' = Members(q) /\ Joins(q, d)' = Joins(q, d)
      BY <1>1, Zenon DEF KnowInv, Members, Joins
    <2>2. Coming(q, d) => Coming(q, d)'
      BY <1>1, Zenon DEF Coming, InMail
    <2>3. CASE d = e
      BY <1>1, <1>2, <2>1, <2>3, Zenon DEF Known, Joins
    <2>4. CASE d # e
      <3>1. d \in serving' => d \in serving
        BY <1>1, <2>4
      <3> QED BY <1>1, <2>1, <2>2, <3>1, Zenon DEF Known
    <2> QED BY <2>3, <2>4
  <1> QED BY <1>4, <1>5, Zenon DEF KnowInv

LEMMA DisconnectKnow ==
  ASSUME KnowInv, NEW e \in Device, Disconnect(e)
  PROVE  KnowInv'
  <1>1. /\ e \in serving /\ serving' = serving \ {e}
        /\ inbox' = [inbox EXCEPT ![e] = <<>>]
        /\ joining' = [joining EXCEPT ![e] = None]
        /\ told' = [r \in Rv |-> [told[r] EXCEPT ![e] = None]]
        /\ unheard' = {u \in unheard : u[2] # e} \union
                        (IF joining[e] = None THEN {} ELSE {joining[e].rv} \X joining[e].tell)
        /\ UNCHANGED <<now, rv>>
    BY Zenon DEF Disconnect
  <1>2. /\ RvType /\ serving \subseteq Device /\ inbox \in [Device -> Seq(Message)]
        /\ joining \in [Device -> RvJoin \union {None}]
        /\ told \in [Rv -> [Device -> BOOLEAN \union {None}]]
        /\ unheard \subseteq Rv \X Device
    BY DEF KnowInv, RvType
  <1>3. /\ inbox' \in [Device -> Seq(Message)] /\ inbox'[e] = <<>>
        /\ \A d \in Device \ {e} : inbox'[d] = inbox[d]
    BY <1>1, <1>2
  <1>4. /\ joining' \in [Device -> RvJoin \union {None}] /\ joining'[e] = None
        /\ \A d \in Device \ {e} : joining'[d] = joining[d]
    BY <1>1, <1>2
  <1>5. /\ told' \in [Rv -> [Device -> BOOLEAN \union {None}]]
        /\ \A q \in Rv : told'[q][e] = None
        /\ \A q \in Rv, d \in Device \ {e} : told'[q][d] = told[q][d]
    BY <1>1, <1>2
  <1>6. joining[e] = None \/ joining[e] \in RvJoin
    BY <1>2
  <1>7. /\ unheard' \subseteq Rv \X Device
        /\ \A q \in Rv, d \in Device \ {e} : <<q, d>> \in unheard => <<q, d>> \in unheard'
        /\ joining[e] # None => \A d \in joining[e].tell : <<joining[e].rv, d>> \in unheard'
    <2>1. CASE joining[e] = None
      <3>1. unheard' = {u \in unheard : u[2] # e}
        BY <1>1, <2>1
      <3> QED BY <1>2, <2>1, <3>1
    <2>2. CASE joining[e] # None
      <3>1. unheard' = {u \in unheard : u[2] # e} \union ({joining[e].rv} \X joining[e].tell)
        BY <1>1, <2>2
      <3>2. joining[e].rv \in Rv /\ joining[e].tell \in SUBSET Device
        BY <1>6, <2>2 DEF RvJoin
      <3> QED BY <1>2, <3>1, <3>2
    <2> QED BY <2>1, <2>2
  <1>8. RvType'
    <2>1. ASSUME NEW d \in Device \ serving'
          PROVE  inbox'[d] = <<>> /\ joining'[d] = None /\ \A q \in Rv : told'[q][d] = None
      <3>1. CASE d = e
        BY <1>3, <1>4, <1>5, <3>1, Zenon
      <3>2. CASE d # e
        <4>1. d \in Device \ {e} /\ d \in Device \ serving
          BY <1>1, <3>2
        <4>2. inbox[d] = <<>> /\ joining[d] = None /\ \A q \in Rv : told[q][d] = None
          BY <1>2, <4>1, Zenon DEF RvType
        <4> QED BY <1>3, <1>4, <1>5, <4>1, <4>2, Zenon
      <3> QED BY <3>1, <3>2
    <2>2. serving' \subseteq Device
      BY <1>1, <1>2
    <2> QED BY <1>1, <1>2, <1>3, <1>4, <1>5, <1>7, <2>1, <2>2, Zenon DEF RvType
  <1>9. ASSUME NEW q \in Rv, NEW d \in Device, d # e, Coming(q, d)
        PROVE  Coming(q, d)'
    <2>1. CASE InMail(q, d)
      BY <1>3, <1>9, <2>1, Zenon DEF Coming, InMail
    <2>2. CASE <<q, d>> \in unheard
      BY <1>7, <1>9, <2>2, Zenon DEF Coming
    <2>3. CASE \E f \in serving \ {d} : joining[f] # None /\ joining[f].rv = q /\ d \in joining[f].tell
      <3>1. PICK f \in serving \ {d} : joining[f] # None /\ joining[f].rv = q /\ d \in joining[f].tell
        BY <2>3
      <3>2. CASE f = e
        BY <1>7, <3>1, <3>2, Zenon DEF Coming
      <3>3. CASE f # e
        <4>1. f \in Device \ {e} /\ f \in serving' \ {d}
          BY <1>1, <1>2, <3>1, <3>3
        <4> QED BY <1>4, <3>1, <4>1, Zenon DEF Coming
      <3> QED BY <3>2, <3>3
    <2> QED BY <1>9, <2>1, <2>2, <2>3, Zenon DEF Coming
  <1>10. ASSUME NEW q \in Rv, NEW d \in Device PROVE Known(q, d)'
    <2>1. CASE d = e
      <3>1. d \notin serving'
        BY <1>1, <2>1
      <3> QED BY <3>1, Zenon DEF Known
    <2>2. CASE d # e
      <3>1. Known(q, d) /\ Members(q)' = Members(q)
        BY <1>1, Zenon DEF KnowInv, Members
      <3>2. (d \in serving' => d \in serving) /\ d \in Device \ {e}
        BY <1>1, <2>2
      <3>3. told'[q][d] = told[q][d] /\ joining'[d] = joining[d]
        BY <1>4, <1>5, <3>2, Zenon
      <3> QED BY <1>9, <2>2, <3>1, <3>2, <3>3, Zenon DEF Known, Joins
    <2> QED BY <2>1, <2>2
  <1> QED BY <1>8, <1>10, Zenon DEF KnowInv

LEMMA Shorter ==
  ASSUME NEW s \in Seq(Message), s # <<>>
  PROVE  /\ SubSeq(s, 1, Len(s) - 1) \in Seq(Message)
         /\ Len(SubSeq(s, 1, Len(s) - 1)) = Len(s) - 1
         /\ \A k \in 1..(Len(s) - 1) : SubSeq(s, 1, Len(s) - 1)[k] = s[k]
  <1>1. Len(s) \in Nat \ {0} /\ \A k \in 1..Len(s) : s[k] \in Message
    OBVIOUS
  <1>2. SubSeq(s, 1, Len(s) - 1) \in Seq(Message)
    BY <1>1
  <1>3. Len(SubSeq(s, 1, Len(s) - 1)) = Len(s) - 1
    <2>0. Len(s) - 1 \in Nat /\ Len(s) - 1 <= Len(s)
      BY <1>1
    <2>1. PICK n \in Nat : n = Len(s) - 1 /\ n <= Len(s)
      BY <2>0, Zenon
    <2>2. CASE n = 0
      BY <2>1, <2>2
    <2>3. CASE n > 0
      <3>1. Len(SubSeq(s, 1, n)) = n
        BY <1>1, <2>1, <2>3
      <3> QED BY <2>1, <3>1
    <2> QED BY <2>1, <2>2, <2>3
  <1>4. \A k \in 1..(Len(s) - 1) : SubSeq(s, 1, Len(s) - 1)[k] = s[k]
    BY <1>1
  <1> QED BY <1>2, <1>3, <1>4

LEMMA LoseKnow ==
  ASSUME KnowInv, NEW e \in Device, Lose(e)
  PROVE  KnowInv'
  <1>1. PICK m : m = inbox[e][Len(inbox[e])]
    OBVIOUS
  <1>2. /\ inbox[e] # <<>>
        /\ unheard' = unheard \union (IF m.type = "rv_joined" THEN {<<m.rv, e>>} ELSE {})
        /\ inbox' = [inbox EXCEPT ![e] = SubSeq(@, 1, Len(@) - 1)]
        /\ UNCHANGED <<now, serving, rv, joining, told>>
    BY <1>1, Zenon DEF Lose, connVars
  <1>3. /\ RvType /\ inbox \in [Device -> Seq(Message)] /\ inbox[e] \in Seq(Message)
        /\ unheard \subseteq Rv \X Device
    BY DEF KnowInv, RvType
  <1>4. /\ Len(inbox[e]) \in Nat \ {0} /\ m \in Message
    BY <1>1, <1>2, <1>3
  <1>5. /\ SubSeq(inbox[e], 1, Len(inbox[e]) - 1) \in Seq(Message)
        /\ Len(SubSeq(inbox[e], 1, Len(inbox[e]) - 1)) = Len(inbox[e]) - 1
        /\ \A k \in 1..(Len(inbox[e]) - 1) :
             SubSeq(inbox[e], 1, Len(inbox[e]) - 1)[k] = inbox[e][k]
    BY <1>2, <1>3, Shorter
  <1>6. /\ inbox' \in [Device -> Seq(Message)]
        /\ inbox'[e] = SubSeq(inbox[e], 1, Len(inbox[e]) - 1)
        /\ \A d \in Device \ {e} : inbox'[d] = inbox[d]
    BY <1>2, <1>3, <1>5
  <1>7. /\ unheard \subseteq unheard' /\ unheard' \subseteq Rv \X Device
        /\ m.type = "rv_joined" => <<m.rv, e>> \in unheard'
    <2>1. m.type = "rv_joined" => m.rv \in Rv
      BY <1>4 DEF Message
    <2>2. CASE m.type = "rv_joined"
      BY <1>2, <1>3, <2>1, <2>2
    <2>3. CASE m.type # "rv_joined"
      BY <1>2, <1>3, <2>3
    <2> QED BY <2>2, <2>3
  <1>8. e \in serving
    BY <1>2, <1>3, Zenon DEF RvType
  <1>9. RvType'
    <2>1. ASSUME NEW d \in Device \ serving PROVE inbox'[d] = inbox[d]
      BY <1>6, <1>8
    <2> QED BY <1>2, <1>3, <1>6, <1>7, <2>1, Zenon DEF RvType
  <1>10. ASSUME NEW q \in Rv, NEW d \in Device, InMail(q, d)
         PROVE  InMail(q, d)' \/ <<q, d>> \in unheard'
    <2>1. CASE d # e
      BY <1>6, <1>10, <2>1, Zenon DEF InMail
    <2>2. CASE d = e
      <3>1. PICK k \in 1..Len(inbox[e]) : inbox[e][k] = [type |-> "rv_joined", rv |-> q]
        BY <1>10, <2>2, Zenon DEF InMail
      <3>2. CASE k = Len(inbox[e])
        <4>1. m.type = "rv_joined" /\ m.rv = q
          BY <1>1, <3>1, <3>2
        <4> QED BY <1>7, <2>2, <4>1
      <3>3. CASE k # Len(inbox[e])
        <4>1. k \in 1..(Len(inbox[e]) - 1)
          BY <1>4, <3>3
        <4>2. k \in 1..Len(inbox'[e]) /\ inbox'[e][k] = inbox[e][k]
          BY <1>5, <1>6, <4>1, Zenon
        <4> QED BY <2>2, <3>1, <4>2, Zenon DEF InMail
      <3> QED BY <3>2, <3>3, Zenon
    <2> QED BY <2>1, <2>2, Zenon
  <1>11. ASSUME NEW q \in Rv, NEW d \in Device PROVE Known(q, d)'
    <2>1. Known(q, d) /\ Members(q)' = Members(q) /\ Joins(q, d)' = Joins(q, d)
      BY <1>2, Zenon DEF KnowInv, Members, Joins
    <2>2. Coming(q, d) => Coming(q, d)'
      BY <1>2, <1>7, <1>10, Zenon DEF Coming
    <2> QED BY <1>2, <2>1, <2>2, Zenon DEF Known
  <1> QED BY <1>9, <1>11, Zenon DEF KnowInv

\* Time only empties a rendezvous.
LEMMA TickKnow ==
  ASSUME KnowInv, Tick
  PROVE  KnowInv'
  <1>1. now' = now + 1 /\ UNCHANGED <<serving, inbox, rv, joining, told, unheard>>
    BY Zenon DEF Tick, connVars, rvVars
  <1>2. RvType /\ now \in Nat /\ \A r \in Rv : rv[r].expires \in Nat
    BY DEF KnowInv, RvType
  <1>3. now' \in Nat
    BY <1>1, <1>2
  <1>4. RvType'
    BY <1>1, <1>2, <1>3, Zenon DEF RvType
  <1>5. ASSUME NEW r \in Rv PROVE Members(r)' = Members(r) \/ Members(r)' = {}
    <2>1. now' < rv[r].expires => now < rv[r].expires
      BY <1>1, <1>2
    <2> QED BY <1>1, <2>1, Zenon DEF Members
  <1>6. ASSUME NEW r \in Rv, NEW d \in Device PROVE Known(r, d)'
    <2>1. Known(r, d) /\ Joins(r, d)' = Joins(r, d) /\ Coming(r, d)' = Coming(r, d)
      BY <1>1, Zenon DEF KnowInv, Joins, Coming, InMail
    <2> QED BY <1>1, <1>5, <2>1, Zenon DEF Known
  <1> QED BY <1>4, <1>6, Zenon DEF KnowInv

LEMMA KnowStep ==
  ASSUME KnowInv, [Next]_vars, \A d \in Device : pending[d] # None => pending[d].to \in Device
  PROVE  KnowInv'
  <1>1. ASSUME NEW l, l[1] \in Device, l[2] \in Device, NEW n, publish_forward(l, n),
               UNCHANGED <<now, serving, rvVars>>
        PROVE  KnowInv'
    <2>1. PICK t \in Device, m \in Message : t = l[2] /\ m = [type |-> "frame", from |-> l[1]]
      <3>1. [type |-> "frame", from |-> l[1]] \in Message
        BY <1>1 DEF Message
      <3> QED BY <1>1, <3>1, Zenon
    <2>2. inbox' = inbox \/ inbox' = Posted(t, m)
      BY <1>1, <2>1, Zenon DEF publish_forward
    <2> QED BY <1>1, <2>2, PostKnow, SameKnow, Zenon
  <1>2. ASSUME NEW d \in Device, NEW t \in Device, NEW n, Frame(d, t, n) PROVE KnowInv'
    <2>1. UNCHANGED <<now, serving, rvVars>>
      BY <1>2, Zenon DEF Frame
    <2>2. CASE inbox' = inbox
      BY <2>1, <2>2, SameKnow, Zenon
    <2>3. CASE publish_forward(<<d, t>>, n)
      <3>1. PICK l : l = <<d, t>>
        BY Zenon
      <3>2. l[1] \in Device /\ l[2] \in Device
        BY <3>1
      <3> QED BY <1>1, <2>1, <2>3, <3>1, <3>2, Zenon
    <2> QED BY <1>2, <2>2, <2>3, Zenon DEF Frame, forward
  <1>3. ASSUME NEW d \in Device, Release(d) PROVE KnowInv'
    <2>1. /\ UNCHANGED <<now, serving, rvVars>> /\ pending[d] # None
          /\ publish_forward(<<d, pending[d].to>>, pending[d].bytes)
      BY <1>3, Zenon DEF Release
    <2>2. pending[d].to \in Device
      BY <2>1, Zenon
    <2>3. PICK l, n : l = <<d, pending[d].to>> /\ n = pending[d].bytes
      BY Zenon
    <2>4. l[1] \in Device /\ l[2] \in Device
      BY <2>2, <2>3
    <2>5. publish_forward(l, n)
      BY <2>1, <2>3, Zenon
    <2> QED BY <1>1, <2>1, <2>4, <2>5, Zenon
  <1>4. ASSUME NEW d \in Device, NEW r \in Rv, rv_msg(d, r) PROVE KnowInv'
    <2>1. UNCHANGED <<now, serving, rvVars>>
      BY <1>4, Zenon DEF rv_msg, connVars
    <2>2. CASE inbox' = inbox
      BY <2>1, <2>2, SameKnow, Zenon
    <2>3. CASE \E e \in Members(r) : inbox' = Posted(e, [type |-> "rv_msg", rv |-> r])
      <3>1. PICK e \in Members(r) : inbox' = Posted(e, [type |-> "rv_msg", rv |-> r])
        BY <2>3
      <3>2. e \in Device
        BY DEF KnowInv, RvType, Members
      <3>3. [type |-> "rv_msg", rv |-> r] \in Message
        BY DEF Message
      <3> QED BY <2>1, <3>1, <3>2, <3>3, PostKnow, Zenon
    <2> QED BY <1>4, <2>2, <2>3, Zenon DEF rv_msg
  <1>5. ASSUME NEW d \in Device, PairNews(d) PROVE KnowInv'
    <2>1. inbox' = Posted(d, [type |-> "pairs"]) /\ UNCHANGED <<now, serving, rvVars>>
      BY <1>5, Zenon DEF PairNews, connVars
    <2>2. [type |-> "pairs"] \in Message
      BY DEF Message
    <2> QED BY <2>1, <2>2, PostKnow, Zenon
  <1>6. ASSUME \/ \E q \in Pair : AddPair(q) \/ RemovePair(q)
               \/ Statistics \/ UNCHANGED vars
        PROVE  KnowInv'
    <2>1. UNCHANGED <<now, serving, inbox, rvVars>>
      BY <1>6, Zenon DEF AddPair, RemovePair, Statistics, vars, connVars
    <2> QED BY <2>1, SameKnow, Zenon
  <1>7. ASSUME NEW d \in Device, FromDevice(d) PROVE KnowInv'
    <2>1. CASE \E t \in Device \ {d}, n \in FrameLen : Frame(d, t, n)
      <3>1. PICK t \in Device, n \in FrameLen : Frame(d, t, n)
        BY <2>1
      <3> QED BY <1>2, <3>1, Zenon
    <2> QED BY <1>4, <1>7, <2>1, JoinKnow, Zenon DEF FromDevice
  <1>8. ASSUME NEW d \in Device,
               FromDevice(d) \/ Release(d) \/ rv_joined(d) \/ on_delivery(d)
                 \/ Connect(d) \/ Disconnect(d) \/ PairNews(d) \/ Lose(d)
        PROVE  KnowInv'
    BY <1>3, <1>5, <1>7, <1>8, JoinedKnow, DeliveryKnow, ConnectKnow, DisconnectKnow,
       LoseKnow, Zenon
  <1> QED BY <1>6, <1>8, TickKnow, Zenon DEF Next

-----------------------------------------------------------------------------
(* The shape of the state.                                                 *)

\* The caches, buckets and held frames of the connections.  A device without
\* a connection has none.
CacheInv ==
    /\ pairs \subseteq Pair
    /\ since \in [Pair -> Nat]
    /\ peers \in [Device -> SUBSET Device]
    /\ buckets \in [Link -> TokenBucket \union {None}]
    /\ pending \in [Device -> HeldFrame \union {None}]
    /\ lastMiss \in [Device -> Miss \union {None}]
    /\ meter \in [Link -> Nat]
    /\ \A d \in Device \ serving :
         /\ peers[d] = {} /\ pending[d] = None /\ lastMiss[d] = None
         /\ \A l \in Link : l[1] = d => buckets[l] = None

LEMMA CacheSame ==
  ASSUME CacheInv, UNCHANGED <<pairs, since, connVars, meter>>
  PROVE  CacheInv'
  BY Zenon DEF CacheInv, connVars

\* A step of the connection of d.
LEMMA CacheStepOf ==
  ASSUME CacheInv, NEW d \in Device, UNCHANGED <<pairs, since>>,
         NEW P \in SUBSET Device, peers' = [peers EXCEPT ![d] = P],
         NEW m \in Miss \union {None}, lastMiss' = [lastMiss EXCEPT ![d] = m],
         NEW f \in HeldFrame \union {None}, pending' = [pending EXCEPT ![d] = f],
         buckets' \in [Link -> TokenBucket \union {None}], meter' \in [Link -> Nat],
         \A l \in Link : l[1] # d => buckets'[l] \in {None, buckets[l]},
         \A e \in Device \ {d} : e \in serving => e \in serving',
         \/ d \in serving'
         \/ P = {} /\ m = None /\ f = None /\ \A l \in Link : l[1] = d => buckets'[l] = None
  PROVE  CacheInv'
  <1>1. /\ peers \in [Device -> SUBSET Device] /\ lastMiss \in [Device -> Miss \union {None}]
        /\ pending \in [Device -> HeldFrame \union {None}]
        /\ pairs \subseteq Pair /\ since \in [Pair -> Nat]
    BY Zenon DEF CacheInv
  <1>2. /\ peers' \in [Device -> SUBSET Device] /\ peers'[d] = P
        /\ \A e \in Device \ {d} : peers'[e] = peers[e]
    BY <1>1
  <1>3. /\ lastMiss' \in [Device -> Miss \union {None}] /\ lastMiss'[d] = m
        /\ \A e \in Device \ {d} : lastMiss'[e] = lastMiss[e]
    BY <1>1
  <1>4. /\ pending' \in [Device -> HeldFrame \union {None}] /\ pending'[d] = f
        /\ \A e \in Device \ {d} : pending'[e] = pending[e]
    BY <1>1
  <1>5. ASSUME NEW e \in Device \ serving'
        PROVE  /\ peers'[e] = {} /\ pending'[e] = None /\ lastMiss'[e] = None
               /\ \A l \in Link : l[1] = e => buckets'[l] = None
    <2>1. CASE e = d
      BY <1>2, <1>3, <1>4, <1>5, <2>1, Zenon
    <2>2. CASE e # d
      <3>1. e \in Device \ {d} /\ e \in Device \ serving
        BY <1>5, <2>2
      <3>2. /\ peers[e] = {} /\ pending[e] = None /\ lastMiss[e] = None
            /\ \A l \in Link : l[1] = e => buckets[l] = None
        BY <3>1, Zenon DEF CacheInv
      <3>3. \A l \in Link : l[1] = e => buckets'[l] = None
        BY <2>2, <3>2, Zenon
      <3> QED BY <1>2, <1>3, <1>4, <3>1, <3>2, <3>3, Zenon
    <2> QED BY <2>1, <2>2, Zenon
  <1> QED BY <1>1, <1>2, <1>3, <1>4, <1>5, Zenon DEF CacheInv

\* What a field holds may be written to it.
LEMMA Unwritten ==
  ASSUME CacheInv, NEW d \in Device
  PROVE  /\ peers = [peers EXCEPT ![d] = peers[d]] /\ peers[d] \in SUBSET Device
         /\ lastMiss = [lastMiss EXCEPT ![d] = lastMiss[d]] /\ lastMiss[d] \in Miss \union {None}
         /\ pending = [pending EXCEPT ![d] = pending[d]]
         /\ pending[d] \in HeldFrame \union {None}
  BY DEF CacheInv

LEMMA ReloadType ==
  ASSUME CacheInv, NEW d \in Device, NEW o \in ReloadOutcomes(d)
  PROVE  o[1].peers \in SUBSET Device /\ o[2] \in BOOLEAN
  <1>1. o \in {<<Reloaded(d), TRUE>>, <<NotReloaded(d), FALSE>>}
    BY Zenon DEF ReloadOutcomes
  <1>2. ActivePeers(d) \in SUBSET Device /\ peers[d] \in SUBSET Device
    BY DEF CacheInv, ActivePeers
  <1>3. Reloaded(d).peers = ActivePeers(d) /\ NotReloaded(d).peers = peers[d]
    BY Zenon DEF Reloaded, NotReloaded
  <1>4. CASE o = <<Reloaded(d), TRUE>>
    <2>1. o[1] = Reloaded(d) /\ o[2] = TRUE
      BY <1>4, Zenon
    <2> QED BY <1>2, <1>3, <2>1, Zenon
  <1>5. CASE o = <<NotReloaded(d), FALSE>>
    <2>1. o[1] = NotReloaded(d) /\ o[2] = FALSE
      BY <1>5, Zenon
    <2> QED BY <1>2, <1>3, <2>1, Zenon
  <1> QED BY <1>1, <1>4, <1>5, Zenon

LEMMA CheckType ==
  ASSUME CacheInv, now \in Nat, NEW d \in Device, NEW t, NEW o \in is_peer(d, t)
  PROVE  o[1].peers \in SUBSET Device /\ o[2] \in Miss \union {None}
  <1>1. CASE o = <<NotReloaded(d), lastMiss[d]>>
    <2>1. o[1] = NotReloaded(d) /\ o[2] = lastMiss[d]
      BY <1>1, Zenon
    <2>2. NotReloaded(d).peers = peers[d]
      BY Zenon DEF NotReloaded
    <2> QED BY <2>1, <2>2, Unwritten, Zenon
  <1>2. CASE \E x \in ReloadOutcomes(d) : o = <<x[1], [at |-> now, ok |-> x[2]]>>
    <2>1. PICK x \in ReloadOutcomes(d) : o = <<x[1], [at |-> now, ok |-> x[2]]>>
      BY <1>2, Zenon
    <2>2. o[1] = x[1] /\ o[2] = [at |-> now, ok |-> x[2]]
      BY <2>1, Zenon
    <2>3. x[1].peers \in SUBSET Device /\ x[2] \in BOOLEAN
      BY ReloadType, Zenon
    <2>4. o[2] \in Miss
      BY <2>2, <2>3 DEF Miss
    <2> QED BY <2>2, <2>3, <2>4, Zenon
  <1> QED BY <1>1, <1>2, Zenon DEF is_peer

LEMMA DropType ==
  ASSUME CacheInv, NEW D
  PROVE  /\ Without(buckets, D, None) \in [Link -> TokenBucket \union {None}]
         /\ \A l \in Link : Without(buckets, D, None)[l] \in {None, buckets[l]}
         /\ Without(meter, D, 0) \in [Link -> Nat]
  <1>1. buckets \in [Link -> TokenBucket \union {None}] /\ meter \in [Link -> Nat]
    BY Zenon DEF CacheInv
  <1> QED BY <1>1 DEF Without

LEMMA TakeType ==
  ASSUME now \in Nat, NEW c \in TokenBucket, NEW n \in Nat
  PROVE  Take(c, n) \in TokenBucket
  <1>1. PairBandwidth \in Nat
    BY InboundConstants, Zenon
  <1>2. c.tokens \in Int /\ c.updated \in Nat
    BY DEF TokenBucket
  <1>3. Tokens(c) \in Int
    BY <1>1, <1>2 DEF Tokens, Least
  <1> QED BY <1>3 DEF Take, TokenBucket

LEMMA CacheForward ==
  ASSUME CacheInv, now \in Nat, NEW d \in Device, d \in serving, NEW t \in Device, t # d,
         NEW n \in FrameLen, n <= MaxFrame, forward(d, t, n), UNCHANGED <<pairs, since, serving>>
  PROVE  CacheInv'
  <1>0. n \in Nat /\ n \in 1..MaxFrame /\ <<d, t>> \in Link
    BY InboundConstants DEF Link
  <1>1. PICK o \in is_peer(d, t) :
          /\ peers' = [peers EXCEPT ![d] = o[1].peers]
          /\ lastMiss' = [lastMiss EXCEPT ![d] = o[2]]
          /\ LET l == <<d, t>>
                 kept == Without(buckets, o[1].dropped, None)
                 b == Take(IF kept[l] = None THEN NewBucket ELSE kept[l], n)
                 sent == Without(meter, Closed(d, o[1].peers), 0)
             IN
             \/ buckets' = kept /\ meter' = sent /\ pending' = pending
             \/ /\ buckets' = [kept EXCEPT ![l] = b]
                /\ \/ meter' = [sent EXCEPT ![l] = @ + n] /\ pending' = pending
                   \/ /\ b.tokens < 0
                      /\ pending' = [pending EXCEPT ![d] =
                                       [to |-> t, bytes |-> n, deadline |-> now - b.tokens]]
                      /\ meter' = sent
    BY Zenon DEF forward
  <1>2. PICK P, m, kept, sent :
          /\ P = o[1].peers /\ m = o[2]
          /\ kept = Without(buckets, o[1].dropped, None) /\ sent = Without(meter, Closed(d, o[1].peers), 0)
    OBVIOUS
  <1>3. P \in SUBSET Device /\ m \in Miss \union {None}
    BY <1>2, CheckType, Zenon
  <1>4. /\ kept \in [Link -> TokenBucket \union {None}]
        /\ \A l \in Link : kept[l] \in {None, buckets[l]}
        /\ sent \in [Link -> Nat]
    BY <1>2, DropType, Zenon
  <1>5. PICK b : b = Take(IF kept[<<d, t>>] = None THEN NewBucket ELSE kept[<<d, t>>], n)
    OBVIOUS
  <1>6. b \in TokenBucket
    <2>1. NewBucket \in TokenBucket
      BY InboundConstants DEF NewBucket, TokenBucket
    <2>2. (IF kept[<<d, t>>] = None THEN NewBucket ELSE kept[<<d, t>>]) \in TokenBucket
      BY <1>0, <1>4, <2>1, Zenon
    <2> QED BY <1>0, <1>5, <2>2, TakeType, Zenon
  <1>7. /\ [kept EXCEPT ![<<d, t>>] = b] \in [Link -> TokenBucket \union {None}]
        /\ \A l \in Link : l[1] # d => [kept EXCEPT ![<<d, t>>] = b][l] = kept[l]
        /\ [sent EXCEPT ![<<d, t>>] = @ + n] \in [Link -> Nat]
    <2>1. \A l \in Link : l[1] # d => l # <<d, t>>
      OBVIOUS
    <2> QED BY <1>0, <1>4, <1>6, <2>1
  <1>8. buckets' = kept \/ buckets' = [kept EXCEPT ![<<d, t>>] = b]
    BY <1>1, <1>2, <1>5, Zenon
  <1>9. meter' = sent \/ meter' = [sent EXCEPT ![<<d, t>>] = @ + n]
    BY <1>1, <1>2, Zenon
  <1>10. /\ buckets' \in [Link -> TokenBucket \union {None}] /\ meter' \in [Link -> Nat]
         /\ \A l \in Link : l[1] # d => buckets'[l] \in {None, buckets[l]}
    BY <1>4, <1>7, <1>8, <1>9, Zenon
  <1>11. PICK f \in HeldFrame \union {None} : pending' = [pending EXCEPT ![d] = f]
    <2>1. CASE pending' = pending
      BY <2>1, Unwritten, Zenon
    <2>2. CASE /\ b.tokens < 0
               /\ pending' = [pending EXCEPT ![d] =
                                [to |-> t, bytes |-> n, deadline |-> now - b.tokens]]
      <3>1. b.tokens \in Int
        BY <1>6 DEF TokenBucket
      <3>2. now - b.tokens \in Nat
        BY <2>2, <3>1
      <3>3. [to |-> t, bytes |-> n, deadline |-> now - b.tokens] \in HeldFrame
        BY <1>0, <3>2 DEF HeldFrame
      <3> QED BY <2>2, <3>3, Zenon
    <2> QED BY <1>1, <1>2, <1>5, <2>1, <2>2, Zenon
  <1>12. /\ peers' = [peers EXCEPT ![d] = P] /\ lastMiss' = [lastMiss EXCEPT ![d] = m]
         /\ d \in serving' /\ \A e \in Device \ {d} : e \in serving => e \in serving'
    BY <1>1, <1>2, Zenon
  <1> QED BY <1>3, <1>10, <1>11, <1>12, CacheStepOf, Zenon

LEMMA CacheDelivery ==
  ASSUME CacheInv, now \in Nat, NEW d \in Device, on_delivery(d)
  PROVE  CacheInv'
  <1>1. d \in serving /\ UNCHANGED <<serving, pending, pairs, since>>
    BY Zenon DEF on_delivery, Between
  <1>2. CASE UNCHANGED <<peers, buckets, meter, lastMiss>>
    BY <1>1, <1>2, CacheSame, Zenon DEF connVars
  <1>3. CASE \E t : \E o \in is_peer(d, t) \union {<<x[1], lastMiss[d]>> : x \in ReloadOutcomes(d)} :
               /\ peers' = [peers EXCEPT ![d] = o[1].peers]
               /\ buckets' = Without(buckets, o[1].dropped, None)
               /\ meter' = Without(meter, Closed(d, o[1].peers), 0)
               /\ lastMiss' = [lastMiss EXCEPT ![d] = o[2]]
    <2>1. PICK t : \E o \in is_peer(d, t) \union {<<x[1], lastMiss[d]>> : x \in ReloadOutcomes(d)} :
               /\ peers' = [peers EXCEPT ![d] = o[1].peers]
               /\ buckets' = Without(buckets, o[1].dropped, None)
               /\ meter' = Without(meter, Closed(d, o[1].peers), 0)
               /\ lastMiss' = [lastMiss EXCEPT ![d] = o[2]]
      BY <1>3, Zenon
    <2>2. PICK o \in is_peer(d, t) \union {<<x[1], lastMiss[d]>> : x \in ReloadOutcomes(d)} :
               /\ peers' = [peers EXCEPT ![d] = o[1].peers]
               /\ buckets' = Without(buckets, o[1].dropped, None)
               /\ meter' = Without(meter, Closed(d, o[1].peers), 0)
               /\ lastMiss' = [lastMiss EXCEPT ![d] = o[2]]
      BY <2>1, Zenon
    <2>3. o[1].peers \in SUBSET Device /\ o[2] \in Miss \union {None}
      <3>1. CASE o \in is_peer(d, t)
        BY <3>1, CheckType, Zenon
      <3>2. CASE \E x \in ReloadOutcomes(d) : o = <<x[1], lastMiss[d]>>
        <4>1. PICK x \in ReloadOutcomes(d) : o = <<x[1], lastMiss[d]>>
          BY <3>2, Zenon
        <4>2. o[1] = x[1] /\ o[2] = lastMiss[d]
          BY <4>1, Zenon
        <4> QED BY <4>2, ReloadType, Unwritten, Zenon
      <3> QED BY <3>1, <3>2, Zenon
    <2>4. PICK P \in SUBSET Device, m \in Miss \union {None} : P = o[1].peers /\ m = o[2]
      BY <2>3, Zenon
    <2>5. PICK f \in HeldFrame \union {None} : pending' = [pending EXCEPT ![d] = f]
      BY <1>1, Unwritten, Zenon
    <2>6. /\ buckets' \in [Link -> TokenBucket \union {None}] /\ meter' \in [Link -> Nat]
          /\ \A l \in Link : l[1] # d => buckets'[l] \in {None, buckets[l]}
      BY <2>2, DropType, Zenon
    <2>7. /\ peers' = [peers EXCEPT ![d] = P] /\ lastMiss' = [lastMiss EXCEPT ![d] = m]
          /\ d \in serving' /\ \A e \in Device \ {d} : e \in serving => e \in serving'
      BY <1>1, <2>2, <2>4, Zenon
    <2> QED BY <1>1, <2>5, <2>6, <2>7, CacheStepOf, Zenon
  <1>4. \/ UNCHANGED <<peers, buckets, meter, lastMiss>>
        \/ \E o \in IF Head(inbox[d]).type = "frame" THEN is_peer(d, Head(inbox[d]).from)
                      ELSE {<<x[1], lastMiss[d]>> : x \in ReloadOutcomes(d)} :
               /\ peers' = [peers EXCEPT ![d] = o[1].peers]
               /\ buckets' = Without(buckets, o[1].dropped, None)
               /\ meter' = Without(meter, Closed(d, o[1].peers), 0)
               /\ lastMiss' = [lastMiss EXCEPT ![d] = o[2]]
    BY Zenon DEF on_delivery
  <1>5. PICK t : t = Head(inbox[d]).from
    OBVIOUS
  <1>6. (IF Head(inbox[d]).type = "frame" THEN is_peer(d, Head(inbox[d]).from)
           ELSE {<<x[1], lastMiss[d]>> : x \in ReloadOutcomes(d)})
          \subseteq is_peer(d, t) \union {<<x[1], lastMiss[d]>> : x \in ReloadOutcomes(d)}
    BY <1>5, Zenon
  <1> QED BY <1>2, <1>3, <1>4, <1>6, Zenon

LEMMA CacheDisconnect ==
  ASSUME CacheInv, NEW d \in Device, Disconnect(d)
  PROVE  CacheInv'
  <1>1. /\ serving' = serving \ {d} /\ peers' = [peers EXCEPT ![d] = {}]
        /\ buckets' = Without(buckets, Dropped(d, {}), None)
        /\ meter' = Without(meter, Closed(d, {}), 0)
        /\ pending' = [pending EXCEPT ![d] = None] /\ lastMiss' = [lastMiss EXCEPT ![d] = None]
        /\ UNCHANGED <<pairs, since>>
    BY Zenon DEF Disconnect
  <1>2. PICK P \in SUBSET Device, m \in Miss \union {None}, f \in HeldFrame \union {None} :
          P = {} /\ m = None /\ f = None
    BY Zenon
  <1>3. \A e \in Device \ {d} : e \in serving => e \in serving'
    BY <1>1
  <1>4. \A l \in Link : l[1] = d => l \in Dropped(d, {})
    BY Zenon DEF Dropped
  <1>5. \A l \in Link : l[1] = d => buckets'[l] = None
    BY <1>1, <1>4, Zenon DEF Without
  <1>6. /\ buckets' \in [Link -> TokenBucket \union {None}] /\ meter' \in [Link -> Nat]
        /\ \A l \in Link : l[1] # d => buckets'[l] \in {None, buckets[l]}
    BY <1>1, DropType, Zenon
  <1>7. /\ peers' = [peers EXCEPT ![d] = P] /\ lastMiss' = [lastMiss EXCEPT ![d] = m]
        /\ pending' = [pending EXCEPT ![d] = f]
    BY <1>1, <1>2, Zenon
  <1> QED BY <1>1, <1>2, <1>3, <1>5, <1>6, <1>7, CacheStepOf, Zenon

LEMMA CacheConnect ==
  ASSUME CacheInv, NEW d \in Device, Connect(d)
  PROVE  CacheInv'
  <1>1. /\ serving' = serving \union {d} /\ peers' = [peers EXCEPT ![d] = ActivePeers(d)]
        /\ UNCHANGED <<pairs, since, buckets, pending, lastMiss, meter>>
    BY Zenon DEF Connect
  <1>2. PICK P \in SUBSET Device : P = ActivePeers(d)
    <2>1. ActivePeers(d) \in SUBSET Device
      BY DEF ActivePeers
    <2> QED BY <2>1, Zenon
  <1>3. d \in serving' /\ \A e \in Device \ {d} : e \in serving => e \in serving'
    BY <1>1
  <1>4. PICK m, f : m = lastMiss[d] /\ f = pending[d]
    OBVIOUS
  <1>5. /\ m \in Miss \union {None} /\ lastMiss' = [lastMiss EXCEPT ![d] = m]
        /\ f \in HeldFrame \union {None} /\ pending' = [pending EXCEPT ![d] = f]
    BY <1>1, <1>4, Unwritten, Zenon
  <1>6. /\ buckets' \in [Link -> TokenBucket \union {None}] /\ meter' \in [Link -> Nat]
        /\ \A l \in Link : l[1] # d => buckets'[l] \in {None, buckets[l]}
    BY <1>1, Zenon DEF CacheInv
  <1>7. peers' = [peers EXCEPT ![d] = P]
    BY <1>1, <1>2, Zenon
  <1> QED BY <1>1, <1>3, <1>5, <1>6, <1>7, CacheStepOf, Zenon

LEMMA CacheRelease ==
  ASSUME CacheInv, NEW d \in Device, Release(d)
  PROVE  CacheInv'
  <1>1. /\ d \in serving /\ UNCHANGED <<pairs, since, serving, peers, buckets, lastMiss>>
        /\ pending[d] # None /\ pending' = [pending EXCEPT ![d] = None]
        /\ meter' = [meter EXCEPT ![<<d, pending[d].to>>] = @ + pending[d].bytes]
    BY Zenon DEF Release, Between
  <1>2. pending[d].bytes \in Nat
    BY <1>1 DEF CacheInv, HeldFrame
  <1>3. meter \in [Link -> Nat] /\ buckets \in [Link -> TokenBucket \union {None}]
    BY Zenon DEF CacheInv
  <1>4. meter' \in [Link -> Nat]
    <2>1. PICK n \in Nat : n = pending[d].bytes
      BY <1>2, Zenon
    <2>2. PICK l : l = <<d, pending[d].to>>
      BY Zenon
    <2>3. meter' = [meter EXCEPT ![l] = @ + n]
      BY <1>1, <2>1, <2>2, Zenon
    <2>4. DOMAIN meter' = Link /\ \A k \in Link : meter'[k] \in {meter[k], meter[k] + n}
      BY <1>3, <2>3, Zenon
    <2>5. \A k \in Link : meter[k] \in Nat /\ meter[k] + n \in Nat
      BY <1>3
    <2>6. \A k \in Link : meter'[k] \in Nat
      BY <2>4, <2>5, Zenon
    <2>7. meter' = [k \in Link |-> meter'[k]]
      BY <1>3, <2>3, Zenon
    <2> QED BY <2>6, <2>7, Zenon
  <1>5. PICK P \in SUBSET Device, m \in Miss \union {None}, f \in HeldFrame \union {None} :
          /\ peers' = [peers EXCEPT ![d] = P] /\ lastMiss' = [lastMiss EXCEPT ![d] = m]
          /\ pending' = [pending EXCEPT ![d] = f]
    BY <1>1, Unwritten, Zenon
  <1>6. /\ buckets' \in [Link -> TokenBucket \union {None}]
        /\ \A l \in Link : l[1] # d => buckets'[l] \in {None, buckets[l]}
        /\ d \in serving' /\ \A e \in Device \ {d} : e \in serving => e \in serving'
    BY <1>1, <1>3, Zenon
  <1> QED BY <1>1, <1>4, <1>5, <1>6, CacheStepOf, Zenon

LEMMA CacheStep ==
  ASSUME CacheInv, now \in Nat, [Next]_vars
  PROVE  CacheInv'
  <1>1. ASSUME NEW d \in Device, NEW t \in Device, t # d, NEW n \in FrameLen, Frame(d, t, n)
        PROVE  CacheInv'
    <2>1. d \in serving /\ UNCHANGED <<pairs, since, serving>>
      BY <1>1, Zenon DEF Frame, Reading, Between
    <2>2. CASE n <= MaxFrame /\ forward(d, t, n)
      BY <1>1, <2>1, <2>2, CacheForward, Zenon
    <2>3. CASE UNCHANGED <<peers, buckets, lastMiss, pending, meter>>
      BY <2>1, <2>3, CacheSame, Zenon DEF connVars
    <2> QED BY <1>1, <2>2, <2>3, Zenon DEF Frame
  <1>2. ASSUME NEW d \in Device,
               \/ \E r \in Rv : rv_join(d, r) \/ rv_msg(d, r)
               \/ rv_joined(d) \/ PairNews(d) \/ Lose(d)
        PROVE  CacheInv'
    <2>1. UNCHANGED <<pairs, since, connVars, meter>>
      BY <1>2, Zenon DEF rv_join, rv_msg, rv_joined, PairNews, Lose
    <2> QED BY <2>1, CacheSame, Zenon
  <1>3. ASSUME NEW q \in Pair, AddPair(q) \/ RemovePair(q) PROVE CacheInv'
    <2>1. /\ UNCHANGED <<connVars, meter>>
          /\ pairs' = pairs \union {q} \/ pairs' = pairs \ {q}
          /\ since' = [since EXCEPT ![q] = now] \/ since' = since
      BY <1>3, Zenon DEF AddPair, RemovePair
    <2>2. pairs \subseteq Pair /\ since \in [Pair -> Nat]
      BY Zenon DEF CacheInv
    <2>3. pairs' \subseteq Pair /\ since' \in [Pair -> Nat]
      BY <2>1, <2>2
    <2> QED BY <2>1, <2>3, Zenon DEF CacheInv, connVars
  <1>4. CASE Tick
    <2>1. /\ UNCHANGED <<pairs, since, connVars>>
          /\ meter' = [l \in Link |-> IF meter[l] = 0 THEN 0 ELSE meter[l] - 1]
      BY <1>4, Zenon DEF Tick
    <2>2. meter' \in [Link -> Nat]
      BY <2>1 DEF CacheInv
    <2> QED BY <2>1, <2>2, Zenon DEF CacheInv, connVars
  <1>5. CASE Statistics \/ UNCHANGED vars
    <2>1. UNCHANGED <<pairs, since, connVars, meter>>
      BY <1>5, Zenon DEF Statistics, vars, connVars
    <2> QED BY <2>1, CacheSame, Zenon
  <1>6. ASSUME NEW d \in Device, FromDevice(d) PROVE CacheInv'
    <2>1. CASE \E t \in Device \ {d}, n \in FrameLen : Frame(d, t, n)
      <3>1. PICK t \in Device \ {d}, n \in FrameLen : Frame(d, t, n)
        BY <2>1, Zenon
      <3>2. t \in Device /\ t # d
        BY Zenon
      <3> QED BY <1>1, <3>1, <3>2, Zenon
    <2> QED BY <1>2, <1>6, <2>1, Zenon DEF FromDevice
  <1>7. ASSUME NEW d \in Device,
               FromDevice(d) \/ Release(d) \/ rv_joined(d) \/ on_delivery(d)
                 \/ Connect(d) \/ Disconnect(d) \/ PairNews(d) \/ Lose(d)
        PROVE  CacheInv'
    BY <1>2, <1>6, <1>7, CacheRelease, CacheDelivery, CacheConnect, CacheDisconnect, Zenon
  <1> QED BY <1>3, <1>4, <1>5, <1>7, Zenon DEF Next

\* The two together: what is known of a rendezvous rests on frames that are
\* only ever held for a device.
MeetingInv == KnowInv /\ CacheInv

LEMMA MeetingInvariant == Spec => []MeetingInv
  <1>1. Init => MeetingInv
    <2> SUFFICES ASSUME Init PROVE CacheInv
      BY KnowInit, Zenon DEF MeetingInv
    <2>1. /\ peers = [d \in Device |-> {}] /\ buckets = [l \in Link |-> None]
          /\ pending = [d \in Device |-> None] /\ lastMiss = [d \in Device |-> None]
          /\ pairs \subseteq Pair /\ since = [p \in Pair |-> 0] /\ meter = [l \in Link |-> 0]
      BY Zenon DEF Init
    <2>2. since \in [Pair -> Nat] /\ meter \in [Link -> Nat]
      BY <2>1
    <2>3. /\ peers \in [Device -> SUBSET Device]
          /\ buckets \in [Link -> TokenBucket \union {None}]
          /\ pending \in [Device -> HeldFrame \union {None}]
          /\ lastMiss \in [Device -> Miss \union {None}]
      BY <2>1
    <2>4. \A d \in Device : /\ peers[d] = {} /\ pending[d] = None /\ lastMiss[d] = None
                            /\ \A l \in Link : buckets[l] = None
      BY <2>1, Zenon
    <2> QED BY <2>1, <2>2, <2>3, <2>4, Zenon DEF CacheInv
  <1>2. MeetingInv /\ [Next]_vars => MeetingInv'
    <2> SUFFICES ASSUME MeetingInv, [Next]_vars PROVE MeetingInv'
      OBVIOUS
    <2>1. KnowInv /\ CacheInv /\ now \in Nat
      BY Zenon DEF MeetingInv, KnowInv, RvType
    <2>2. \A d \in Device : pending[d] # None => pending[d].to \in Device
      BY <2>1 DEF CacheInv, HeldFrame
    <2>3. KnowInv'
      BY <2>1, <2>2, KnowStep, Zenon
    <2>4. CacheInv'
      BY <2>1, CacheStep, Zenon
    <2> QED BY <2>3, <2>4, Zenon DEF MeetingInv
  <1> QED BY <1>1, <1>2, PTL DEF Spec

\* The state keeps its shape.  Only a connection has peers, buckets, a held
\* frame, a mailbox or an rv_join in progress, whatever the order of frames,
\* deliveries and disconnects, and a rendezvous never has more than two
\* members (JOIN_SCRIPT, Conn in connection.rs).
THEOREM InboundTypeCorrect == Spec => []TypeOK
  <1>1. MeetingInv => TypeOK
    <2> SUFFICES ASSUME MeetingInv PROVE TypeOK
      OBVIOUS
    <2>1. /\ now \in Nat /\ serving \subseteq Device /\ inbox \in [Device -> Seq(Message)]
          /\ joining \in [Device -> RvJoin \union {None}]
          /\ rv \in [Rv -> [members : SUBSET Device, expires : Nat]]
          /\ \A r \in Rv : Cardinality(rv[r].members) <= 2
          /\ told \in [Rv -> [Device -> BOOLEAN \union {None}]]
          /\ unheard \subseteq Rv \X Device
          /\ \A d \in Device \ serving : inbox[d] = <<>> /\ joining[d] = None
      BY Zenon DEF MeetingInv, KnowInv, RvType
    <2>2. /\ pairs \subseteq Pair /\ since \in [Pair -> Nat]
          /\ peers \in [Device -> SUBSET Device]
          /\ buckets \in [Link -> TokenBucket \union {None}]
          /\ pending \in [Device -> HeldFrame \union {None}]
          /\ lastMiss \in [Device -> Miss \union {None}] /\ meter \in [Link -> Nat]
      BY Zenon DEF MeetingInv, CacheInv
    <2>3. \A d \in Device \ serving :
            /\ peers[d] = {} /\ pending[d] = None /\ lastMiss[d] = None
            /\ \A l \in Link : l[1] = d => buckets[l] = None
      BY Zenon DEF MeetingInv, CacheInv
    <2> QED BY <2>1, <2>2, <2>3, Zenon DEF TypeOK
  <1> QED BY <1>1, MeetingInvariant, PTL

\* When two devices have met in a rendezvous, each of them that joined over
\* its present connection knows it, will hear it, or is on record as having
\* missed it, in every order of the two joins, their answers, deliveries,
\* losses and disconnects (rv_join and its publish in inbound.rs).
THEOREM BothAlwaysKnow == Spec => []BothKnow
  <1>1. MeetingInv => BothKnow
    <2> SUFFICES ASSUME MeetingInv, NEW r \in Rv, Cardinality(Members(r)) = 2,
                        NEW d \in Members(r) \intersect serving
                 PROVE  \/ told[r][d] \in {None, TRUE}
                        \/ InMail(r, d)
                        \/ <<r, d>> \in unheard
                        \/ \E e \in serving :
                             joining[e] # None /\ joining[e].rv = r /\ (e = d \/ d \in joining[e].tell)
      BY Zenon DEF BothKnow
    <2>1. d \in Device /\ Known(r, d)
      <3>1. d \in Device
        BY DEF MeetingInv, KnowInv, RvType
      <3> QED BY <3>1, Zenon DEF MeetingInv, KnowInv
    <2>2. Members(r) \ {d} # {}
      <3>1. Members(r) # {d}
        BY FS_Singleton
      <3> QED BY <3>1
    <2>3. told[r][d] \in {None, TRUE} \/ Coming(r, d) \/ Joins(r, d)
      BY <2>1, <2>2, Zenon DEF Known
    <2>4. Joins(r, d) => \E e \in serving :
             joining[e] # None /\ joining[e].rv = r /\ (e = d \/ d \in joining[e].tell)
      BY DEF Joins
    <2>5. Coming(r, d) => \/ InMail(r, d)
                          \/ <<r, d>> \in unheard
                          \/ \E e \in serving :
                               joining[e] # None /\ joining[e].rv = r /\ (e = d \/ d \in joining[e].tell)
      BY Zenon DEF Coming
    <2> QED BY <2>3, <2>4, <2>5, Zenon
  <1> QED BY <1>1, MeetingInvariant, PTL
=============================================================================
