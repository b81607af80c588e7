---------------------------- MODULE UsageProofs ----------------------------
(***************************************************************************)
(* Proofs about Usage, for any number of instances, devices and days: no   *)
(* count is lost or doubled but where the model says so, all instances     *)
(* agree on the hash of a device, and rows go when their time is up.       *)
(* Inbound implements Usage (InboundCounts), so all of it holds with       *)
(* connections counting.                                                   *)
(***************************************************************************)
EXTENDS InboundProofs

USE SMTT(60)

-----------------------------------------------------------------------------
(* Types.                                                                  *)

FlushState == [at : {"idle", "salt", "write"}, since : Nat, salt : Salt \union {None}]

Counters ==
    /\ tally \in Counts /\ batch \in Counts /\ added \in Counts
    /\ written \in Counts /\ again \in Counts /\ lost \in Counts

\* A flush about to write has its salt.
Flushers ==
    /\ flusher \in [Instance -> FlushState]
    /\ \A i \in Instance : flusher[i].at = "write" => flusher[i].salt \in Salt
    /\ \A s \in salts : s.month \in Nat /\ s.salt \in Salt

Stored ==
    /\ day \in Nat
    /\ \A r \in rows : r.day \in Nat /\ r.day <= day /\ r.device \in Device
                       /\ r.salt \in Salt

Cleaning ==
    /\ lockedDay \in Nat /\ missed \in Nat /\ cleaner \subseteq Instance
    /\ ticked \in BOOLEAN /\ faulted \in BOOLEAN

TypeInv == Counters /\ Flushers /\ Stored /\ Cleaning

LEMMA TypeInvIsType == TypeInv => UsageTypeOK
  BY DEF TypeInv, Counters, Flushers, Stored, Cleaning, UsageTypeOK, FlushState

LEMMA ZeroType == Zero \in [Device -> Nat] /\ \A d \in Device : Zero[d] = 0
  BY DEF Zero

LEMMA PlusType ==
  ASSUME NEW f \in [Device -> Nat], NEW g \in [Device -> Nat]
  PROVE  /\ Plus(f, g) \in [Device -> Nat]
         /\ \A d \in Device : Plus(f, g)[d] = f[d] + g[d]
  BY DEF Plus

LEMMA TypeInit == UsageInit => TypeInv
  <1> SUFFICES ASSUME UsageInit PROVE TypeInv
    OBVIOUS
  <1>1. Counters
    BY ZeroType DEF UsageInit, Counters, Counts
  <1>2. Flushers
    BY DEF UsageInit, Flushers, FlushState, Idle
  <1>3. Stored
    BY DEF UsageInit, Stored
  <1>4. lockedDay \in Nat /\ missed \in Nat /\ cleaner \subseteq Instance
    BY DEF UsageInit
  <1>5. Cleaning
    BY <1>4, Zenon DEF UsageInit, Cleaning
  <1> QED BY <1>1, <1>2, <1>3, <1>5 DEF TypeInv

LEMMA IdleType == Idle \in FlushState /\ Idle.at # "write"
  BY DEF Idle, FlushState

LEMMA RestoreType ==
  ASSUME TypeInv, NEW i \in Instance, restore(i)
  PROVE  /\ tally' \in Counts /\ batch' \in Counts
         /\ flusher' \in [Instance -> FlushState]
         /\ \A j \in Instance : flusher'[j].at = "write" => flusher'[j].salt \in Salt
  <1>1. Plus(tally[i], batch[i]) \in [Device -> Nat]
    <2>1. tally[i] \in [Device -> Nat] /\ batch[i] \in [Device -> Nat]
      BY DEF TypeInv, Counters, Counts
    <2> QED BY <2>1, PlusType
  <1>2. tally' \in Counts /\ batch' \in Counts
    BY <1>1, ZeroType DEF restore, TypeInv, Counters, Counts
  <1>3. /\ flusher' \in [Instance -> FlushState]
        /\ \A j \in Instance : flusher'[j].at = "write" => flusher'[j].salt \in Salt
    BY IdleType DEF restore, TypeInv, Flushers
  <1> QED BY <1>2, <1>3

LEMMA TypeCount ==
  ASSUME TypeInv, NEW i \in Instance, NEW d \in Device, NEW n \in Nat, Count(i, d, n)
  PROVE  TypeInv'
  <1>1. Counters'
    BY DEF Count, TypeInv, Counters, Counts
  <1>2. Flushers' /\ Stored' /\ Cleaning'
    BY DEF Count, TypeInv, Flushers, Stored, Cleaning, cleanVars
  <1> QED BY <1>1, <1>2 DEF TypeInv

LEMMA TypeTake == ASSUME TypeInv, NEW i \in Instance, take(i) PROVE TypeInv'
  <1>1. Counters'
    BY ZeroType DEF take, TypeInv, Counters, Counts
  <1>2. [at |-> "salt", since |-> day, salt |-> None] \in FlushState
    BY DEF TypeInv, Stored, FlushState
  <1>3. Flushers'
    BY <1>2 DEF take, TypeInv, Flushers
  <1>4. Stored' /\ Cleaning'
    BY DEF take, TypeInv, Stored, Cleaning, cleanVars
  <1> QED BY <1>1, <1>3, <1>4 DEF TypeInv

LEMMA SaltType ==
  ASSUME NEW m \in Nat, SetSalt(m), \A s \in salts : s.month \in Nat /\ s.salt \in Salt
  PROVE  \A s \in salts' : s.month \in Nat /\ s.salt \in Salt
  BY DEF SetSalt

LEMMA MonthNat == \A x \in Nat : Month(x) \in Nat
  BY UsageConstants DEF Month

LEMMA TypeSalt == ASSUME TypeInv, NEW i \in Instance, monthly_salt(i) PROVE TypeInv'
  <1> DEFINE m == Month(flusher[i].since)
  <1>1. m \in Nat /\ flusher[i].since \in Nat
    BY MonthNat DEF TypeInv, Flushers, FlushState
  <1>2. SetSalt(m) \/ salts' = salts
    BY DEF monthly_salt
  <1>3. \A s \in salts' : s.month \in Nat /\ s.salt \in Salt
    BY <1>1, <1>2, SaltType DEF TypeInv, Flushers
  <1>4. Stored' /\ Cleaning' /\ UNCHANGED <<added, written, again, lost>>
    BY DEF monthly_salt, TypeInv, Stored, Cleaning, cleanVars
  <1>5. CASE restore(i)
    BY <1>3, <1>4, <1>5, RestoreType DEF TypeInv, Counters, Flushers
  <1>6. CASE ~restore(i)
    <2>1. PICK s \in salts' :
            /\ flusher' = [flusher EXCEPT ![i] =
                             [at |-> "write", since |-> @.since, salt |-> s.salt]]
            /\ UNCHANGED <<tally, batch>>
      BY <1>6 DEF monthly_salt
    <2>2. [at |-> "write", since |-> flusher[i].since, salt |-> s.salt] \in FlushState
          /\ s.salt \in Salt
      BY <1>1, <1>3 DEF FlushState
    <2>3. Flushers'
      BY <1>3, <2>1, <2>2 DEF TypeInv, Flushers
    <2> QED BY <1>4, <2>1, <2>3 DEF TypeInv, Counters
  <1> QED BY <1>5, <1>6

LEMMA TypeBatch == ASSUME TypeInv, NEW i \in Instance, add_batch(i) PROVE TypeInv'
  <1>1. /\ tally[i] \in [Device -> Nat] /\ batch[i] \in [Device -> Nat]
        /\ written[i] \in [Device -> Nat] /\ again[i] \in [Device -> Nat]
    BY DEF TypeInv, Counters, Counts
  <1> DEFINE w == Plus(written[i], batch[i])
             g == Plus(again[i], batch[i])
  <1>2. w \in [Device -> Nat] /\ g \in [Device -> Nat]
    BY <1>1, PlusType
  <1>3. written' \in Counts /\ again' \in Counts
    <2>1. written' = written \/ written' = [written EXCEPT ![i] = w]
      BY Zenon DEF add_batch
    <2>2. again' = again \/ again' = [again EXCEPT ![i] = g]
      BY Zenon DEF add_batch
    <2>3. \A f \in Counts, x \in [Device -> Nat] : [f EXCEPT ![i] = x] \in Counts
      BY DEF Counts
    <2> HIDE DEF w, g
    <2> QED BY <1>2, <2>1, <2>2, <2>3 DEF TypeInv, Counters
  <1>4. UNCHANGED <<salts, added, lost>> /\ UNCHANGED cleanVars
    BY DEF add_batch
  <1>5. Cleaning' /\ day' = day
    BY <1>4 DEF cleanVars, TypeInv, Cleaning
  <1>6. Stored'
    <2>1. flusher[i].salt \in Salt
      BY DEF add_batch, TypeInv, Flushers
    <2>2. \A r \in BatchRows(i) : r.day = day /\ r.device \in Device /\ r.salt \in Salt
      BY <2>1 DEF BatchRows
    <2>3. rows' = rows \/ rows' = rows \union BatchRows(i)
      BY DEF add_batch
    <2> QED BY <1>5, <2>2, <2>3 DEF TypeInv, Stored
  <1>7. /\ tally' \in Counts /\ batch' \in Counts
        /\ flusher' \in [Instance -> FlushState]
        /\ \A j \in Instance : flusher'[j].at = "write" => flusher'[j].salt \in Salt
    <2>1. CASE restore(i)
      BY <2>1, RestoreType
    <2>2. CASE ~restore(i)
      <3>1. /\ batch' = [batch EXCEPT ![i] = Zero] /\ tally' = tally
            /\ flusher' = [flusher EXCEPT ![i] = Idle]
        BY <2>2 DEF add_batch
      <3>2. tally' \in Counts /\ batch' \in Counts
        BY <3>1, ZeroType DEF TypeInv, Counters, Counts
      <3> QED BY <3>1, <3>2, IdleType DEF TypeInv, Flushers
    <2> QED BY <2>1, <2>2
  <1> QED BY <1>3, <1>4, <1>5, <1>6, <1>7 DEF TypeInv, Counters, Flushers

LEMMA TypeCrash == ASSUME TypeInv, NEW i \in Instance, Crash(i) PROVE TypeInv'
  <1>1. /\ tally[i] \in [Device -> Nat] /\ batch[i] \in [Device -> Nat]
        /\ lost[i] \in [Device -> Nat]
    BY DEF TypeInv, Counters, Counts
  <1> DEFINE l == Plus(lost[i], Plus(tally[i], batch[i]))
  <1>2. l \in [Device -> Nat]
    <2>1. Plus(tally[i], batch[i]) \in [Device -> Nat]
      BY <1>1, PlusType
    <2> QED BY <1>1, <2>1, PlusType
  <1>3. lost' = [lost EXCEPT ![i] = l]
    BY DEF Crash
  <1> HIDE DEF l
  <1>4. Counters'
    BY <1>2, <1>3, ZeroType DEF Crash, TypeInv, Counters, Counts
  <1>5. Flushers'
    BY IdleType DEF Crash, TypeInv, Flushers
  <1>6. Stored' /\ UNCHANGED <<lockedDay, missed, ticked>> /\ cleaner' \subseteq Instance
    BY DEF Crash, TypeInv, Stored, Cleaning
  <1>7. faulted' \in BOOLEAN
    BY Zenon DEF Crash
  <1>8. Cleaning'
    BY <1>6, <1>7, Zenon DEF TypeInv, Cleaning
  <1> QED BY <1>4, <1>5, <1>6, <1>8 DEF TypeInv

\* The cleanup and the date leave the counters and the flushes alone.
LEMMA TypeCleanup ==
  ASSUME TypeInv, NEW i \in Instance, TryCleanup(i) \/ run_cleanup(i)
  PROVE  TypeInv'
  <1>1. UNCHANGED <<tally, batch, added, written, again, lost, flusher, salts>> /\ day' = day
    BY DEF TryCleanup, run_cleanup, flushVars
  <1>2. Counters' /\ Flushers'
    BY <1>1 DEF TypeInv, Counters, Flushers
  <1>3. rows' \subseteq rows
    BY DEF TryCleanup, run_cleanup, flushVars
  <1>4. Stored'
    BY <1>1, <1>3 DEF TypeInv, Stored
  <1>5. lockedDay' \in Nat /\ missed' \in Nat /\ cleaner' \subseteq Instance
    BY DEF TryCleanup, run_cleanup, TypeInv, Cleaning, Stored
  <1>6. ticked' \in BOOLEAN /\ faulted' \in BOOLEAN
    BY Zenon DEF TryCleanup, run_cleanup, TypeInv, Cleaning
  <1>7. Cleaning'
    BY <1>5, <1>6 DEF Cleaning
  <1> QED BY <1>2, <1>4, <1>7 DEF TypeInv

LEMMA TypeMidnight == ASSUME TypeInv, Midnight PROVE TypeInv'
  <1>1. Counters' /\ Flushers'
    BY DEF Midnight, flushVars, TypeInv, Counters, Flushers
  <1>2. Stored'
    BY DEF Midnight, flushVars, TypeInv, Stored
  <1>3. lockedDay' \in Nat /\ missed' \in Nat /\ cleaner' \subseteq Instance
    BY DEF Midnight, TypeInv, Cleaning
  <1>4. ticked' \in BOOLEAN /\ faulted' \in BOOLEAN
    BY Zenon DEF Midnight
  <1>5. Cleaning'
    BY <1>3, <1>4 DEF Cleaning
  <1> QED BY <1>1, <1>2, <1>5 DEF TypeInv

LEMMA TypeStep == TypeInv /\ [UsageNext]_usageVars => TypeInv'
  <1> SUFFICES ASSUME TypeInv, [UsageNext]_usageVars PROVE TypeInv'
    OBVIOUS
  <1>1. ASSUME NEW i \in Instance, UsageStep(i) PROVE TypeInv'
    BY <1>1, TypeTake, TypeSalt, TypeBatch, TypeCrash, TypeCleanup, Zenon DEF UsageStep
  <1>2. ASSUME NEW i \in Instance, NEW d \in Device, NEW n \in Amount, Count(i, d, n)
        PROVE  TypeInv'
    BY <1>2, TypeCount, UsageConstants
  <1>3. CASE UNCHANGED usageVars
    BY <1>3 DEF usageVars, flushVars, cleanVars, TypeInv, Counters, Flushers, Stored, Cleaning
  <1> QED BY <1>1, <1>2, <1>3, TypeMidnight, Zenon DEF UsageNext

\* Type correctness of Usage (usage.rs, store/usage.rs, maintenance.rs).
THEOREM UsageTypeCorrect == UsageSpec => []UsageTypeOK
  BY TypeInit, TypeStep, TypeInvIsType, PTL DEF UsageSpec

-----------------------------------------------------------------------------
(* Counting.                                                               *)

Natural(f) == f \in [Device -> Nat]

\* The counters of an instance add up.
Adds(w, t, b, l, a, g) == \A d \in Device : w[d] + t[d] + b[d] + l[d] = a[d] + g[d]

\* The counters of instance i become those given.
Becomes(i, w, t, b, l, a, g) ==
    /\ written' = [written EXCEPT ![i] = w] /\ tally' = [tally EXCEPT ![i] = t]
    /\ batch' = [batch EXCEPT ![i] = b] /\ lost' = [lost EXCEPT ![i] = l]
    /\ added' = [added EXCEPT ![i] = a] /\ again' = [again EXCEPT ![i] = g]

LEMMA NaturalPlus ==
  /\ Natural(Zero)
  /\ \A f, g : Natural(f) /\ Natural(g) => Natural(Plus(f, g))
  BY ZeroType, PlusType DEF Natural

LEMMA Rebalance ==
  ASSUME TypeInv, Conserved, NEW i \in Instance, NEW w, NEW t, NEW b, NEW l, NEW a, NEW g,
         Natural(w), Natural(t), Natural(b), Natural(l), Natural(a), Natural(g),
         Becomes(i, w, t, b, l, a, g), Adds(w, t, b, l, a, g)
  PROVE  Conserved'
  <1>1. ASSUME NEW j \in Instance, NEW d \in Device
        PROVE  (written[j][d] + tally[j][d] + batch[j][d] + lost[j][d]
                  = added[j][d] + again[j][d])'
    <2>1. CASE j = i
      <3>1. /\ written'[j] = w /\ tally'[j] = t /\ batch'[j] = b /\ lost'[j] = l
            /\ added'[j] = a /\ again'[j] = g
        BY <2>1 DEF TypeInv, Counters, Counts, Becomes
      <3> QED BY <3>1 DEF Adds
    <2>2. CASE j # i
      <3>1. /\ written'[j] = written[j] /\ tally'[j] = tally[j] /\ batch'[j] = batch[j]
            /\ lost'[j] = lost[j] /\ added'[j] = added[j] /\ again'[j] = again[j]
        BY <2>2 DEF TypeInv, Counters, Counts, Becomes
      <3> QED BY <3>1, Zenon DEF Conserved
    <2> QED BY <2>1, <2>2, Zenon
  <1> QED BY <1>1 DEF Conserved

\* What the counters of instance i are, and that they add up.
LEMMA Balance ==
  ASSUME TypeInv, Conserved, NEW i \in Instance
  PROVE  /\ Natural(written[i]) /\ Natural(tally[i]) /\ Natural(batch[i])
         /\ Natural(lost[i]) /\ Natural(added[i]) /\ Natural(again[i])
         /\ Adds(written[i], tally[i], batch[i], lost[i], added[i], again[i])
  <1>1. Counters
    BY DEF TypeInv
  <1>2. Adds(written[i], tally[i], batch[i], lost[i], added[i], again[i])
    BY DEF Conserved, Adds
  <1> QED BY <1>1, <1>2 DEF Counters, Counts, Natural

\* Counters that stay are replaced by themselves.
LEMMA Stays ==
  ASSUME TypeInv, NEW i \in Instance
  PROVE  /\ [written EXCEPT ![i] = written[i]] = written
         /\ [tally EXCEPT ![i] = tally[i]] = tally
         /\ [batch EXCEPT ![i] = batch[i]] = batch
         /\ [lost EXCEPT ![i] = lost[i]] = lost
         /\ [added EXCEPT ![i] = added[i]] = added
         /\ [again EXCEPT ![i] = again[i]] = again
  <1>1. \A f \in Counts : [f EXCEPT ![i] = f[i]] = f
    BY DEF Counts
  <1> QED BY <1>1 DEF TypeInv, Counters

LEMMA CountCounts ==
  ASSUME TypeInv, Conserved, NEW i \in Instance, NEW d \in Device, NEW n \in Nat, Count(i, d, n)
  PROVE  Conserved'
  <1> DEFINE w == written[i]  b == batch[i]  l == lost[i]  g == again[i]
             t == [tally[i] EXCEPT ![d] = @ + n]
             a == [added[i] EXCEPT ![d] = @ + n]
  <1>1. Becomes(i, w, t, b, l, a, g)
    BY Stays DEF Count, Becomes
  <1>2. Natural(t) /\ Natural(a)
    BY Balance DEF Natural
  <1>3. Adds(w, t, b, l, a, g)
    <2> SUFFICES ASSUME NEW e \in Device PROVE w[e] + t[e] + b[e] + l[e] = a[e] + g[e]
      BY DEF Adds
    <2>1. /\ w[e] \in Nat /\ tally[i][e] \in Nat /\ b[e] \in Nat /\ l[e] \in Nat
          /\ added[i][e] \in Nat /\ g[e] \in Nat
          /\ w[e] + tally[i][e] + b[e] + l[e] = added[i][e] + g[e]
      BY Balance DEF Natural, Adds
    <2>2. CASE e = d
      <3>1. t[e] = tally[i][e] + n /\ a[e] = added[i][e] + n
        BY <2>2, Balance DEF Natural
      <3> HIDE DEF t, a
      <3> QED BY <2>1, <3>1
    <2>3. CASE e # d
      <3>1. t[e] = tally[i][e] /\ a[e] = added[i][e]
        BY <2>3, Balance DEF Natural
      <3> HIDE DEF t, a
      <3> QED BY <2>1, <3>1
    <2> QED BY <2>2, <2>3
  <1> HIDE DEF t, a
  <1> QED BY <1>1, <1>2, <1>3, Balance, Rebalance

\* An idle flush holds nothing.
Spare == \A i \in Instance : flusher[i].at = "idle" => batch[i] = Zero

LEMMA CountTake ==
  ASSUME TypeInv, Conserved, Spare, NEW i \in Instance, take(i)
  PROVE  Conserved'
  <1>1. Becomes(i, written[i], Zero, tally[i], lost[i], added[i], again[i])
    BY Stays DEF take, Becomes
  <1>2. batch[i] = Zero
    BY DEF take, Spare, Idle
  <1>3. Adds(written[i], Zero, tally[i], lost[i], added[i], again[i])
    <2> SUFFICES ASSUME NEW d \in Device
                 PROVE  written[i][d] + Zero[d] + tally[i][d] + lost[i][d]
                          = added[i][d] + again[i][d]
      BY Zenon DEF Adds
    <2>1. /\ written[i][d] \in Nat /\ tally[i][d] \in Nat /\ batch[i][d] = 0
          /\ lost[i][d] \in Nat /\ Zero[d] = 0
          /\ written[i][d] + tally[i][d] + batch[i][d] + lost[i][d]
               = added[i][d] + again[i][d]
      BY <1>2, Balance, ZeroType DEF Natural, Adds
    <2> QED BY <2>1
  <1>4. Natural(Zero)
    BY ZeroType DEF Natural
  <1> QED BY <1>1, <1>3, <1>4, Balance, Rebalance

\* restore moves the batch back; what was written and is put back again is
\* counted on both sides.
LEMMA CountRestore ==
  ASSUME TypeInv, Conserved, NEW i \in Instance, restore(i), UNCHANGED <<added, lost>>,
         \/ UNCHANGED <<written, again>>
         \/ /\ written' = [written EXCEPT ![i] = Plus(@, batch[i])]
            /\ again' = [again EXCEPT ![i] = Plus(@, batch[i])]
  PROVE  Conserved'
  <1> DEFINE t == Plus(tally[i], batch[i])
             w == Plus(written[i], batch[i])
             g == Plus(again[i], batch[i])
             a == added[i]  l == lost[i]  z == Zero
  <1>1. /\ Natural(t) /\ Natural(w) /\ Natural(g) /\ Natural(a) /\ Natural(l) /\ Natural(z)
        /\ Natural(written[i]) /\ Natural(again[i])
    BY Balance, NaturalPlus
  <1>2. ASSUME NEW d \in Device
        PROVE  /\ written[i][d] + t[d] + z[d] + l[d] = a[d] + again[i][d]
               /\ w[d] + t[d] + z[d] + l[d] = a[d] + g[d]
    <2>1. /\ t[d] = tally[i][d] + batch[i][d]
          /\ w[d] = written[i][d] + batch[i][d]
          /\ g[d] = again[i][d] + batch[i][d]
      BY Balance, PlusType DEF Natural
    <2>2. /\ written[i][d] \in Nat /\ tally[i][d] \in Nat /\ batch[i][d] \in Nat
          /\ l[d] \in Nat /\ a[d] \in Nat /\ again[i][d] \in Nat /\ z[d] = 0
          /\ written[i][d] + tally[i][d] + batch[i][d] + l[d] = a[d] + again[i][d]
      BY Balance, ZeroType DEF Natural, Adds
    <2> HIDE DEF t, w, g, z
    <2> QED BY <2>1, <2>2
  <1>3. Adds(written[i], t, z, l, a, again[i]) /\ Adds(w, t, z, l, a, g)
    BY <1>2 DEF Adds
  <1>4. \/ Becomes(i, written[i], t, z, l, a, again[i])
        \/ Becomes(i, w, t, z, l, a, g)
    BY Stays DEF restore, Becomes
  <1> HIDE DEF t, w, g, z
  <1> QED BY <1>1, <1>3, <1>4, Rebalance

LEMMA CountBatch ==
  ASSUME TypeInv, Conserved, NEW i \in Instance, add_batch(i)
  PROVE  Conserved'
  <1>1. UNCHANGED <<added, lost>>
    BY DEF add_batch
  <1>2. CASE restore(i) /\ UNCHANGED <<written, again>>
    BY <1>1, <1>2, CountRestore, Zenon
  <1>3. CASE /\ restore(i)
             /\ written' = [written EXCEPT ![i] = Plus(@, batch[i])]
             /\ again' = [again EXCEPT ![i] = Plus(@, batch[i])]
    BY <1>1, <1>3, CountRestore, Zenon
  <1>4. CASE /\ written' = [written EXCEPT ![i] = Plus(@, batch[i])]
             /\ batch' = [batch EXCEPT ![i] = Zero] /\ UNCHANGED <<tally, again>>
    <2> DEFINE w == Plus(written[i], batch[i])
               t == tally[i]  l == lost[i]  a == added[i]  g == again[i]
    <2>1. Natural(w) /\ Natural(t) /\ Natural(l) /\ Natural(a) /\ Natural(g)
      BY Balance, NaturalPlus
    <2>2. Becomes(i, w, t, Zero, l, a, g)
      BY <1>1, <1>4, Stays DEF Becomes
    <2>3. ASSUME NEW d \in Device PROVE w[d] + t[d] + Zero[d] + l[d] = a[d] + g[d]
      <3>1. w[d] = written[i][d] + batch[i][d]
        BY Balance, PlusType DEF Natural
      <3>2. /\ written[i][d] \in Nat /\ t[d] \in Nat /\ batch[i][d] \in Nat
            /\ l[d] \in Nat /\ a[d] \in Nat /\ g[d] \in Nat /\ Zero[d] = 0
            /\ written[i][d] + t[d] + batch[i][d] + l[d] = a[d] + g[d]
        BY Balance, ZeroType DEF Natural, Adds
      <3> HIDE DEF w
      <3> QED BY <3>1, <3>2
    <2>4. Adds(w, t, Zero, l, a, g)
      BY <2>3, Zenon DEF Adds
    <2> HIDE DEF w
    <2> QED BY <2>1, <2>2, <2>4, NaturalPlus, Rebalance
  <1> QED BY <1>2, <1>3, <1>4, Zenon DEF add_batch

LEMMA CountCrash ==
  ASSUME TypeInv, Conserved, NEW i \in Instance, Crash(i)
  PROVE  Conserved'
  <1> DEFINE u == Plus(tally[i], batch[i])
             x == Plus(lost[i], u)
             w == written[i]  a == added[i]  g == again[i]
  <1>1. Natural(u) /\ Natural(x) /\ Natural(w) /\ Natural(a) /\ Natural(g)
    BY Balance, NaturalPlus
  <1>2. Becomes(i, w, Zero, Zero, x, a, g)
    BY Stays DEF Crash, Becomes
  <1>3. ASSUME NEW d \in Device PROVE w[d] + Zero[d] + Zero[d] + x[d] = a[d] + g[d]
    <2>1. u[d] = tally[i][d] + batch[i][d]
      BY Balance, PlusType DEF Natural
    <2>2. x[d] = lost[i][d] + u[d]
      <3> HIDE DEF u
      <3> QED BY <1>1, Balance, PlusType DEF Natural
    <2>3. /\ w[d] \in Nat /\ tally[i][d] \in Nat /\ batch[i][d] \in Nat
          /\ lost[i][d] \in Nat /\ a[d] \in Nat /\ g[d] \in Nat /\ Zero[d] = 0
          /\ w[d] + tally[i][d] + batch[i][d] + lost[i][d] = a[d] + g[d]
      BY Balance, ZeroType DEF Natural, Adds
    <2> HIDE DEF u, x
    <2> QED BY <2>1, <2>2, <2>3
  <1>4. Adds(w, Zero, Zero, x, a, g)
    BY <1>3, Zenon DEF Adds
  <1> HIDE DEF x
  <1> QED BY <1>1, <1>2, <1>4, NaturalPlus, Rebalance

LEMMA SpareInit == UsageInit => Spare
  BY DEF UsageInit, Spare

LEMMA SpareStep == TypeInv /\ Spare /\ [UsageNext]_usageVars => Spare'
  <1> SUFFICES ASSUME TypeInv, Spare, [UsageNext]_usageVars PROVE Spare'
    OBVIOUS
  <1>1. /\ flusher \in [Instance -> FlushState]
        /\ batch \in [Instance -> [Device -> Nat]]
    BY DEF TypeInv, Flushers, Counters, Counts
  <1>2. CASE UNCHANGED <<batch, flusher>>
    BY <1>2 DEF Spare
  <1>3. ASSUME NEW i \in Instance, batch' = [batch EXCEPT ![i] = Zero],
               flusher' = [flusher EXCEPT ![i] = Idle]
        PROVE  Spare'
    BY <1>1, <1>3 DEF Spare
  <1>4. ASSUME NEW i \in Instance, take(i) PROVE Spare'
    BY <1>1, <1>4 DEF take, Spare
  <1>5. ASSUME NEW i \in Instance, monthly_salt(i) PROVE Spare'
    <2>1. CASE restore(i)
      BY <1>3, <2>1, Zenon DEF restore
    <2>2. CASE ~restore(i)
      <3>1. PICK s \in salts' :
              /\ flusher' = [flusher EXCEPT ![i] =
                               [at |-> "write", since |-> @.since, salt |-> s.salt]]
              /\ batch' = batch
        BY <1>5, <2>2 DEF monthly_salt
      <3> QED BY <1>1, <3>1 DEF Spare
    <2> QED BY <2>1, <2>2
  <1>6. ASSUME NEW i \in Instance, add_batch(i) \/ Crash(i) PROVE Spare'
    <2>1. batch' = [batch EXCEPT ![i] = Zero] /\ flusher' = [flusher EXCEPT ![i] = Idle]
      BY <1>6, Zenon DEF add_batch, restore, Crash
    <2> QED BY <1>3, <2>1, Zenon
  <1>7. ASSUME NEW i \in Instance, TryCleanup(i) \/ run_cleanup(i)
        PROVE  UNCHANGED <<batch, flusher>>
    BY <1>7 DEF TryCleanup, run_cleanup, flushVars
  <1>8. ASSUME NEW i \in Instance, NEW d \in Device, NEW n \in Amount, Count(i, d, n)
        PROVE  UNCHANGED <<batch, flusher>>
    BY <1>8 DEF Count
  <1>9. Midnight \/ UNCHANGED usageVars => UNCHANGED <<batch, flusher>>
    BY DEF Midnight, usageVars, flushVars
  <1>10. ASSUME NEW i \in Instance, UsageStep(i) PROVE Spare'
    BY <1>2, <1>4, <1>5, <1>6, <1>7, <1>10, Zenon DEF UsageStep
  <1> QED BY <1>2, <1>8, <1>9, <1>10, Zenon DEF UsageNext

LEMMA CountInit == UsageInit => Conserved
  <1> SUFFICES ASSUME UsageInit, NEW i \in Instance, NEW d \in Device
               PROVE  written[i][d] + tally[i][d] + batch[i][d] + lost[i][d]
                        = added[i][d] + again[i][d]
    BY DEF Conserved
  <1>1. /\ tally[i] = Zero /\ batch[i] = Zero /\ added[i] = Zero
        /\ written[i] = Zero /\ again[i] = Zero /\ lost[i] = Zero
    BY DEF UsageInit
  <1> QED BY <1>1, ZeroType

LEMMA CountStep ==
  TypeInv /\ Spare /\ Conserved /\ [UsageNext]_usageVars => Conserved'
  <1> SUFFICES ASSUME TypeInv, Spare, Conserved, [UsageNext]_usageVars PROVE Conserved'
    OBVIOUS
  <1>1. CASE UNCHANGED <<tally, batch, added, written, again, lost>>
    BY <1>1 DEF Conserved
  <1>2. ASSUME NEW i \in Instance, TryCleanup(i) \/ run_cleanup(i)
        PROVE  UNCHANGED <<tally, batch, added, written, again, lost>>
    BY <1>2 DEF TryCleanup, run_cleanup, flushVars
  <1>3. Midnight \/ UNCHANGED usageVars
          => UNCHANGED <<tally, batch, added, written, again, lost>>
    BY DEF Midnight, usageVars, flushVars
  <1>4. ASSUME NEW i \in Instance, monthly_salt(i) PROVE Conserved'
    <2>1. UNCHANGED <<added, written, again, lost>>
      BY <1>4 DEF monthly_salt
    <2>2. UNCHANGED <<tally, batch>> \/ restore(i)
      BY <1>4 DEF monthly_salt
    <2> QED BY <1>1, <2>1, <2>2, CountRestore, Zenon
  <1>5. ASSUME NEW i \in Instance, UsageStep(i) PROVE Conserved'
    BY <1>1, <1>2, <1>4, <1>5, CountTake, CountBatch, CountCrash, Zenon DEF UsageStep
  <1>6. ASSUME NEW i \in Instance, NEW d \in Device, NEW n \in Amount, Count(i, d, n)
        PROVE  Conserved'
    BY <1>6, CountCounts, UsageConstants
  <1> QED BY <1>1, <1>3, <1>5, <1>6, Zenon DEF UsageNext

\* Statistics are conserved: nothing is counted twice and nothing disappears
\* but where a lost answer or a crash makes it (usage.rs take, restore, flush).
THEOREM NothingMiscounted == UsageSpec => []Conserved
  BY TypeInit, TypeStep, SpareInit, SpareStep, CountInit, CountStep, PTL DEF UsageSpec

-----------------------------------------------------------------------------
(* The cleanup.                                                            *)

\* A cleanup that ended today without a failure has left nothing old.
CleanInv ==
    /\ lockedDay <= day
    /\ cleaner # {} => lockedDay = day
    /\ ticked /\ ~faulted => lockedDay = day
    /\ (lockedDay = day /\ ~faulted /\ cleaner = {}) =>
         \A r \in rows : day - r.day <= KeepDays
    /\ RowsExpire

LEMMA CleanInit == UsageInit => CleanInv
  BY DEF UsageInit, CleanInv, RowsExpire

\* Rows of today may be added.
LEMMA CleanKeeps ==
  ASSUME TypeInv, CleanInv, UNCHANGED cleanVars,
         \A r \in rows' : r \in rows \/ r.day = day
  PROVE  CleanInv'
  <1>1. UNCHANGED <<day, lockedDay, cleaner, ticked, faulted, missed>>
    BY DEF cleanVars
  <1>2. day \in Nat /\ KeepDays \in Nat /\ missed \in Nat
    BY UsageConstants DEF TypeInv, Stored, Cleaning
  <1>3. RowsExpire'
    BY <1>1, <1>2 DEF CleanInv, RowsExpire
  <1>4. (\A r \in rows : day - r.day <= KeepDays) => (\A r \in rows : day - r.day <= KeepDays)'
    BY <1>1, <1>2
  <1> QED BY <1>1, <1>3, <1>4 DEF CleanInv

LEMMA CleanTry == ASSUME TypeInv, CleanInv, NEW i \in Instance, TryCleanup(i) PROVE CleanInv'
  <1>1. UNCHANGED <<day, missed, rows>>
    BY DEF TryCleanup, flushVars
  <1>2. day \in Nat /\ lockedDay \in Nat
    BY DEF TypeInv, Stored, Cleaning
  <1>3. RowsExpire'
    BY <1>1 DEF CleanInv, RowsExpire
  <1>4. CASE lockedDay # day /\ lockedDay' = day /\ cleaner' = cleaner \union {i}
    BY <1>1, <1>2, <1>3, <1>4 DEF CleanInv
  <1>5. CASE lockedDay = day /\ UNCHANGED <<lockedDay, cleaner, faulted>>
    BY <1>1, <1>2, <1>3, <1>5 DEF CleanInv
  <1>6. CASE lockedDay' \in {lockedDay, day} /\ faulted' = TRUE /\ UNCHANGED cleaner
    BY <1>1, <1>2, <1>3, <1>6 DEF CleanInv
  <1> QED BY <1>4, <1>5, <1>6, Zenon DEF TryCleanup

LEMMA CleanRun == ASSUME TypeInv, CleanInv, NEW i \in Instance, run_cleanup(i) PROVE CleanInv'
  <1>1. UNCHANGED <<day, missed, lockedDay, ticked>>
    BY DEF run_cleanup
  <1>2. day \in Nat /\ KeepDays \in Nat
    BY UsageConstants DEF TypeInv, Stored
  <1>3. rows' \subseteq rows
    BY DEF run_cleanup
  <1>4. RowsExpire'
    BY <1>1, <1>3 DEF CleanInv, RowsExpire
  <1>5. lockedDay = day
    BY DEF run_cleanup, CleanInv
  <1>6. CASE rows' = {r \in rows : r.day >= day - KeepDays} /\ UNCHANGED faulted
    <2>1. \A r \in rows' : day - r.day <= KeepDays
      BY <1>2, <1>6 DEF TypeInv, Stored
    <2> QED BY <1>1, <1>2, <1>4, <1>5, <2>1 DEF CleanInv
  <1>7. CASE faulted' = TRUE
    BY <1>1, <1>2, <1>4, <1>5, <1>7 DEF CleanInv
  <1> QED BY <1>6, <1>7, Zenon DEF run_cleanup

LEMMA CleanCrash == ASSUME TypeInv, CleanInv, NEW i \in Instance, Crash(i) PROVE CleanInv'
  <1>1. UNCHANGED <<day, missed, lockedDay, ticked, rows>> /\ cleaner' = cleaner \ {i}
        /\ faulted' = (faulted \/ i \in cleaner)
    BY DEF Crash
  <1>2. RowsExpire'
    BY <1>1 DEF CleanInv, RowsExpire
  <1>3. CASE i \in cleaner
    <2>1. faulted' /\ lockedDay = day
      BY <1>1, <1>3, Zenon DEF CleanInv
    <2>2. day \in Nat
      BY DEF TypeInv, Stored
    <2> QED BY <1>1, <1>2, <2>1, <2>2 DEF CleanInv
  <1>4. CASE i \notin cleaner
    <2>1. faulted' <=> faulted
      BY <1>1, <1>4, Zenon
    <2>2. cleaner' = cleaner
      BY <1>1, <1>4
    <2> QED BY <1>1, <1>2, <2>1, <2>2 DEF CleanInv
  <1> QED BY <1>3, <1>4

LEMMA CleanMidnight == ASSUME TypeInv, CleanInv, Midnight PROVE CleanInv'
  <1>1. /\ ticked /\ cleaner = {} /\ day' = day + 1 /\ ~ticked'
        /\ missed' = (IF faulted THEN missed + 1 ELSE 0)
        /\ UNCHANGED <<lockedDay, cleaner, rows>>
    BY DEF Midnight, flushVars
  <1>2. day \in Nat /\ KeepDays \in Nat /\ missed \in Nat /\ lockedDay \in Nat
    BY UsageConstants DEF TypeInv, Stored, Cleaning
  <1>3. lockedDay' <= day' /\ lockedDay' # day'
    BY <1>1, <1>2 DEF CleanInv
  <1>4. RowsExpire'
    <2> SUFFICES ASSUME NEW r \in rows PROVE day' - r.day <= KeepDays + 1 + missed'
      BY <1>1 DEF RowsExpire
    <2>1. r.day \in Nat
      BY DEF TypeInv, Stored
    <2>2. CASE faulted
      <3>1. day - r.day <= KeepDays + 1 + missed
        BY DEF CleanInv, RowsExpire
      <3>2. missed' = missed + 1
        BY <1>1, <2>2
      <3> QED BY <1>1, <1>2, <2>1, <3>1, <3>2
    <2>3. CASE ~faulted
      <3>1. day - r.day <= KeepDays
        BY <1>1, <2>3 DEF CleanInv
      <3>2. missed' = 0
        BY <1>1, <2>3
      <3> QED BY <1>1, <1>2, <2>1, <3>1, <3>2
    <2> QED BY <2>2, <2>3
  <1> QED BY <1>1, <1>3, <1>4 DEF CleanInv

LEMMA CleanStep == TypeInv /\ CleanInv /\ [UsageNext]_usageVars => CleanInv'
  <1> SUFFICES ASSUME TypeInv, CleanInv, [UsageNext]_usageVars PROVE CleanInv'
    OBVIOUS
  <1>1. ASSUME NEW i \in Instance, take(i) \/ monthly_salt(i) \/ add_batch(i)
        PROVE  CleanInv'
    <2>1. UNCHANGED cleanVars
      BY <1>1 DEF take, monthly_salt, add_batch
    <2>2. rows' = rows \/ rows' = rows \union BatchRows(i)
      BY <1>1, Zenon DEF take, monthly_salt, add_batch
    <2>3. \A r \in BatchRows(i) : r.day = day
      BY DEF BatchRows
    <2> QED BY <2>1, <2>2, <2>3, CleanKeeps
  <1>2. ASSUME NEW i \in Instance, NEW d \in Device, NEW n \in Amount, Count(i, d, n)
        PROVE  CleanInv'
    BY <1>2, CleanKeeps DEF Count
  <1>3. CASE UNCHANGED usageVars
    BY <1>3, CleanKeeps DEF usageVars, flushVars
  <1>4. ASSUME NEW i \in Instance, UsageStep(i) PROVE CleanInv'
    BY <1>1, <1>4, CleanTry, CleanRun, CleanCrash, Zenon DEF UsageStep
  <1> QED BY <1>2, <1>3, <1>4, CleanMidnight, Zenon DEF UsageNext

\* Statistics expire: see RowsExpire (maintenance.rs spawn, run_cleanup).
THEOREM StatisticsExpire == UsageSpec => []RowsExpire
  <1>1. CleanInv => RowsExpire
    BY DEF CleanInv
  <1> QED BY <1>1, TypeInit, TypeStep, CleanInit, CleanStep, PTL DEF UsageSpec

-----------------------------------------------------------------------------
(* One hash for each device and day.                                       *)

\* The salt of month m is s.
SaltIs(m, s) == \E x \in salts : x.month = m /\ x.salt = s

\* A month has one salt; a flush in progress began today or yesterday and
\* writes under the salt of the month it began in.
SaltInv ==
    /\ \A x, y \in salts : x.month = y.month => x.salt = y.salt
    /\ \A i \in Instance : flusher[i].at # "idle" => flusher[i].since \in {day, day - 1}
    /\ \A i \in Instance :
         flusher[i].at = "write" => SaltIs(Month(flusher[i].since), flusher[i].salt)
    /\ \A r \in rows : ~FirstOfMonth(r.day) => SaltIs(Month(r.day), r.salt)

LEMMA SameMonth ==
  ASSUME NEW x \in Nat, ~FirstOfMonth(x)
  PROVE  x - 1 \in Nat /\ Month(x - 1) = Month(x)
  <1> DEFINE n == DaysPerMonth
             q == x \div n
             r == x % n
  <1>1. n \in Nat \ {0}
    BY UsageConstants
  <1>2. q \in Nat /\ r \in 0..(n - 1) /\ x = n * q + r /\ r # 0
    BY <1>1 DEF FirstOfMonth
  <1>3. x - 1 = n * q + (r - 1) /\ r - 1 \in 0..(n - 1)
    BY <1>1, <1>2
  <1>4. x - 1 \in Nat
    BY <1>1, <1>2
  <1>5. (x - 1) \div n = q
    BY <1>1, <1>2, <1>3, <1>4
  <1> QED BY <1>4, <1>5 DEF Month

LEMMA OneHash == TypeInv /\ SaltInv => OneHashPerDay
  <1> SUFFICES ASSUME TypeInv, SaltInv, NEW r \in rows, NEW s \in rows, r.day = s.day,
                      ~FirstOfMonth(r.day)
               PROVE  r.salt = s.salt
    BY DEF OneHashPerDay
  <1>1. SaltIs(Month(r.day), r.salt) /\ SaltIs(Month(r.day), s.salt)
    BY DEF SaltInv
  <1> QED BY <1>1 DEF SaltIs, SaltInv

LEMMA SaltInit == UsageInit => SaltInv
  BY DEF UsageInit, SaltInv, Idle

\* A new salt is for a month that had none, and all others stay.
LEMMA SaltGrows ==
  ASSUME SaltInv, NEW m, SetSalt(m)
  PROVE  /\ \A x, y \in salts' : x.month = y.month => x.salt = y.salt
         /\ \A n, t : SaltIs(n, t) => SaltIs(n, t)'
  <1>1. CASE salts' = salts
    BY <1>1 DEF SaltInv, SaltIs
  <1>2. CASE SaltOf(m) = {} /\ \E s \in Salt : salts' = salts \union {[month |-> m, salt |-> s]}
    <2>1. PICK s \in Salt : salts' = salts \union {[month |-> m, salt |-> s]}
      BY <1>2, Zenon
    <2>2. /\ \A x \in salts' : x \in salts \/ (x.month = m /\ x.salt = s)
          /\ salts \subseteq salts'
      BY <2>1
    <2>3. \A x \in salts : x.month # m
      BY <1>2 DEF SaltOf
    <2>4. \A x, y \in salts' : x.month = y.month => x.salt = y.salt
      BY <2>2, <2>3 DEF SaltInv
    <2>5. \A n, t : SaltIs(n, t) => SaltIs(n, t)'
      BY <2>2, Zenon DEF SaltIs
    <2> QED BY <2>4, <2>5, Zenon
  <1> QED BY <1>1, <1>2 DEF SetSalt

\* Flushes that end, and rows under the salt of their month.
LEMMA SaltKeeps ==
  ASSUME SaltInv, day' = day,
         \A x, y \in salts' : x.month = y.month => x.salt = y.salt,
         \A n, t : SaltIs(n, t) => SaltIs(n, t)',
         \A j \in Instance : flusher'[j] = flusher[j] \/ flusher'[j].at = "idle",
         \A r \in rows' : r \in rows \/ (~FirstOfMonth(r.day) => SaltIs(Month(r.day), r.salt))
  PROVE  SaltInv'
  <1>1. \A j \in Instance : flusher'[j].at # "idle" => flusher'[j].since \in {day', day' - 1}
    BY DEF SaltInv
  <1>2. ASSUME NEW j \in Instance, flusher'[j].at = "write"
        PROVE  SaltIs(Month(flusher[j].since), flusher[j].salt)'
    <2>1. flusher'[j] = flusher[j]
      BY <1>2
    <2>2. PICK n, t : n = Month(flusher[j].since) /\ t = flusher[j].salt
      OBVIOUS
    <2>3. SaltIs(n, t)
      BY <1>2, <2>1, <2>2 DEF SaltInv
    <2>4. SaltIs(n, t)'
      BY <2>3
    <2> QED BY <2>1, <2>2, <2>4
  <1>3. \A r \in rows' : ~FirstOfMonth(r.day) => SaltIs(Month(r.day), r.salt)'
    BY DEF SaltInv
  <1> QED BY <1>1, <1>2, <1>3 DEF SaltInv

\* A flush that ends leaves the others as they are.
LEMMA FlushEnds ==
  ASSUME TypeInv, NEW i \in Instance, flusher' = [flusher EXCEPT ![i] = Idle]
  PROVE  \A j \in Instance : flusher'[j] = flusher[j] \/ flusher'[j].at = "idle"
  <1>1. flusher \in [Instance -> FlushState]
    BY Zenon DEF TypeInv, Flushers
  <1>2. \A j \in Instance : flusher'[j] = IF j = i THEN Idle ELSE flusher[j]
    BY <1>1
  <1>3. Idle.at = "idle"
    BY DEF Idle
  <1> QED BY <1>2, <1>3, Zenon

LEMMA SaltTake == ASSUME TypeInv, SaltInv, NEW i \in Instance, take(i) PROVE SaltInv'
  <1>1. /\ flusher' = [flusher EXCEPT ![i] = [at |-> "salt", since |-> day, salt |-> None]]
        /\ UNCHANGED <<day, salts, rows>>
    BY DEF take, cleanVars
  <1>2. flusher \in [Instance -> FlushState]
    BY DEF TypeInv, Flushers
  <1>3. \A j \in Instance : flusher'[j].at # "idle" => flusher'[j].since \in {day', day' - 1}
    BY <1>1, <1>2 DEF SaltInv
  <1>4. \A j \in Instance : flusher'[j].at = "write" => flusher'[j] = flusher[j]
    BY <1>1, <1>2
  <1> QED BY <1>1, <1>3, <1>4 DEF SaltInv, SaltIs

LEMMA SaltAsk == ASSUME TypeInv, SaltInv, NEW i \in Instance, monthly_salt(i) PROVE SaltInv'
  <1> DEFINE m == Month(flusher[i].since)
  <1>1. flusher \in [Instance -> FlushState]
    BY DEF TypeInv, Flushers
  <1>2. day' = day /\ rows' = rows
    BY DEF monthly_salt, cleanVars
  <1>3. SetSalt(m) \/ salts' = salts
    BY DEF monthly_salt
  <1>4. /\ \A x, y \in salts' : x.month = y.month => x.salt = y.salt
        /\ \A n, t : SaltIs(n, t) => SaltIs(n, t)'
    <2>1. CASE salts' = salts
      <3>1. \A n, t : SaltIs(n, t) => SaltIs(n, t)'
        BY <2>1, Zenon DEF SaltIs
      <3> QED BY <2>1, <3>1, Zenon DEF SaltInv
    <2> HIDE DEF m
    <2> QED BY <1>3, <2>1, SaltGrows
  <1>5. CASE restore(i)
    <2>1. \A j \in Instance : flusher'[j] = flusher[j] \/ flusher'[j].at = "idle"
      <3>1. flusher' = [flusher EXCEPT ![i] = Idle]
        BY <1>5, Zenon DEF restore
      <3> QED BY <3>1, FlushEnds, Zenon
    <2>2. \A r \in rows' : r \in rows
      BY <1>2, Zenon
    <2> QED BY <1>2, <1>4, <2>1, <2>2, SaltKeeps, Zenon
  <1>6. CASE ~restore(i)
    <2>1. PICK s \in salts' :
            /\ s.month = m
            /\ flusher' = [flusher EXCEPT ![i] =
                             [at |-> "write", since |-> @.since, salt |-> s.salt]]
      BY <1>6 DEF monthly_salt
    <2>2. /\ flusher'[i].at = "write" /\ flusher'[i].since = flusher[i].since
          /\ flusher'[i].salt = s.salt
          /\ \A j \in Instance \ {i} : flusher'[j] = flusher[j]
      BY <1>1, <2>1
    <2>3. flusher[i].at # "idle"
      BY DEF monthly_salt
    <2>4. \A j \in Instance : flusher'[j].at # "idle" => flusher'[j].since \in {day', day' - 1}
      BY <1>2, <2>2, <2>3 DEF SaltInv
    <2>5. ASSUME NEW j \in Instance, flusher'[j].at = "write"
          PROVE  SaltIs(Month(flusher[j].since), flusher[j].salt)'
      <3>1. CASE j = i
        <4>1. Month(flusher[j].since)' = s.month /\ flusher'[j].salt = s.salt
          BY <2>1, <2>2, <3>1 DEF Month
        <4> QED BY <2>1, <4>1 DEF SaltIs
      <3>2. CASE j # i
        <4>1. flusher'[j] = flusher[j]
          BY <2>2, <3>2
        <4>2. PICK n, t : n = Month(flusher[j].since) /\ t = flusher[j].salt
          OBVIOUS
        <4>3. SaltIs(n, t)
          BY <2>5, <4>1, <4>2 DEF SaltInv
        <4>4. SaltIs(n, t)'
          BY <1>4, <4>3
        <4> QED BY <4>1, <4>2, <4>4 DEF Month
      <3> QED BY <3>1, <3>2
    <2>6. \A r \in rows' : ~FirstOfMonth(r.day) => SaltIs(Month(r.day), r.salt)'
      BY <1>2, <1>4 DEF SaltInv
    <2> QED BY <1>4, <2>4, <2>5, <2>6 DEF SaltInv
  <1> QED BY <1>5, <1>6

LEMMA SaltBatch == ASSUME TypeInv, SaltInv, NEW i \in Instance, add_batch(i) PROVE SaltInv'
  <1>1. /\ flusher \in [Instance -> FlushState] /\ day \in Nat
        /\ flusher[i] \in FlushState
    BY DEF TypeInv, Flushers, Stored
  <1>2. day' = day /\ salts' = salts /\ flusher' = [flusher EXCEPT ![i] = Idle]
    BY Zenon DEF add_batch, restore, cleanVars
  <1>3. \A j \in Instance : flusher'[j] = flusher[j] \/ flusher'[j].at = "idle"
    BY <1>2, FlushEnds, Zenon
  <1>4. ASSUME ~FirstOfMonth(day) PROVE SaltIs(Month(day), flusher[i].salt)
    <2>1. flusher[i].at = "write" /\ flusher[i].at # "idle"
      <3>1. flusher[i].at = "write"
        BY Zenon DEF add_batch
      <3> QED BY <3>1
    <2>2. /\ flusher[i].since \in {day, day - 1}
          /\ SaltIs(Month(flusher[i].since), flusher[i].salt)
      BY <2>1, Zenon DEF SaltInv
    <2>3. Month(day - 1) = Month(day)
      BY <1>1, <1>4, SameMonth, Zenon
    <2>4. flusher[i].since = day \/ flusher[i].since = day - 1
      BY <2>2
    <2> QED BY <2>2, <2>3, <2>4, Zenon
  <1>5. \A r \in BatchRows(i) : r.day = day /\ r.salt = flusher[i].salt
    BY DEF BatchRows
  <1>6. rows' = rows \/ rows' = rows \union BatchRows(i)
    BY Zenon DEF add_batch
  <1>7. \A r \in rows' : r \in rows \/ (~FirstOfMonth(r.day) => SaltIs(Month(r.day), r.salt))
    <2>1. \A r \in rows' : r \in rows \/ r \in BatchRows(i)
      BY <1>6
    <2>2. ASSUME NEW r \in BatchRows(i), ~FirstOfMonth(r.day)
          PROVE  SaltIs(Month(r.day), r.salt)
      BY <1>4, <1>5, <2>2, Zenon
    <2> QED BY <2>1, <2>2, Zenon
  <1>8. \A x, y \in salts' : x.month = y.month => x.salt = y.salt
    BY <1>2, Zenon DEF SaltInv
  <1>9. \A n, t : SaltIs(n, t) => SaltIs(n, t)'
    BY <1>2, Zenon DEF SaltIs
  <1> QED BY <1>2, <1>3, <1>7, <1>8, <1>9, SaltKeeps, Zenon

LEMMA SaltMidnight == ASSUME TypeInv, SaltInv, Midnight PROVE SaltInv'
  <1>1. /\ day' = day + 1 /\ UNCHANGED <<flusher, salts, rows>>
        /\ \A i \in Instance : flusher[i] # Idle => flusher[i].since = day
    BY DEF Midnight, flushVars
  <1>2. day \in Nat
    BY DEF TypeInv, Stored
  <1>3. \A i \in Instance : flusher'[i].at # "idle" => flusher'[i].since \in {day', day' - 1}
    BY <1>1, <1>2 DEF Idle
  <1> QED BY <1>1, <1>3 DEF SaltInv, SaltIs

LEMMA SaltStep == TypeInv /\ SaltInv /\ [UsageNext]_usageVars => SaltInv'
  <1> SUFFICES ASSUME TypeInv, SaltInv, [UsageNext]_usageVars PROVE SaltInv'
    OBVIOUS
  <1>1. ASSUME day' = day, salts' = salts, rows' \subseteq rows,
               \A j \in Instance : flusher'[j] = flusher[j] \/ flusher'[j].at = "idle"
        PROVE  SaltInv'
    <2>1. \A x, y \in salts' : x.month = y.month => x.salt = y.salt
      BY <1>1, Zenon DEF SaltInv
    <2>2. \A n, t : SaltIs(n, t) => SaltIs(n, t)'
      BY <1>1, Zenon DEF SaltIs
    <2>3. \A r \in rows' : r \in rows
      BY <1>1, Zenon
    <2> QED BY <1>1, <2>1, <2>2, <2>3, SaltKeeps, Zenon
  <1>2. ASSUME NEW i \in Instance, TryCleanup(i) \/ run_cleanup(i) PROVE SaltInv'
    <2>1. UNCHANGED <<day, salts, flusher>> /\ rows' \subseteq rows
      BY <1>2 DEF TryCleanup, run_cleanup, flushVars
    <2> QED BY <1>1, <2>1
  <1>3. ASSUME NEW i \in Instance, Crash(i) PROVE SaltInv'
    <2>1. UNCHANGED <<day, salts, rows>> /\ flusher' = [flusher EXCEPT ![i] = Idle]
      BY <1>3, Zenon DEF Crash
    <2>2. \A j \in Instance : flusher'[j] = flusher[j] \/ flusher'[j].at = "idle"
      BY <2>1, FlushEnds, Zenon
    <2> QED BY <1>1, <2>1, <2>2
  <1>4. ASSUME NEW i \in Instance, NEW d \in Device, NEW n \in Amount, Count(i, d, n)
        PROVE  SaltInv'
    BY <1>1, <1>4 DEF Count, cleanVars
  <1>5. CASE UNCHANGED usageVars
    BY <1>1, <1>5 DEF usageVars, flushVars, cleanVars
  <1>6. ASSUME NEW i \in Instance, UsageStep(i) PROVE SaltInv'
    BY <1>2, <1>3, <1>6, SaltTake, SaltAsk, SaltBatch, Zenon DEF UsageStep
  <1> QED BY <1>4, <1>5, <1>6, SaltMidnight, Zenon DEF UsageNext

\* All instances write a device under one hash on any day but the first of a
\* month (monthly_salt in usage.rs).
THEOREM HashesAgree == UsageSpec => []OneHashPerDay
  BY TypeInit, TypeStep, SaltInit, SaltStep, OneHash, PTL DEF UsageSpec

\* So the statistics keep what Usage promises, with frames as traffic
\* (usage.rs, maintenance.rs).
THEOREM StatisticsKept == Spec => [](Conserved /\ OneHashPerDay /\ RowsExpire)
  BY InboundCounts, NothingMiscounted, HashesAgree, StatisticsExpire, PTL

=============================================================================
