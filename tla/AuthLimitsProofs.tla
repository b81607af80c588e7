-------------------------- MODULE AuthLimitsProofs --------------------------
(***************************************************************************)
(* Proofs about the limits of Auth: a device that waits as long as         *)
(* Retry-After says has waited out the window it was refused in, the       *)
(* address that is counted is the client's, the two limits of              *)
(* registrations agree, and no more registrations succeed than they allow. *)
(*                                                                         *)
(* The number of registrations that were granted is no state of the code;  *)
(* LimitsInv relates the requests that hold a slot to the counter that     *)
(* each of them raised, and SlotsInv the counters to each other.           *)
(***************************************************************************)
EXTENDS AuthProofs, FiniteSetTheorems

USE SMTT(60)

\* Whole seconds from any clock read t on, rounded up, reach past the window of
\* an earlier read (rate_limit_decision, check_registration).
LEMMA RetryReaches ==
  ASSUME NEW length \in {Minute, Hour}, NEW start \in Nat, NEW t \in Nat,
         now \in Nat, start <= t, t <= now
  PROVE  RetryAt(length, t) >= (start \div length + 1) * length
  <1>1. length \in Nat \ {0} /\ Second \in Nat \ {0}
    BY AuthConstants
  <1>2. /\ t = (t \div length) * length + (t % length)
        /\ t % length \in 0..(length - 1)
        /\ t \div length \in Nat /\ start \div length \in Nat
    BY <1>1
  <1>3. start \div length <= t \div length
    BY <1>1
  <1> DEFINE x == length - (t % length)
             secs == (x + Second - 1) \div Second
             k == IF secs = 0 THEN 1 ELSE secs
  <1>4. x \in Nat \ {0}
    BY <1>1, <1>2
  <1> HIDE DEF x
  <1>5. secs * Second >= x /\ secs \in Nat
    BY <1>1, <1>4
  <1> HIDE DEF secs
  <1>6. k * Second >= x /\ k \in Nat
    BY <1>1, <1>4, <1>5
  <1> HIDE DEF k
  <1>7. k * Second \in Nat
    BY <1>1, <1>6
  <1> DEFINE q == t \div length
             p == start \div length
  <1>8. q * length + length >= p * length + length
    <2> HIDE DEF q, p
    <2>1. q \in Nat /\ p \in Nat /\ p <= q
      BY <1>2, <1>3 DEF q, p
    <2> QED BY <1>1, <2>1
  <1>9. q * length \in Nat /\ p * length \in Nat /\ (p + 1) * length = p * length + length
    <2> HIDE DEF q, p
    <2>1. q \in Nat /\ p \in Nat
      BY <1>2 DEF q, p
    <2> QED BY <1>1, <2>1
  <1>10. now + k * Second >= q * length + length
    <2> DEFINE m == t % length
               ql == q * length
               ks == k * Second
    <2>1. t = ql + m /\ m \in Nat /\ ql \in Nat /\ ks \in Nat
      BY <1>2, <1>7, <1>9
    <2>2. x = length - m /\ ks >= x
      BY <1>6 DEF x
    <2> HIDE DEF m, ql, ks
    <2>3. now + ks >= ql + length
      BY <1>1, <2>1, <2>2
    <2> QED BY <2>3 DEF ql, ks
  <1>11. RetryAt(length, t) = now + k * Second
    BY DEF RetryAt, k, secs, x
  <1>12. now + k * Second >= (p + 1) * length
    <2> DEFINE ql == q * length
               pl == p * length
               ks == k * Second
    <2>1. ql + length >= pl + length /\ now + ks >= ql + length /\ (p + 1) * length = pl + length
          /\ ql \in Nat /\ pl \in Nat /\ ks \in Nat
      BY <1>7, <1>8, <1>9, <1>10
    <2> HIDE DEF ql, pl, ks
    <2>2. now + ks >= pl + length
      BY <1>1, <2>1
    <2> QED BY <2>1, <2>2 DEF ks
  <1> QED BY <1>11, <1>12

\* What a request may rely on: its clock read lies in the past, a refusal says
\* long enough, and only a registration that passed the limits, or that found
\* its device, goes on to upsert.
RequestOk(h) ==
    req[h] # None =>
      /\ req[h].start <= now
      /\ (req[h].at = "done" /\ req[h].answer = "limited") =>
           LET length == IF req[h].op = "register" THEN Hour ELSE Minute
           IN  req[h].retry >= (req[h].start \div length + 1) * length
      /\ req[h].at \in {"known", "limit"} => ~req[h].counted
      /\ (req[h].at = "upsert" /\ ~req[h].counted)
           => req[h].device \in devices \union removed
      /\ (req[h].at = "done" /\ req[h].answer = "created" /\ ~req[h].counted)
           => req[h].device \in removed

\* The registrations from bucket b that were counted in window w.
Slots(b, w) ==
    {h \in Request : /\ req[h] # None /\ req[h].op = "register" /\ req[h].counted
                     /\ Window(h) = w /\ ip_bucket[IpOf(h)] = b}

\* Each of them raised the counter of its bucket.
SlotsCounted(b, w) ==
    /\ CountOf(RegKey(b, w)) \in Nat
    /\ CountOf(RegKey(b, w)) <= RegPerIp
    /\ IsFiniteSet(Slots(b, w))
    /\ Cardinality(Slots(b, w)) <= CountOf(RegKey(b, w))

GlobalCounted(w) ==
    CountOf(GlobalRegKey(w)) \in Nat /\ CountOf(GlobalRegKey(w)) <= RegGlobal

LimitsInv ==
    /\ \A h \in Request : RequestOk(h)
    /\ \A w : GlobalCounted(w)
    /\ \A b, w : SlotsCounted(b, w)

LEMMA InitLimits == Init => LimitsInv
  <1> SUFFICES ASSUME Init PROVE LimitsInv
    OBVIOUS
  <1>1. \A h \in Request : req[h] = None
    BY DEF Init
  <1>2. \A k : CountOf(k) = 0
    BY DEF Init, CountOf
  <1>3. ASSUME NEW b, NEW w PROVE SlotsCounted(b, w)
    <2>1. Slots(b, w) = {}
      BY <1>1 DEF Slots
    <2> QED BY <1>2, <2>1, FS_EmptySet, AuthConstants DEF SlotsCounted
  <1>4. \A w : GlobalCounted(w)
    BY <1>2, AuthConstants DEF GlobalCounted
  <1> QED BY <1>1, <1>3, <1>4 DEF LimitsInv, RequestOk

\* The counters of registrations are not touched.
SameSlots == \A b, w : /\ CountOf(RegKey(b, w))' = CountOf(RegKey(b, w))
                       /\ CountOf(GlobalRegKey(w))' = CountOf(GlobalRegKey(w))

\* Keys of different limits are different keys.
LEMMA OtherKeys ==
  ASSUME NEW b, NEW w, NEW c, NEW v, NEW ip
  PROVE  /\ RegKey(b, w) = RegKey(c, v) => b = c /\ w = v
         /\ GlobalRegKey(w) = GlobalRegKey(v) => w = v
         /\ RegKey(b, w) # GlobalRegKey(v)
         /\ RegKey(b, w) # AuthKey(ip, v) /\ GlobalRegKey(w) # AuthKey(ip, v)
         /\ RegKey(b, w) # ChallengeKey(c, ip, v) /\ GlobalRegKey(w) # ChallengeKey(c, ip, v)
  BY DEF RegKey, GlobalRegKey, AuthKey, ChallengeKey

LEMMA IncrCount ==
  ASSUME NEW S, counts' = Incr(S), NEW k
  PROVE  CountOf(k)' = IF k \in S THEN CountOf(k) + 1 ELSE CountOf(k)
  BY DEF Incr, CountOf

\* A step of request h keeps the limits if it leaves their counters alone and
\* takes no request out of its slot or into one.
LEMMA QuietLimits ==
  ASSUME TokenInv, LimitsInv, NEW h \in Request, req[h] # None, Kept(h),
         req'[h].counted = req[h].counted,
         req[h].counted => req'[h].start = req[h].start \/ req[h].op # "register",
         RequestOk(h)', SameSlots, now' = now,
         devices \union removed \subseteq devices' \union removed', removed \subseteq removed'
  PROVE  LimitsInv'
  <1>1. ASSUME NEW g \in Request PROVE RequestOk(g)'
    <2>1. CASE g # h
      <3>1. req'[g] = req[g] /\ RequestOk(g)
        BY <2>1 DEF Kept, LimitsInv
      <3> QED BY <3>1 DEF RequestOk
    <2> QED BY <2>1
  <1>2. ASSUME NEW b, NEW w PROVE Slots(b, w)' = Slots(b, w)
    <2>1. ASSUME NEW g \in Request PROVE g \in Slots(b, w)' <=> g \in Slots(b, w)
      <3>1. CASE g # h
        <4>1. req'[g] = req[g]
          BY <3>1 DEF Kept
        <4> QED BY <4>1 DEF Slots, Window, IpOf, Hops
      <3>2. CASE g = h
        <4>1. /\ req'[h] # None /\ req'[h].op = req[h].op
              /\ req'[h].peer = req[h].peer /\ req'[h].header = req[h].header
            BY NoRequest DEF Kept
        <4> QED BY <3>2, <4>1 DEF Slots, Window, IpOf, Hops
      <3> QED BY <3>1, <3>2
    <2>2. Slots(b, w) \subseteq Request /\ Slots(b, w)' \subseteq Request
      BY DEF Slots
    <2> QED BY <2>1, <2>2
  <1>3. ASSUME NEW b, NEW w PROVE SlotsCounted(b, w)'
    BY <1>2 DEF SlotsCounted, SameSlots, LimitsInv
  <1>4. ASSUME NEW w PROVE GlobalCounted(w)'
    BY DEF GlobalCounted, SameSlots, LimitsInv
  <1> QED BY <1>1, <1>3, <1>4 DEF LimitsInv

LEMMA GoLimits ==
  ASSUME TokenInv, LimitsInv, NEW h \in Request, req[h] # None, NEW at \in Working,
         Go(h, at), at # "known",
         at = "quota" => req[h].op # "register",
         at = "limit" => ~req[h].counted,
         at = "upsert" => req[h].device \in devices,
         SameSlots, UNCHANGED <<now, devices, removed>>
  PROVE  LimitsInv'
  <1>1. TypeOK /\ RequestOk(h) /\ req[h] \in RequestState
    BY DEF TokenInv, LimitsInv, TypeOK
  <1>2. /\ Kept(h) /\ req'[h].at = at /\ req'[h].counted = req[h].counted
        /\ req'[h].start = IF at \in {"quota", "limit"} THEN now ELSE req[h].start
    BY <1>1, GoState
  <1>3. req'[h].start <= now
    BY <1>1, <1>2 DEF TypeOK, RequestOk
  <1>4. RequestOk(h)'
    BY <1>2, <1>3 DEF RequestOk, Kept, Working
  <1> QED BY <1>2, <1>4, QuietLimits

LEMMA AnswerLimits ==
  ASSUME TokenInv, LimitsInv, NEW h \in Request, req[h] # None, NEW code \in Code,
         Answer(h, code), code # "limited",
         code = "created" => req[h].counted \/ req[h].device \in removed',
         SameSlots, now' = now,
         devices \union removed \subseteq devices' \union removed', removed \subseteq removed'
  PROVE  LimitsInv'
  <1>1. TypeOK /\ RequestOk(h)
    BY DEF TokenInv, LimitsInv
  <1>2. /\ Kept(h) /\ req'[h].at = "done" /\ req'[h].answer = code
        /\ req'[h].counted = req[h].counted /\ req'[h].start = req[h].start
    BY <1>1, AnswerState
  <1>3. RequestOk(h)'
    BY <1>1, <1>2 DEF RequestOk, Kept
  <1> QED BY <1>2, <1>3, QuietLimits

LEMMA RefuseLimits ==
  ASSUME TokenInv, LimitsInv, NEW h \in Request, req[h] # None, NEW t \in req[h].start..now,
         Refuse(h, IF req[h].op = "register" THEN Hour ELSE Minute, t),
         SameSlots, UNCHANGED <<now, devices, removed>>
  PROVE  LimitsInv'
  <1> DEFINE length == IF req[h].op = "register" THEN Hour ELSE Minute
  <1>1. TypeOK /\ RequestOk(h) /\ req[h] \in RequestState
    BY DEF TokenInv, LimitsInv, TypeOK
  <1>2. now \in Nat /\ req[h].start \in Nat /\ length \in {Minute, Hour}
    BY <1>1 DEF TypeOK, RequestState
  <1>3. t \in Nat /\ req[h].start <= t /\ t <= now
    BY <1>2
  <1>4. Refuse(h, length, t)
    OBVIOUS
  <1> HIDE DEF length
  <1>5. /\ Kept(h) /\ req'[h].at = "done" /\ req'[h].answer = "limited"
        /\ req'[h].counted = req[h].counted /\ req'[h].start = req[h].start
        /\ req'[h].retry = RetryAt(length, t)
    BY <1>1, <1>2, <1>3, <1>4, RefuseState
  <1>6. req'[h].retry >= (req'[h].start \div length + 1) * length
    BY <1>2, <1>3, <1>5, RetryReaches
  <1>7. RequestOk(h)'
    BY <1>1, <1>5, <1>6 DEF RequestOk, Kept, length
  <1> QED BY <1>5, <1>7, QuietLimits

LEMMA CountLimits ==
  ASSUME TokenInv, LimitsInv, NEW h \in Request, req[h] # None, req[h].op # "register",
         NEW k, \A b, w : k # RegKey(b, w) /\ k # GlobalRegKey(w),
         NEW limit, NEW then \in {"take", "quota", "find"},
         count_minute(h, k, limit, then)
  PROVE  LimitsInv'
  <1>1. counts' = Incr({k}) \/ counts' = counts
    BY Zenon DEF count_minute
  <1>2. SameSlots
    <2>1. CASE counts' = counts
      BY <2>1 DEF SameSlots, CountOf
    <2>2. CASE counts' = Incr({k})
      BY <2>2, IncrCount DEF SameSlots
    <2> QED BY <1>1, <2>1, <2>2
  <1>3. UNCHANGED <<now, devices, removed>>
    BY Zenon DEF count_minute
  <1>4. CASE Go(h, then)
    <2>1. then \in Working
      BY DEF Working
    <2> QED BY <1>2, <1>3, <1>4, <2>1, GoLimits
  <1>5. CASE \E t \in req[h].start..now : Refuse(h, Minute, t)
    BY <1>2, <1>3, <1>5, RefuseLimits
  <1>6. CASE Answer(h, "error")
    <2>1. "error" \in Code
      BY DEF Code
    <2> QED BY <1>2, <1>3, <1>6, <2>1, AnswerLimits
  <1> QED BY <1>4, <1>5, <1>6, Zenon DEF count_minute

LEMMA OneMore ==
  ASSUME NEW S, IsFiniteSet(S), NEW x, NEW T, T \subseteq S \union {x}
  PROVE  IsFiniteSet(T) /\ Cardinality(T) \in Nat /\ Cardinality(T) <= Cardinality(S) + 1
  <1>1. Cardinality(S) \in Nat
    BY FS_CardinalityType
  <1>2. /\ IsFiniteSet(S \union {x})
        /\ Cardinality(S \union {x}) = IF x \in S THEN Cardinality(S) ELSE Cardinality(S) + 1
    BY FS_AddElement
  <1>3. IsFiniteSet(T) /\ Cardinality(T) <= Cardinality(S \union {x})
    BY <1>2, FS_Subset
  <1>4. Cardinality(T) \in Nat
    BY <1>3, FS_CardinalityType
  <1> QED BY <1>1, <1>2, <1>3, <1>4

\* The script: a registration takes a slot of its bucket, and raises the two
\* counters, only while both are below their limits.
LEMMA RegistrationLimits ==
  ASSUME TokenInv, LimitsInv, NEW h \in Request, check_registration(h)
  PROVE  LimitsInv'
  <1>1. /\ TypeOK /\ RequestOk(h) /\ req[h] # None /\ req[h].op = "register"
        /\ req[h].at = "limit" /\ ~req[h].counted /\ req[h] \in RequestState
    BY DEF TokenInv, LimitsInv, check_registration, At, OwnSteps, OwnStep, TypeOK, RequestOk
  <1>2. UNCHANGED <<now, devices, removed>>
    BY DEF check_registration
  <1> DEFINE w == Window(h)
             b == ip_bucket[IpOf(h)]
  <1>3. \/ Counted(h) = {}
        \/ /\ Counted(h) = {GlobalRegKey(w), RegKey(b, w)}
           /\ CountOf(GlobalRegKey(w)) < RegGlobal /\ CountOf(RegKey(b, w)) < RegPerIp
    <2>1. CountOf(GlobalRegKey(w)) \in Nat /\ CountOf(RegKey(b, w)) \in Nat
      BY DEF LimitsInv, GlobalCounted, SlotsCounted
    <2>2. RegGlobal \in Nat /\ RegPerIp \in Nat
      BY AuthConstants
    <2> QED BY <2>1, <2>2 DEF Counted, RegKeys
  <1> HIDE DEF w, b
  <1>4. ASSUME SameSlots PROVE Answer(h, "error") \/ Refuse(h, Hour, req[h].start) => LimitsInv'
    <2>1. CASE Answer(h, "error")
      <3>1. "error" \in Code
        BY DEF Code
      <3> QED BY <1>1, <1>2, <1>4, <2>1, <3>1, AnswerLimits
    <2>2. CASE Refuse(h, Hour, req[h].start)
      <3>1. req[h].start \in req[h].start..now
        BY <1>1 DEF RequestState, TypeOK, RequestOk
      <3> QED BY <1>1, <1>2, <1>4, <2>2, <3>1, RefuseLimits
    <2> QED BY <2>1, <2>2
  <1>5. CASE counts' = counts \/ (counts' = Incr(Counted(h)) /\ Counted(h) = {})
    <2>1. SameSlots
      BY <1>5, IncrCount DEF SameSlots, CountOf
    <2>2. RegKeys(h) # {}
      BY DEF RegKeys
    <2>3. Answer(h, "error") \/ Refuse(h, Hour, req[h].start)
      <3>1. CASE counts' = Incr(Counted(h)) /\ Counted(h) = {}
        BY <2>2, <3>1, Zenon DEF check_registration
      <3>2. CASE counts' = counts /\ ~(counts' = Incr(Counted(h)))
        BY <3>2, Zenon DEF check_registration
      <3>3. CASE counts' = counts /\ counts' = Incr(Counted(h)) /\ Counted(h) # {}
        <4>1. PICK c, v : c = b /\ v = w
          OBVIOUS
        <4>2. RegKey(c, v) \in Counted(h)
          BY <1>3, <3>3, <4>1
        <4>3. CountOf(RegKey(c, v))' = CountOf(RegKey(c, v)) + 1
          BY <3>3, <4>2, IncrCount
        <4>4. CountOf(RegKey(c, v)) \in Nat
          BY DEF LimitsInv, SlotsCounted
        <4> QED BY <2>1, <4>3, <4>4 DEF SameSlots
      <3> QED BY <1>5, <3>1, <3>2, <3>3
    <2> QED BY <1>4, <2>1, <2>3
  <1>6. CASE counts' = Incr(Counted(h)) /\ Counted(h) # {}
    <2>1. ASSUME NEW c, NEW v
          PROVE  /\ CountOf(GlobalRegKey(v))' =
                      CountOf(GlobalRegKey(v)) + (IF v = w THEN 1 ELSE 0)
                 /\ CountOf(RegKey(c, v))' =
                      CountOf(RegKey(c, v)) + (IF c = b /\ v = w THEN 1 ELSE 0)
      <3>1. CountOf(GlobalRegKey(v)) \in Nat /\ CountOf(RegKey(c, v)) \in Nat
        BY DEF LimitsInv, GlobalCounted, SlotsCounted
      <3>2. /\ GlobalRegKey(v) \in Counted(h) <=> v = w
            /\ RegKey(c, v) \in Counted(h) <=> c = b /\ v = w
        BY <1>3, <1>6, OtherKeys
      <3> QED BY <1>6, <3>1, <3>2, IncrCount
    <2>8. CountOf(GlobalRegKey(w)) < RegGlobal /\ CountOf(RegKey(b, w)) < RegPerIp
      BY <1>3, <1>6
    <2>2. ASSUME NEW v PROVE GlobalCounted(v)'
      <3> DEFINE n == CountOf(GlobalRegKey(v))
      <3>1. n \in Nat /\ n <= RegGlobal /\ RegGlobal \in Nat
        BY AuthConstants DEF LimitsInv, GlobalCounted
      <3>2. n' = n + (IF v = w THEN 1 ELSE 0)
        BY <2>1
      <3>3. v = w => n < RegGlobal
        BY <2>8
      <3> HIDE DEF n
      <3>4. n' \in Nat /\ n' <= RegGlobal
        BY <3>1, <3>2, <3>3
      <3> QED BY <3>4 DEF GlobalCounted, n
    <2>3. /\ Kept(h) /\ req'[h].at \in {"upsert", "done"} /\ req'[h].start = req[h].start
          /\ req'[h].at = "upsert" => req'[h].counted
          /\ req'[h].at = "done" => req'[h].answer = "error" /\ ~req'[h].counted
      <3>1. CASE Answer(h, "error")
        <4>1. "error" \in Code
          BY DEF Code
        <4>2. /\ Kept(h) /\ req'[h].at = "done" /\ req'[h].answer = "error"
              /\ req'[h].counted = req[h].counted /\ req'[h].start = req[h].start
          BY <1>1, <3>1, <4>1, AnswerState
        <4> QED BY <1>1, <4>2, Zenon
      <3>2. CASE Admitted(h)
        <4>1. /\ Kept(h) /\ req'[h].at = "upsert"
              /\ req'[h].counted = TRUE /\ req'[h].start = req[h].start
          BY <1>1, <3>2, AdmittedState, Zenon
        <4> QED BY <4>1
      <3>3. Counted(h) = RegKeys(h)
        BY <1>6 DEF Counted
      <3> QED BY <3>1, <3>2, <3>3 DEF check_registration, Admitted
    <2>4. RequestOk(h)'
      BY <1>1, <1>2, <2>3 DEF RequestOk, Kept
    <2>5. ASSUME NEW g \in Request PROVE RequestOk(g)'
      <3>1. CASE g # h
        <4>1. req'[g] = req[g] /\ RequestOk(g)
          BY <2>3, <3>1 DEF Kept, LimitsInv
        <4> QED BY <1>2, <4>1 DEF RequestOk
      <3> QED BY <2>4, <3>1
    <2>6. ASSUME NEW c, NEW v
          PROVE  Slots(c, v)' \subseteq Slots(c, v) \union (IF c = b /\ v = w THEN {h} ELSE {})
      <3> SUFFICES ASSUME NEW g \in Slots(c, v)', g \notin Slots(c, v)
                   PROVE  g = h /\ c = b /\ v = w
        OBVIOUS
      <3>1. g \in Request
        BY DEF Slots
      <3>2. g = h
        <4>1. CASE g # h
          <5>1. req'[g] = req[g]
            BY <2>3, <3>1, <4>1 DEF Kept
          <5> QED BY <3>1, <5>1 DEF Slots, Window, IpOf, Hops
        <4> QED BY <4>1
      <3>3. Window(h)' = w /\ ip_bucket[IpOf(h)]' = b
        BY <2>3 DEF Kept, Window, IpOf, Hops, w, b
      <3> QED BY <3>2, <3>3 DEF Slots
    <2>7. ASSUME NEW c, NEW v PROVE SlotsCounted(c, v)'
      <3> DEFINE S == Slots(c, v)
                 T == Slots(c, v)'
                 n == CountOf(RegKey(c, v))
      <3>1. n \in Nat /\ n <= RegPerIp /\ IsFiniteSet(S) /\ Cardinality(S) <= n
        BY DEF LimitsInv, SlotsCounted
      <3>2. Cardinality(S) \in Nat
        BY <3>1, FS_CardinalityType
      <3>3. CASE c = b /\ v = w
        <4>1. n < RegPerIp /\ n' = n + 1
          <5>1. n < RegPerIp
            BY <2>8, <3>3
          <5>2. n' = n + (IF c = b /\ v = w THEN 1 ELSE 0)
            BY <2>1
          <5> HIDE DEF n
          <5> QED BY <3>3, <5>1, <5>2
        <4>2. T \subseteq S \union {h}
          BY <2>6, <3>3
        <4> HIDE DEF S, T, n
        <4>3. IsFiniteSet(T) /\ Cardinality(T) \in Nat /\ Cardinality(T) <= Cardinality(S) + 1
          BY <3>1, <4>2, OneMore
        <4>4. n' \in Nat /\ n' <= RegPerIp /\ Cardinality(T) <= n'
          BY <3>1, <3>2, <4>1, <4>3, AuthConstants
        <4> QED BY <4>3, <4>4 DEF SlotsCounted, T, n
      <3>4. CASE ~(c = b /\ v = w)
        <4>1. n' = n
          BY <2>1, <3>1, <3>4
        <4>2. T \subseteq S
          BY <2>6, <3>4
        <4>3. IsFiniteSet(T) /\ Cardinality(T) <= Cardinality(S)
          BY <3>1, <4>2, FS_Subset
        <4>4. Cardinality(T) \in Nat
          BY <4>3, FS_CardinalityType
        <4> HIDE DEF S, T, n
        <4>5. n' \in Nat /\ n' <= RegPerIp /\ Cardinality(T) <= n'
          BY <3>1, <3>2, <4>1, <4>3, <4>4, AuthConstants
        <4> QED BY <4>3, <4>5 DEF SlotsCounted, T, n
      <3> QED BY <3>3, <3>4
    <2> QED BY <2>2, <2>5, <2>7 DEF LimitsInv
  <1> QED BY <1>5, <1>6 DEF check_registration

\* The other steps of a request.
LEMMA PlainLimits ==
  ASSUME TokenInv, LimitsInv, NEW h \in Request,
         \/ find_key(h) \/ put(h) \/ take(h) \/ check_token_proof(h) \/ issue(h)
         \/ register(h) \/ upsert(h) \/ Fails(h)
  PROVE  LimitsInv'
  <1>1. /\ req[h] # None /\ OwnSteps(h) /\ RequestOk(h) /\ now' = now /\ counts' = counts
        /\ UNCHANGED removed
        /\ devices' = devices \/ devices' = devices \union {req[h].device}
    BY Zenon DEF TokenInv, LimitsInv, find_key, put, take, check_token_proof, issue,
                 register, upsert, Fails, At
  <1>2. SameSlots
    BY <1>1 DEF SameSlots, CountOf
  <1>3. devices \union removed \subseteq devices' \union removed' /\ removed \subseteq removed'
    BY <1>1
  <1>4. ASSUME NEW code \in Code \ {"limited", "created"}, Answer(h, code) PROVE LimitsInv'
    BY <1>1, <1>2, <1>3, <1>4, AnswerLimits
  <1>5. {"ok", "expired", "unknown", "signature", "error", "updated"} \subseteq Code \ {"limited", "created"}
        /\ "created" \in Code /\ {"put", "key", "issue", "upsert", "limit"} \subseteq Working
    BY DEF Code, Working
  <1>6. ASSUME NEW at \in {"put", "key", "issue"}, Go(h, at), devices' = devices
        PROVE  LimitsInv'
    BY <1>1, <1>2, <1>5, <1>6, GoLimits
  <1>7. CASE find_key(h)
    BY <1>4, <1>5, <1>6, <1>7, Zenon DEF find_key
  <1>8. CASE put(h)
    BY <1>4, <1>5, <1>8, Zenon DEF put
  <1>9. CASE take(h)
    BY <1>4, <1>5, <1>6, <1>9, Zenon DEF take
  <1>10. CASE check_token_proof(h)
    BY <1>4, <1>5, <1>6, <1>10, Zenon DEF check_token_proof
  <1>11. CASE issue(h) \/ Fails(h)
    BY <1>4, <1>5, <1>11, Zenon DEF issue, Fails
  <1>12. CASE register(h)
    <2>1. ~req[h].counted /\ devices' = devices
      <3>1. req[h].at = "known" /\ devices' = devices
        BY <1>12, Zenon DEF register, At
      <3>2. req[h].at \in {"known", "limit"}
        BY <3>1
      <3> QED BY <1>1, <3>1, <3>2, Zenon DEF RequestOk
    <2>2. CASE Answer(h, "signature")
      BY <1>4, <1>5, <2>2
    <2>3. CASE Go(h, "limit")
      BY <1>1, <1>2, <1>5, <2>1, <2>3, GoLimits
    <2>4. CASE req[h].device \in devices /\ Go(h, "upsert")
      BY <1>1, <1>2, <1>5, <2>1, <2>4, GoLimits
    <2> QED BY <1>12, <2>2, <2>3, <2>4, Zenon DEF register
  <1>13. CASE upsert(h)
    <2>1. CASE Answer(h, "updated")
      BY <1>4, <1>5, <2>1
    <2>2. CASE req[h].device \notin devices /\ Answer(h, "created")
      <3>1. req[h].counted \/ req[h].device \in removed'
        <4>1. req[h].at = "upsert" /\ removed' = removed
          BY <1>13, Zenon DEF upsert, At
        <4>2. ~req[h].counted => req[h].device \in devices \union removed
          BY <1>1, <4>1, Zenon DEF RequestOk
        <4> QED BY <2>2, <4>1, <4>2
      <3> QED BY <1>1, <1>2, <1>3, <1>5, <2>2, <3>1, AnswerLimits
    <2> QED BY <1>13, <2>1, <2>2, Zenon DEF upsert
  <1> QED BY <1>7, <1>8, <1>9, <1>10, <1>11, <1>12, <1>13

LEMMA MinuteLimits ==
  ASSUME TokenInv, LimitsInv, NEW h \in Request, check_auth_ip(h) \/ check_challenge_quota(h)
  PROVE  LimitsInv'
  <1>1. req[h] # None /\ OwnStep(req[h].op, req[h].at)
    BY Zenon DEF TokenInv, OwnSteps, check_auth_ip, check_challenge_quota, At
  <1>2. CASE check_auth_ip(h)
    <2> DEFINE k == AuthKey(IpOf(h), Window(h))
               then == IF req[h].op = "token" THEN "take" ELSE "quota"
    <2>1. req[h].at = "auth_ip" /\ count_minute(h, k, AuthPerIp, then)
      BY <1>2, Zenon DEF check_auth_ip, At
    <2>2. req[h].op # "register"
      BY <1>1, <2>1 DEF OwnStep
    <2>3. \A b, w : k # RegKey(b, w) /\ k # GlobalRegKey(w)
      BY OtherKeys
    <2>4. then \in {"take", "quota", "find"}
      OBVIOUS
    <2> HIDE DEF k, then
    <2> QED BY <1>1, <2>1, <2>2, <2>3, <2>4, CountLimits
  <1>3. CASE check_challenge_quota(h)
    <2> DEFINE k == ChallengeKey(req[h].device, IpOf(h), Window(h))
    <2>1. req[h].at = "quota" /\ count_minute(h, k, ChallengesPerDevice, "find")
      BY <1>3, Zenon DEF check_challenge_quota, At
    <2>2. req[h].op # "register"
      BY <1>1, <2>1 DEF OwnStep
    <2>3. \A b, w : k # RegKey(b, w) /\ k # GlobalRegKey(w)
      BY OtherKeys
    <2> HIDE DEF k
    <2> QED BY <1>1, <2>1, <2>2, <2>3, CountLimits
  <1> QED BY <1>2, <1>3, Zenon

\* Steps in which no request moves.
LEMMA OutsideLimits ==
  ASSUME TokenInv, LimitsInv, req' = req, counts' = counts, now' \in Nat, now <= now',
         devices \union removed \subseteq devices' \union removed', removed \subseteq removed'
  PROVE  LimitsInv'
  <1>1. ASSUME NEW g \in Request PROVE RequestOk(g)'
    <2>1. RequestOk(g) /\ now \in Nat /\ (req[g] # None => req[g].start \in Nat)
      <3>1. RequestOk(g) /\ now \in Nat /\ req \in [Request -> RequestState \union {None}]
        BY Zenon DEF LimitsInv, TokenInv, TypeOK
      <3> QED BY <3>1 DEF RequestState
    <2>2. req[g] # None => req[g].start <= now'
      BY <2>1 DEF RequestOk
    <2> QED BY <2>1, <2>2 DEF RequestOk
  <1>2. \A b, w : Slots(b, w)' = Slots(b, w)
    BY DEF Slots, Window, IpOf, Hops
  <1>3. \A k : CountOf(k)' = CountOf(k)
    BY DEF CountOf
  <1> QED BY <1>1, <1>2, <1>3 DEF LimitsInv, SlotsCounted, GlobalCounted

LEMMA ArriveLimits ==
  ASSUME TokenInv, LimitsInv, NEW h \in Request, NEW op \in {"challenge", "token", "register"},
         NEW d, NEW peer, NEW header, NEW v, NEW proof,
         Arrive(h, op, d, peer, header, v, proof)
  PROVE  LimitsInv'
  <1> DEFINE at == IF op = "register" THEN "known" ELSE "auth_ip"
             r == [op |-> op, device |-> d, peer |-> peer, header |-> header,
                   value |-> v, proof |-> proof, at |-> at,
                   start |-> now, counted |-> FALSE, answer |-> None, retry |-> 0]
  <1>1. /\ req' = [req EXCEPT ![h] = r] /\ req[h] = None
        /\ UNCHANGED <<now, devices, counts, removed>>
    BY Zenon DEF Arrive
  <1>2. at \in {"known", "auth_ip"} /\ now \in Nat /\ DOMAIN req = Request
    BY DEF TokenInv, TypeOK
  <1>3. r.start = now /\ r.counted = FALSE /\ r.at = at
    OBVIOUS
  <1> HIDE DEF r, at
  <1>4. req'[h] = r /\ \A g \in Request \ {h} : req'[g] = req[g]
    BY <1>1, <1>2
  <1>5. ASSUME NEW g \in Request PROVE RequestOk(g)'
    <2>1. CASE g # h
      <3>1. req'[g] = req[g] /\ RequestOk(g)
        BY <1>4, <2>1 DEF LimitsInv
      <3> QED BY <1>1, <3>1 DEF RequestOk
    <2>2. CASE g = h
      BY <1>1, <1>2, <1>3, <1>4, <2>2 DEF RequestOk
    <2> QED BY <2>1, <2>2
  <1>6. ASSUME NEW b, NEW w PROVE Slots(b, w)' = Slots(b, w)
    <2>1. ASSUME NEW g \in Request PROVE g \in Slots(b, w)' <=> g \in Slots(b, w)
      <3>1. CASE g # h
        <4>1. req'[g] = req[g]
          BY <1>4, <3>1
        <4> QED BY <4>1 DEF Slots, Window, IpOf, Hops
      <3>2. CASE g = h
        BY <1>1, <1>3, <1>4, <3>2 DEF Slots
      <3> QED BY <3>1, <3>2
    <2>2. Slots(b, w) \subseteq Request /\ Slots(b, w)' \subseteq Request
      BY DEF Slots
    <2> QED BY <2>1, <2>2
  <1>7. \A k : CountOf(k)' = CountOf(k)
    BY <1>1 DEF CountOf
  <1> QED BY <1>5, <1>6, <1>7 DEF LimitsInv, SlotsCounted, GlobalCounted

LEMMA StepLimits == TokenInv /\ LimitsInv /\ [Next]_vars => LimitsInv'
  <1> SUFFICES ASSUME TokenInv, LimitsInv, [Next]_vars PROVE LimitsInv'
    OBVIOUS
  <1>1. ASSUME NEW h \in Request, Step(h) PROVE LimitsInv'
    BY <1>1, PlainLimits, MinuteLimits, RegistrationLimits, Zenon DEF Step
  <1>2. ASSUME NEW h \in Request, NEW op \in {"challenge", "token", "register"},
               NEW d, NEW peer, NEW header, NEW v, NEW proof,
               Arrive(h, op, d, peer, header, v, proof)
        PROVE  LimitsInv'
    BY <1>2, ArriveLimits, Zenon
  <1>3. now \in Nat
    BY DEF TokenInv, TypeOK
  <1>4. ASSUME NEW d \in Device, Delete(d) PROVE LimitsInv'
    <2>1. /\ devices' = devices \ {d} /\ removed' = removed \union {d}
          /\ UNCHANGED <<now, req, counts>>
      BY <1>4 DEF Delete
    <2>2. devices \union removed \subseteq devices' \union removed' /\ removed \subseteq removed'
      BY <2>1
    <2> QED BY <1>3, <2>1, <2>2, OutsideLimits
  <1>5. CASE Tick
    <2>1. now' = now + 1 /\ UNCHANGED <<devices, removed, req, counts>>
      BY <1>5 DEF Tick
    <2> QED BY <1>3, <2>1, OutsideLimits
  <1>6. CASE UNCHANGED vars
    <2>1. UNCHANGED <<now, devices, removed, req, counts>>
      BY <1>6 DEF vars
    <2> QED BY <1>3, <2>1, OutsideLimits
  <1> QED BY <1>1, <1>2, <1>4, <1>5, <1>6, Zenon DEF Next

\* A client that waits as long as Retry-After says meets a new window, whenever
\* the clock was read and however long Redis took (rate_limit_decision,
\* check_registration).
THEOREM RetryAlwaysSuffices == Spec => []RetrySuffices
  <1>1. LimitsInv => RetrySuffices
    BY DEF LimitsInv, RequestOk, RetrySuffices, At, Window
  <1> QED BY <1>1, InitToken, StepToken, InitLimits, StepLimits, PTL DEF Spec

-----------------------------------------------------------------------------
(* The client address.                                                     *)

\* Induction over the naturals, for a set of them: what is not in it would
\* have a least element.
LEMMA NatSet ==
  ASSUME NEW S, 0 \in S, \A n \in Nat : n \in S => n + 1 \in S
  PROVE  \A n \in Nat : n \in S
  <1> DEFINE T == Nat \ S
             R == OpToRel(<, Nat)
  <1> SUFFICES ASSUME T # {} PROVE FALSE
    OBVIOUS
  <1>1. T \subseteq Nat
    OBVIOUS
  <1>2. IsWellFoundedOn(R, Nat)
    BY NatLessThanWellFounded, Zenon
  <1>3. \A x, y \in Nat : <<x, y>> \in R <=> x < y
    BY DEF OpToRel
  <1>4. PICK x \in T : \A y \in T : <<y, x>> \notin R
    <2> HIDE DEF R, T
    <2> QED BY <1>1, <1>2, WFMin, Zenon
  <1> HIDE DEF R
  <1>5. x \in Nat /\ x # 0 /\ x - 1 \in Nat
    OBVIOUS
  <1>6. x - 1 \in T
    BY <1>5
  <1>7. ~(x - 1 < x)
    BY <1>3, <1>4, <1>5, <1>6, Zenon
  <1> QED BY <1>5, <1>7

\* The walk of client_ip over the last n hops of the header.
Walks(peer, hops, n, s) ==
    s = [k \in 0..n |->
           LET last == IF k = Len(hops) THEN to_canonical[peer] ELSE to_canonical[hops[k + 1]]
           IN  IF ~is_trusted(last) \/ k = 0 \/ hops[k] = Bad THEN last ELSE s[k - 1]]

LEMMA WalkExists == \A peer, hops : \A n \in Nat : \E s : Walks(peer, hops, n, s)
  <1> SUFFICES ASSUME NEW peer, NEW hops PROVE \A n \in Nat : \E s : Walks(peer, hops, n, s)
    OBVIOUS
  <1> DEFINE S == {n \in Nat : \E s : Walks(peer, hops, n, s)}
             at(k) == IF k = Len(hops) THEN to_canonical[peer] ELSE to_canonical[hops[k + 1]]
             stop(k) == ~is_trusted(at(k)) \/ k = 0 \/ hops[k] = Bad
  <1>0. ASSUME NEW n, NEW s
        PROVE  Walks(peer, hops, n, s)
                 <=> s = [k \in 0..n |-> IF stop(k) THEN at(k) ELSE s[k - 1]]
    BY Zenon DEF Walks
  <1>4. stop(0)
    OBVIOUS
  <1> HIDE DEF at, stop
  <1>1. 0 \in S
    <2> DEFINE t == [k \in 0..0 |-> at(0)]
    <2>1. t = [k \in 0..0 |-> IF stop(k) THEN at(k) ELSE t[k - 1]]
      BY <1>4
    <2>2. Walks(peer, hops, 0, t)
      <3> HIDE DEF t
      <3> QED BY <1>0, <2>1, Zenon
    <2> QED BY <2>2
  <1>2. ASSUME NEW n \in Nat, n \in S PROVE n + 1 \in S
    <2>1. PICK s : Walks(peer, hops, n, s)
      BY <1>2, Zenon
    <2>2. s = [k \in 0..n |-> IF stop(k) THEN at(k) ELSE s[k - 1]]
      BY <1>0, <2>1, Zenon
    <2> DEFINE t == [k \in 0..(n + 1) |-> IF stop(k) THEN at(k) ELSE s[k - 1]]
    <2>3. \A k \in 0..n : t[k] = s[k]
      BY <2>2
    <2>4. \A k \in 0..(n + 1) : ~stop(k) => t[k - 1] = s[k - 1]
      <3> HIDE DEF t
      <3>1. ASSUME NEW k \in 0..(n + 1), ~stop(k) PROVE k - 1 \in 0..n
        BY <1>4, <3>1
      <3> QED BY <2>3, <3>1, Zenon
    <2>5. t = [k \in 0..(n + 1) |-> IF stop(k) THEN at(k) ELSE t[k - 1]]
      BY <2>4
    <2>6. Walks(peer, hops, n + 1, t)
      <3> HIDE DEF t
      <3> QED BY <1>0, <2>5, Zenon
    <2> QED BY <2>6
  <1>3. \A n \in Nat : n \in S
    <2> HIDE DEF S
    <2> QED BY <1>1, <1>2, NatSet, Zenon
  <1> QED BY <1>3

LEMMA ClientIpIs ==
  ASSUME NEW peer, NEW hops, Len(hops) \in Nat
  PROVE  \E s : Walks(peer, hops, Len(hops), s) /\ client_ip(peer, hops) = s[Len(hops)]
  <1> DEFINE s == CHOOSE s : Walks(peer, hops, Len(hops), s)
  <1>1. Walks(peer, hops, Len(hops), s)
    BY WalkExists, Zenon
  <1>2. client_ip(peer, hops) = s[Len(hops)]
    BY DEF client_ip, Walks
  <1> HIDE DEF s
  <1> QED BY <1>1, <1>2, Zenon

\* From an entry that only trusted proxies stand right of, the walk ends at the
\* leftmost such entry.
LEMMA WalkEnds ==
  ASSUME NEW h, req[h].peer # Bad, Len(Hops(h)) \in Nat,
         NEW s, Walks(req[h].peer, Hops(h), Len(Hops(h)), s)
  PROVE  \E k \in Vouched(h) : /\ \A j \in Vouched(h) : k <= j
                               /\ s[Len(Hops(h))] = to_canonical[Hop(h, k)]
  <1>0. PICK n \in Nat : n = Len(Hops(h))
    OBVIOUS
  <1> DEFINE hops == Hops(h)
             V == Vouched(h)
             ip(k) == to_canonical[Hop(h, k)]
             End(k) == \E m \in V : (\A j \in V : m <= j) /\ s[k] = ip(m)
             S == {k \in Nat : k \in V => End(k)}
  <1>1. ASSUME NEW k
        PROVE  k \in V <=> /\ k \in 0..n /\ Hop(h, k) # Bad
                           /\ \A j \in (k + 1)..n : Hop(h, j) # Bad /\ is_trusted(ip(j))
    BY <1>0, Zenon DEF Vouched
  <1>2. V \subseteq 0..n
    BY <1>1, Zenon
  <1>3. ASSUME NEW k \in 0..n
        PROVE  s[k] = IF ~is_trusted(ip(k)) \/ k = 0 \/ hops[k] = Bad THEN ip(k) ELSE s[k - 1]
    <2>1. ip(k) = IF k = n THEN to_canonical[req[h].peer] ELSE to_canonical[hops[k + 1]]
      BY <1>0 DEF Hop
    <2> HIDE DEF ip
    <2> QED BY <1>0, <2>1, Zenon DEF Walks
  <1>4. ASSUME NEW k \in Nat, k < n PROVE Hop(h, k) = hops[k + 1]
    BY <1>0, <1>4 DEF Hop
  <1>5. n \in V
    <2>1. Hop(h, n) # Bad /\ n \in 0..n /\ (n + 1)..n = {}
      BY <1>0 DEF Hop
    <2> QED BY <1>1, <2>1, Zenon
  <1> HIDE DEF V, hops, ip
  <1>6. 0 \in S
    <2>1. CASE 0 \in V
      <3>1. s[0] = ip(0) /\ \A j \in V : 0 <= j
        BY <1>2, <1>3
      <3> QED BY <2>1, <3>1
    <2> QED BY <2>1
  <1>7. ASSUME NEW k \in Nat, k \in S PROVE k + 1 \in S
    <2> SUFFICES ASSUME k + 1 \in V PROVE End(k + 1)
      OBVIOUS
    <2>1. k + 1 \in 0..n /\ k < n /\ k \in 0..n /\ k + 1 \in (k + 1)..n
      BY <1>2
    <2>2. Hop(h, k) = hops[k + 1]
      BY <1>4, <2>1
    <2>3. CASE ~is_trusted(ip(k + 1)) \/ hops[k + 1] = Bad
      <3>1. s[k + 1] = ip(k + 1)
        BY <1>3, <2>1, <2>3, Zenon
      <3>2. ASSUME NEW j \in V, j < k + 1 PROVE FALSE
        <4>1. j \in 0..n /\ k + 1 \in (j + 1)..n /\ (j = k \/ k \in (j + 1)..n)
          BY <1>2, <2>1, <3>2
        <4> QED BY <1>1, <2>2, <2>3, <4>1, Zenon
      <3>3. \A j \in V : k + 1 <= j
        BY <1>2, <3>2
      <3> QED BY <3>1, <3>3, Zenon
    <2>4. CASE is_trusted(ip(k + 1)) /\ hops[k + 1] # Bad
      <3>1. \A j \in (k + 1)..n : j = k + 1 \/ j \in ((k + 1) + 1)..n
        BY <2>1
      <3>2. k \in V
        BY <1>1, <2>1, <2>2, <2>4, <3>1, Zenon
      <3>3. s[k + 1] = s[k]
        BY <1>3, <2>1, <2>4
      <3>4. End(k)
        BY <1>7, <3>2
      <3> QED BY <3>3, <3>4, Zenon
    <2> QED BY <2>3, <2>4, Zenon
  <1>8. n \in S
    <2> HIDE DEF S
    <2> QED BY <1>6, <1>7, NatSet, Zenon
  <1>9. End(n)
    BY <1>5, <1>8, Zenon
  <1> QED BY <1>0, <1>9, Zenon DEF V, ip

\* What is read of X-Forwarded-For is a list of entries.
LEMMA HopsType ==
  ASSUME TypeOK, NEW h \in Request, req[h] # None
  PROVE  /\ req[h].peer \in Addr
         /\ Hops(h) \in Seq(Addr \union {Bad}) /\ Len(Hops(h)) \in Nat
  <1>1. req[h].peer \in Addr /\ req[h].header \in Seq(Line)
    BY DEF TypeOK, RequestState
  <1>2. req[h].header # <<>> => req[h].header[1] \in Line
    BY <1>1
  <1>3. Hops(h) \in Seq(Addr \union {Bad})
    BY <1>2 DEF Hops, forwarded, Line
  <1> QED BY <1>1, <1>3

\* The walk over the header of any request that has its type.
LEMMA TypedAddress == TypeOK => ClientAddress
  <1>1. ASSUME TypeOK PROVE ClientAddress
    <2> SUFFICES ASSUME NEW h \in Request, req[h] # None
                 PROVE  \E k \in Vouched(h) : /\ \A j \in Vouched(h) : k <= j
                                              /\ IpOf(h) = to_canonical[Hop(h, k)]
      BY Zenon DEF ClientAddress
    <2>1. req[h].peer \in Addr /\ Len(Hops(h)) \in Nat
      BY <1>1, HopsType, Zenon
    <2>2. req[h].peer # Bad
      BY <2>1, AuthConstants
    <2>3. PICK s : /\ Walks(req[h].peer, Hops(h), Len(Hops(h)), s)
                   /\ client_ip(req[h].peer, Hops(h)) = s[Len(Hops(h))]
      BY <2>1, ClientIpIs, Zenon
    <2>4. PICK k \in Vouched(h) : /\ \A j \in Vouched(h) : k <= j
                                  /\ s[Len(Hops(h))] = to_canonical[Hop(h, k)]
      BY <2>1, <2>2, <2>3, WalkEnds, Zenon
    <2> QED BY <2>3, <2>4, Zenon DEF IpOf
  <1> QED BY <1>1

\* For headers of any number of lines and entries and any trusted proxies: the
\* address a limit counts is the nearest one that is no trusted proxy, or the
\* farthest trusted one, among the peer and the entries of the first line of
\* X-Forwarded-For, or the peer alone if that line cannot be read (request_ip,
\* client_ip).
THEOREM LimitsCountTheClient == Spec => []ClientAddress
  BY TypedAddress, AuthTypeCorrect, PTL

-----------------------------------------------------------------------------
(* The two registration limits.                                            *)

\* The sums of f over the subsets of S with at most n elements.
Small(S, n) == {T \in SUBSET S : Cardinality(T) <= n}

First(T) == CHOOSE b \in T : TRUE

SumsOf(f, D, s) ==
    s = [T \in D |-> IF T = {} THEN 0 ELSE f[First(T)] + s[T \ {First(T)}]]

LEMMA FirstOut ==
  ASSUME NEW S, IsFiniteSet(S), NEW T \in SUBSET S, T # {}
  PROVE  /\ First(T) \in T /\ T \ {First(T)} \in SUBSET S
         /\ IsFiniteSet(T) /\ Cardinality(T) \in Nat
         /\ Cardinality(T \ {First(T)}) \in Nat
         /\ Cardinality(T) = Cardinality(T \ {First(T)}) + 1
  <1>1. First(T) \in T
    BY DEF First
  <1>2. IsFiniteSet(T)
    BY FS_Subset
  <1>3. /\ Cardinality(T) \in Nat /\ IsFiniteSet(T \ {First(T)})
        /\ Cardinality(T \ {First(T)}) = Cardinality(T) - 1
    BY <1>1, <1>2, FS_RemoveElement, FS_CardinalityType
  <1>4. Cardinality(T \ {First(T)}) \in Nat
    BY <1>3, FS_CardinalityType
  <1> QED BY <1>1, <1>2, <1>3, <1>4

LEMMA SumsExist ==
  ASSUME NEW S, IsFiniteSet(S), NEW f
  PROVE  \A n \in Nat : \E s : SumsOf(f, Small(S, n), s)
  <1> DEFINE N == {n \in Nat : \E s : SumsOf(f, Small(S, n), s)}
  <1>1. 0 \in N
    <2>1. \A T \in Small(S, 0) : T = {}
      <3> SUFFICES ASSUME NEW T \in Small(S, 0), T # {} PROVE FALSE
        OBVIOUS
      <3>1. T \in SUBSET S /\ Cardinality(T) <= 0
        BY DEF Small
      <3>2. Cardinality(T \ {First(T)}) \in Nat /\ Cardinality(T) = Cardinality(T \ {First(T)}) + 1
        BY <3>1, FirstOut, Zenon
      <3> QED BY <3>1, <3>2
    <2>2. SumsOf(f, Small(S, 0), [T \in Small(S, 0) |-> 0])
      BY <2>1 DEF SumsOf
    <2> QED BY <2>2
  <1>2. ASSUME NEW n \in Nat, n \in N PROVE n + 1 \in N
    <2>1. PICK s : SumsOf(f, Small(S, n), s)
      BY <1>2, Zenon
    <2> DEFINE D == Small(S, n + 1)
               t == [T \in D |-> IF T = {} THEN 0 ELSE f[First(T)] + s[T \ {First(T)}]]
    <2>2. ASSUME NEW T \in Small(S, n) PROVE T \in D
      <3>1. T \in SUBSET S /\ IsFiniteSet(T)
        BY FS_Subset DEF Small
      <3>2. Cardinality(T) \in Nat /\ Cardinality(T) <= n
        BY <3>1, FS_CardinalityType DEF Small
      <3> QED BY <3>1, <3>2 DEF Small
    <2>3. \A T \in Small(S, n) : t[T] = s[T]
      <3> HIDE DEF D
      <3> QED BY <2>1, <2>2, Zenon DEF SumsOf
    <2>4. ASSUME NEW T \in D, T # {} PROVE T \ {First(T)} \in Small(S, n)
      <3>1. T \in SUBSET S /\ Cardinality(T) <= n + 1
        BY DEF Small
      <3>2. /\ T \ {First(T)} \in SUBSET S /\ Cardinality(T \ {First(T)}) \in Nat
            /\ Cardinality(T) = Cardinality(T \ {First(T)}) + 1
        BY <2>4, <3>1, FirstOut
      <3>3. Cardinality(T \ {First(T)}) <= n
        BY <3>1, <3>2
      <3> QED BY <3>2, <3>3, Zenon DEF Small
    <2>5. t = [T \in D |-> IF T = {} THEN 0 ELSE f[First(T)] + t[T \ {First(T)}]]
      <3>1. \A T \in D : T # {} => t[T \ {First(T)}] = s[T \ {First(T)}]
        <4> HIDE DEF t, D
        <4> QED BY <2>3, <2>4, Zenon
      <3> DEFINE u(T) == IF T = {} THEN 0 ELSE f[First(T)] + s[T \ {First(T)}]
                 v(T) == IF T = {} THEN 0 ELSE f[First(T)] + t[T \ {First(T)}]
      <3>2. t = [T \in D |-> u(T)]
        BY Zenon
      <3> HIDE DEF t, D
      <3>3. \A T \in D : u(T) = v(T)
        BY <3>1, Zenon
      <3>4. t = [T \in D |-> v(T)]
        <4> HIDE DEF u, v
        <4> QED BY <3>2, <3>3
      <3> QED BY <3>4, Zenon
    <2>6. SumsOf(f, D, t)
      <3> HIDE DEF t, D
      <3> QED BY <2>5, Zenon DEF SumsOf
    <2> QED BY <2>6
  <1>3. \A n \in Nat : n \in N
    <2> HIDE DEF N
    <2> QED BY <1>1, <1>2, NatSet, Zenon
  <1> QED BY <1>3

\* The sum of a set is that of one element and the rest.
Adds(f, S, s) ==
    /\ s[{}] = 0
    /\ \A T \in SUBSET S : T # {} => /\ First(T) \in S
                                     /\ s[T] = f[First(T)] + s[T \ {First(T)}]

LEMMA TotalIs ==
  ASSUME NEW S, IsFiniteSet(S), NEW f
  PROVE  \E s : Adds(f, S, s) /\ Total(f, S) = s[S]
  <1>1. Small(S, Cardinality(S)) = SUBSET S
    BY FS_Subset DEF Small
  <1>2. \E s : SumsOf(f, SUBSET S, s)
    <2>1. Cardinality(S) \in Nat
      BY FS_CardinalityType, Zenon
    <2>2. \E s : SumsOf(f, Small(S, Cardinality(S)), s)
      BY <2>1, SumsExist, Zenon
    <2> QED BY <1>1, <2>2, Zenon
  <1> DEFINE s == CHOOSE s : SumsOf(f, SUBSET S, s)
  <1>3. SumsOf(f, SUBSET S, s)
    BY <1>2, Zenon
  <1>4. Total(f, S) = s[S]
    BY DEF Total, MapThenFoldSet, SumsOf, First
  <1> HIDE DEF s
  <1>5. s[{}] = 0
    BY <1>3 DEF SumsOf
  <1>6. ASSUME NEW T \in SUBSET S, T # {} PROVE s[T] = f[First(T)] + s[T \ {First(T)}]
    BY <1>3, <1>6, Zenon DEF SumsOf
  <1>7. ASSUME NEW T \in SUBSET S, T # {} PROVE First(T) \in S
    BY <1>7 DEF First
  <1>8. Adds(f, S, s)
    BY <1>5, <1>6, <1>7, Zenon DEF Adds
  <1> QED BY <1>4, <1>8, Zenon

\* Induction over the subsets of S, along the elements that the sum takes.
LEMMA SubsetSet ==
  ASSUME NEW S, IsFiniteSet(S), NEW X, {} \in X,
         \A T \in SUBSET S : T # {} /\ T \ {First(T)} \in X => T \in X
  PROVE  S \in X
  <1> DEFINE N == {n \in Nat : \A T \in SUBSET S : Cardinality(T) = n => T \in X}
  <1>1. 0 \in N
    <2> SUFFICES ASSUME NEW T \in SUBSET S, Cardinality(T) = 0 PROVE T \in X
      OBVIOUS
    <2>1. IsFiniteSet(T)
      BY FS_Subset, Zenon
    <2>2. T = {}
      BY <2>1, FS_EmptySet, Zenon
    <2> QED BY <2>2
  <1>2. ASSUME NEW n \in Nat, n \in N PROVE n + 1 \in N
    <2> SUFFICES ASSUME NEW T \in SUBSET S, Cardinality(T) = n + 1 PROVE T \in X
      OBVIOUS
    <2>1. T # {}
      BY FS_EmptySet
    <2>2. /\ T \ {First(T)} \in SUBSET S /\ Cardinality(T \ {First(T)}) \in Nat
          /\ Cardinality(T) = Cardinality(T \ {First(T)}) + 1
      BY <2>1, FirstOut, Zenon
    <2>3. Cardinality(T \ {First(T)}) = n
      BY <2>2
    <2>4. T \ {First(T)} \in X
      BY <1>2, <2>2, <2>3, Zenon
    <2> QED BY <2>1, <2>4, Zenon
  <1>3. \A n \in Nat : n \in N
    <2> HIDE DEF N
    <2> QED BY <1>1, <1>2, NatSet, Zenon
  <1>4. Cardinality(S) \in N
    <2> HIDE DEF N
    <2>1. Cardinality(S) \in Nat
      BY FS_CardinalityType, Zenon
    <2> QED BY <1>3, <2>1, Zenon
  <1> QED BY <1>4, Zenon

\* A sum of nothing but zeros.
LEMMA TotalZero ==
  ASSUME NEW S, IsFiniteSet(S), NEW f, \A b \in S : f[b] = 0
  PROVE  Total(f, S) = 0
  <1>1. PICK s : Adds(f, S, s) /\ Total(f, S) = s[S]
    BY TotalIs, Zenon
  <1>2. /\ s[{}] = 0
        /\ \A T \in SUBSET S : T # {} => /\ First(T) \in S
                                         /\ s[T] = f[First(T)] + s[T \ {First(T)}]
    BY <1>1, Zenon DEF Adds
  <1> DEFINE X == {T \in SUBSET S : s[T] = 0}
  <1>3. {} \in X
    BY <1>2
  <1>4. ASSUME NEW T \in SUBSET S, T # {}, T \ {First(T)} \in X PROVE T \in X
    BY <1>2, <1>4
  <1>5. S \in X
    <2> HIDE DEF X
    <2> QED BY <1>3, <1>4, SubsetSet, Zenon
  <1> QED BY <1>1, <1>5, Zenon

\* One more in one place is one more in the sum.
LEMMA TotalRaised ==
  ASSUME NEW S, IsFiniteSet(S), NEW b \in S, NEW f, NEW g,
         \A c \in S : f[c] \in Nat /\ g[c] = f[c] + (IF c = b THEN 1 ELSE 0)
  PROVE  Total(g, S) = Total(f, S) + 1
  <1>1. PICK s : Adds(f, S, s) /\ Total(f, S) = s[S]
    BY TotalIs, Zenon
  <1>2. PICK t : Adds(g, S, t) /\ Total(g, S) = t[S]
    BY TotalIs, Zenon
  <1>3. /\ s[{}] = 0
        /\ \A T \in SUBSET S : T # {} => /\ First(T) \in S
                                         /\ s[T] = f[First(T)] + s[T \ {First(T)}]
    BY <1>1, Zenon DEF Adds
  <1>4. /\ t[{}] = 0
        /\ \A T \in SUBSET S : T # {} => /\ First(T) \in S
                                         /\ t[T] = g[First(T)] + t[T \ {First(T)}]
    BY <1>2, Zenon DEF Adds
  <1> DEFINE X == {T \in SUBSET S : s[T] \in Nat /\ t[T] = s[T] + (IF b \in T THEN 1 ELSE 0)}
  <1>5. {} \in X
    BY <1>3, <1>4
  <1>6. ASSUME NEW T \in SUBSET S, T # {}, T \ {First(T)} \in X PROVE T \in X
    <2> DEFINE U == T \ {First(T)}
               x == First(T)
    <2>1. /\ x \in S /\ s[T] = f[x] + s[U] /\ t[T] = g[x] + t[U]
      BY <1>3, <1>4, <1>6, Zenon
    <2>2. f[x] \in Nat /\ g[x] = f[x] + (IF x = b THEN 1 ELSE 0)
      BY <2>1, Zenon
    <2>3. s[U] \in Nat /\ t[U] = s[U] + (IF b \in U THEN 1 ELSE 0)
      BY <1>6, Zenon
    <2>4. b \in T <=> b \in U \/ x = b
      BY <1>6 DEF First
    <2>5. ~(b \in U /\ x = b)
      OBVIOUS
    <2> HIDE DEF U, x
    <2>6. s[T] \in Nat /\ t[T] = s[T] + (IF b \in T THEN 1 ELSE 0)
      BY <2>1, <2>2, <2>3, <2>4, <2>5
    <2> QED BY <2>6, Zenon
  <1>7. S \in X
    <2> HIDE DEF X
    <2> QED BY <1>5, <1>6, SubsetSet, Zenon
  <1> QED BY <1>1, <1>2, <1>7

PerBucket(w) == [b \in Bucket |-> CountOf(RegKey(b, w))]

\* What the script keeps equal, in every window there may be.
SlotsInv == \A w : CountOf(GlobalRegKey(w)) = Total(PerBucket(w), Bucket)

\* A registration was counted: for its bucket and for the relay.
Raised(b, w) ==
    \A c, v : /\ CountOf(GlobalRegKey(v))' = CountOf(GlobalRegKey(v)) + (IF v = w THEN 1 ELSE 0)
              /\ CountOf(RegKey(c, v))' =
                   CountOf(RegKey(c, v)) + (IF c = b /\ v = w THEN 1 ELSE 0)

LEMMA BucketFinite == IsFiniteSet(Bucket)
  <1> DEFINE g == [x \in Addr |-> ip_bucket[x]]
  <1>1. g \in Surjection(Addr, Bucket)
    BY DEF Bucket, Surjection
  <1>2. IsFiniteSet(Addr)
    BY AuthConstants
  <1> HIDE DEF g
  <1> QED BY <1>1, <1>2, FS_Surjection, Zenon

\* The address of a request is one that has a bucket.
LEMMA IpBucket ==
  ASSUME TypeOK, NEW h \in Request, req[h] # None
  PROVE  ip_bucket[IpOf(h)] \in Bucket
  <1>1. PICK k \in Vouched(h) : IpOf(h) = to_canonical[Hop(h, k)]
    BY TypedAddress, Zenon DEF ClientAddress
  <1>2. /\ req[h].peer \in Addr /\ Hops(h) \in Seq(Addr \union {Bad})
        /\ Len(Hops(h)) \in Nat
    BY HopsType, Zenon
  <1>3. k \in 0..Len(Hops(h)) /\ Hop(h, k) # Bad
    BY Zenon DEF Vouched
  <1>4. Hop(h, k) \in Addr
    BY <1>2, <1>3 DEF Hop
  <1>5. IpOf(h) \in Addr
    BY <1>1, <1>4, AuthConstants
  <1> QED BY <1>5, Zenon DEF Bucket

LEMMA RegistrationSlots ==
  ASSUME TokenInv, LimitsInv, NEW h \in Request, check_registration(h)
  PROVE  SameSlots \/ \E b \in Bucket : \E w : Raised(b, w)
  <1>1. PICK b, w : b = ip_bucket[IpOf(h)] /\ w = Window(h)
    OBVIOUS
  <1>2. TypeOK /\ req[h] # None
    BY Zenon DEF TokenInv, check_registration, At
  <1>3. b \in Bucket
    BY <1>1, <1>2, IpBucket, Zenon
  <1>4. counts' = counts \/ counts' = Incr(Counted(h))
    BY Zenon DEF check_registration
  <1>5. Counted(h) = {} \/ Counted(h) = {GlobalRegKey(w), RegKey(b, w)}
    BY <1>1, Zenon DEF Counted, RegKeys
  <1>6. CASE counts' = counts
    BY <1>6 DEF SameSlots, CountOf
  <1>7. CASE counts' = Incr({})
    BY <1>7, IncrCount DEF SameSlots
  <1>8. CASE counts' = Incr({GlobalRegKey(w), RegKey(b, w)})
    <2> DEFINE K == {GlobalRegKey(w), RegKey(b, w)}
    <2>1. ASSUME NEW c, NEW v
          PROVE  /\ GlobalRegKey(v) \in K <=> v = w
                 /\ RegKey(c, v) \in K <=> c = b /\ v = w
      BY OtherKeys
    <2>2. counts' = Incr(K)
      BY <1>8
    <2> HIDE DEF K
    <2>3. ASSUME NEW c, NEW v
          PROVE  /\ CountOf(GlobalRegKey(v))' =
                      CountOf(GlobalRegKey(v)) + (IF v = w THEN 1 ELSE 0)
                 /\ CountOf(RegKey(c, v))' =
                      CountOf(RegKey(c, v)) + (IF c = b /\ v = w THEN 1 ELSE 0)
      <3>1. CountOf(GlobalRegKey(v)) \in Nat /\ CountOf(RegKey(c, v)) \in Nat
        BY Zenon DEF LimitsInv, GlobalCounted, SlotsCounted
      <3> QED BY <2>1, <2>2, <3>1, IncrCount
    <2>4. Raised(b, w)
      BY <2>3, Zenon DEF Raised
    <2> QED BY <1>3, <2>4, Zenon
  <1> QED BY <1>4, <1>5, <1>6, <1>7, <1>8, Zenon

LEMMA MinuteSlots ==
  ASSUME NEW h, check_auth_ip(h) \/ check_challenge_quota(h)
  PROVE  SameSlots
  <1>1. PICK k : /\ counts' = Incr({k}) \/ counts' = counts
                 /\ \A b, w : k # RegKey(b, w) /\ k # GlobalRegKey(w)
    <2>1. CASE check_auth_ip(h)
      <3> DEFINE k == AuthKey(IpOf(h), Window(h))
      <3>1. counts' = Incr({k}) \/ counts' = counts
        BY <2>1, Zenon DEF check_auth_ip, count_minute
      <3>2. \A b, w : k # RegKey(b, w) /\ k # GlobalRegKey(w)
        BY OtherKeys
      <3> QED BY <3>1, <3>2, Zenon
    <2>2. CASE check_challenge_quota(h)
      <3> DEFINE k == ChallengeKey(req[h].device, IpOf(h), Window(h))
      <3>1. counts' = Incr({k}) \/ counts' = counts
        BY <2>2, Zenon DEF check_challenge_quota, count_minute
      <3>2. \A b, w : k # RegKey(b, w) /\ k # GlobalRegKey(w)
        BY OtherKeys
      <3> QED BY <3>1, <3>2, Zenon
    <2> QED BY <2>1, <2>2
  <1>2. CASE counts' = counts
    BY <1>2 DEF SameSlots, CountOf
  <1>3. CASE counts' = Incr({k})
    BY <1>1, <1>3, IncrCount DEF SameSlots
  <1> QED BY <1>1, <1>2, <1>3

LEMMA NextSlots ==
  ASSUME TokenInv, LimitsInv, [Next]_vars
  PROVE  SameSlots \/ \E b \in Bucket : \E w : Raised(b, w)
  <1>1. CASE counts' = counts
    BY <1>1 DEF SameSlots, CountOf
  <1>2. ASSUME NEW h \in Request, Step(h)
        PROVE  counts' = counts \/ SameSlots \/ \E b \in Bucket : \E w : Raised(b, w)
    <2>1. CASE check_auth_ip(h) \/ check_challenge_quota(h)
      BY <2>1, MinuteSlots, Zenon
    <2>2. CASE check_registration(h)
      BY <2>2, RegistrationSlots, Zenon
    <2>3. CASE \/ find_key(h) \/ put(h) \/ take(h) \/ check_token_proof(h) \/ issue(h)
               \/ register(h) \/ upsert(h) \/ Fails(h)
      BY <2>3, Zenon DEF find_key, put, take, check_token_proof, issue, register, upsert, Fails
    <2> QED BY <1>2, <2>1, <2>2, <2>3, Zenon DEF Step
  <1>3. ASSUME ~\E h \in Request : Step(h) PROVE counts' = counts
    BY <1>3, Zenon DEF Next, vars, Arrive, Delete, Tick
  <1> QED BY <1>1, <1>2, <1>3, Zenon

\* No step counts a registration in one place only.
LEMMA StepSlots == TokenInv /\ LimitsInv /\ SlotsInv /\ [Next]_vars => SlotsInv'
  <1> SUFFICES ASSUME TokenInv, LimitsInv, SlotsInv, [Next]_vars, NEW v
               PROVE  CountOf(GlobalRegKey(v))' = Total(PerBucket(v)', Bucket)
    BY Zenon DEF SlotsInv
  <1>1. CountOf(GlobalRegKey(v)) = Total(PerBucket(v), Bucket)
    BY Zenon DEF SlotsInv
  <1>2. CASE PerBucket(v)' = PerBucket(v) /\ CountOf(GlobalRegKey(v))' = CountOf(GlobalRegKey(v))
    BY <1>1, <1>2, Zenon
  <1>3. CASE SameSlots
    <2>1. PerBucket(v)' = PerBucket(v)
      BY <1>3 DEF SameSlots, PerBucket
    <2> QED BY <1>2, <1>3, <2>1, Zenon DEF SameSlots
  <1>4. ASSUME NEW b \in Bucket, NEW w, Raised(b, w)
        PROVE  CountOf(GlobalRegKey(v))' = Total(PerBucket(v)', Bucket)
    <2>1. ASSUME NEW c \in Bucket
          PROVE  /\ CountOf(GlobalRegKey(v)) \in Nat /\ PerBucket(v)[c] \in Nat
                 /\ PerBucket(v)[c] = CountOf(RegKey(c, v))
                 /\ PerBucket(v)'[c] = CountOf(RegKey(c, v))'
      BY Zenon DEF LimitsInv, GlobalCounted, SlotsCounted, PerBucket
    <2>2. CASE v # w
      <3>1. \A c \in Bucket : PerBucket(v)'[c] = PerBucket(v)[c]
        BY <1>4, <2>1, <2>2 DEF Raised
      <3>2. CountOf(GlobalRegKey(v))' = CountOf(GlobalRegKey(v))
        BY <1>4, <2>1, <2>2 DEF Raised
      <3>3. PerBucket(v)' = PerBucket(v)
        BY <3>1 DEF PerBucket
      <3> QED BY <1>2, <3>2, <3>3, Zenon
    <2>3. CASE v = w
      <3> DEFINE f == PerBucket(v)
                 g == PerBucket(v)'
      <3>1. \A c \in Bucket : f[c] \in Nat /\ g[c] = f[c] + (IF c = b THEN 1 ELSE 0)
        BY <1>4, <2>1, <2>3, Zenon DEF Raised
      <3>2. CountOf(GlobalRegKey(v))' = CountOf(GlobalRegKey(v)) + 1
        BY <1>4, <2>3, Zenon DEF Raised
      <3> HIDE DEF f, g
      <3>3. Total(g, Bucket) = Total(f, Bucket) + 1
        BY <3>1, BucketFinite, TotalRaised, Zenon
      <3> QED BY <1>1, <3>2, <3>3, Zenon DEF f, g
    <2> QED BY <2>2, <2>3, Zenon
  <1> QED BY <1>3, <1>4, NextSlots, Zenon

LEMMA InitSlots == Init => SlotsInv
  <1> SUFFICES ASSUME Init, NEW w
               PROVE  CountOf(GlobalRegKey(w)) = Total(PerBucket(w), Bucket)
    BY Zenon DEF SlotsInv
  <1>1. \A k : CountOf(k) = 0
    BY DEF Init, CountOf
  <1>2. \A b \in Bucket : PerBucket(w)[b] = 0
    BY <1>1, Zenon DEF PerBucket
  <1>3. Total(PerBucket(w), Bucket) = 0
    BY <1>2, BucketFinite, TotalZero, Zenon
  <1> QED BY <1>1, <1>3, Zenon

\* For any limits, any addresses and any number of concurrent requests, the
\* relay-wide counter is the sum of the clients' counters, also when Redis fails
\* in the middle of a request (REGISTRATION_SCRIPT).
THEOREM SlotsAlwaysMatch == Spec => []SlotsMatch
  <1>1. SlotsInv => SlotsMatch
    BY Zenon DEF SlotsInv, SlotsMatch, PerBucket
  <1> QED BY <1>1, InitToken, StepToken, InitLimits, StepLimits, InitSlots, StepSlots, PTL
          DEF Spec

LEMMA JoinedSize ==
  ASSUME NEW A, NEW B, IsFiniteSet(A), IsFiniteSet(B)
  PROVE  /\ IsFiniteSet(A \union B) /\ Cardinality(A \union B) \in Nat
         /\ Cardinality(A \union B) <= Cardinality(A) + Cardinality(B)
         /\ Cardinality(A) \in Nat /\ Cardinality(B) \in Nat
  <1>1. /\ IsFiniteSet(A \union B)
        /\ Cardinality(A \union B) = Cardinality(A) + Cardinality(B) - Cardinality(A \cap B)
    BY FS_Union, Zenon
  <1>2. IsFiniteSet(A \cap B)
    BY FS_Intersection, Zenon
  <1>3. /\ Cardinality(A) \in Nat /\ Cardinality(B) \in Nat
        /\ Cardinality(A \cap B) \in Nat /\ Cardinality(A \union B) \in Nat
    BY <1>1, <1>2, FS_CardinalityType, Zenon
  <1> QED BY <1>1, <1>3

\* The counted registrations of all buckets together.
LEMMA SlotsTogether ==
  ASSUME LimitsInv, SlotsInv, NEW w
  PROVE  LET S == UNION {Slots(b, w) : b \in Bucket}
         IN  IsFiniteSet(S) /\ Cardinality(S) <= CountOf(GlobalRegKey(w))
  <1> DEFINE f == PerBucket(w)
             In(T) == UNION {Slots(b, w) : b \in T}
  <1>1. \A b \in Bucket : /\ f[b] \in Nat /\ IsFiniteSet(Slots(b, w))
                          /\ Cardinality(Slots(b, w)) <= f[b]
    BY Zenon DEF LimitsInv, SlotsCounted, PerBucket
  <1>2. PICK s : Adds(f, Bucket, s) /\ Total(f, Bucket) = s[Bucket]
    BY BucketFinite, TotalIs, Zenon
  <1>3. Total(f, Bucket) = CountOf(GlobalRegKey(w))
    BY Zenon DEF SlotsInv
  <1>4. In({}) = {}
    OBVIOUS
  <1>5. ASSUME NEW T \in SUBSET Bucket, T # {}
        PROVE  In(T) = In(T \ {First(T)}) \union Slots(First(T), w)
    <2>1. First(T) \in T
      BY <1>5, Zenon DEF First
    <2> QED BY <2>1
  <1> HIDE DEF f, In
  <1>6. /\ s[{}] = 0
        /\ \A T \in SUBSET Bucket : T # {} => /\ First(T) \in Bucket
                                              /\ s[T] = f[First(T)] + s[T \ {First(T)}]
    BY <1>2, Zenon DEF Adds
  <1> DEFINE X == {T \in SUBSET Bucket : /\ IsFiniteSet(In(T)) /\ s[T] \in Nat
                                         /\ Cardinality(In(T)) <= s[T]}
  <1>7. {} \in X
    <2>1. IsFiniteSet(In({})) /\ Cardinality(In({})) = 0
      BY <1>4, FS_EmptySet, Zenon
    <2>2. s[{}] = 0
      BY <1>6, Zenon
    <2>3. s[{}] \in Nat /\ Cardinality(In({})) <= s[{}]
      BY <2>1, <2>2
    <2> QED BY <2>1, <2>3, Zenon
  <1>8. ASSUME NEW T \in SUBSET Bucket, T # {}, T \ {First(T)} \in X PROVE T \in X
    <2> DEFINE A == In(T \ {First(T)})
               B == Slots(First(T), w)
    <2>1. /\ First(T) \in Bucket /\ s[T] = f[First(T)] + s[T \ {First(T)}]
      BY <1>6, <1>8, Zenon
    <2>2. /\ IsFiniteSet(A) /\ s[T \ {First(T)}] \in Nat
          /\ Cardinality(A) <= s[T \ {First(T)}]
      BY <1>8, Zenon
    <2>3. f[First(T)] \in Nat /\ IsFiniteSet(B) /\ Cardinality(B) <= f[First(T)]
      BY <1>1, <2>1, Zenon
    <2>4. In(T) = A \union B
      BY <1>5, <1>8, Zenon
    <2> HIDE DEF A, B
    <2>5. /\ IsFiniteSet(A \union B) /\ Cardinality(A \union B) \in Nat
          /\ Cardinality(A \union B) <= Cardinality(A) + Cardinality(B)
          /\ Cardinality(A) \in Nat /\ Cardinality(B) \in Nat
      BY <2>2, <2>3, JoinedSize, Zenon
    <2>6. s[T] \in Nat /\ Cardinality(A \union B) <= s[T]
      BY <2>1, <2>2, <2>3, <2>5
    <2> QED BY <2>4, <2>5, <2>6, Zenon
  <1>9. Bucket \in X
    <2> HIDE DEF X
    <2> QED BY <1>7, <1>8, BucketFinite, SubsetSet, Zenon
  <1>10. IsFiniteSet(In(Bucket)) /\ Cardinality(In(Bucket)) <= CountOf(GlobalRegKey(w))
    BY <1>2, <1>3, <1>9, Zenon
  <1> QED BY <1>10, Zenon DEF In

\* The registration limits hold for any number of concurrent requests, whatever
\* fails: no counter passes its limit, every new row has its slot with its client
\* and with the relay, and one without replaces a deleted one (check_registration, register, upsert).
THEOREM RegistrationsAlwaysCounted == Spec => []RegistrationsCounted
  <1>1. ASSUME LimitsInv, SlotsInv PROVE RegistrationsCounted
    <2>1. ASSUME NEW b, NEW w PROVE Cardinality(Created(b, w)) <= CountOf(RegKey(b, w))
      <3> DEFINE S == Slots(b, w)
                 T == Created(b, w)
                 n == CountOf(RegKey(b, w))
      <3>1. T \subseteq S
        BY DEF Created, Slots, Answered, At
      <3>2. IsFiniteSet(S) /\ Cardinality(S) <= n /\ n \in Nat
        BY <1>1 DEF LimitsInv, SlotsCounted
      <3> HIDE DEF S, T, n
      <3>3. IsFiniteSet(T) /\ Cardinality(T) <= Cardinality(S)
        BY <3>1, <3>2, FS_Subset
      <3>4. Cardinality(S) \in Nat /\ Cardinality(T) \in Nat
        BY <3>2, <3>3, FS_CardinalityType
      <3>5. Cardinality(T) <= n
        BY <3>2, <3>3, <3>4
      <3> QED BY <3>5 DEF T, n
    <2>2. ASSUME NEW h \in Request, Answered(h, "register", "created"), ~req[h].counted
          PROVE  req[h].device \in removed
      BY <1>1, <2>2 DEF LimitsInv, RequestOk, Answered, At
    <2>3. ASSUME NEW w
          PROVE  Cardinality(UNION {Created(b, w) : b \in Bucket}) <= CountOf(GlobalRegKey(w))
      <3> DEFINE S == UNION {Slots(b, w) : b \in Bucket}
                 T == UNION {Created(b, w) : b \in Bucket}
                 n == CountOf(GlobalRegKey(w))
      <3>1. \A b : Created(b, w) \subseteq Slots(b, w)
        BY DEF Created, Slots, Answered, At
      <3>2. T \subseteq S
        BY <3>1
      <3>3. IsFiniteSet(S) /\ Cardinality(S) <= n /\ n \in Nat
        BY <1>1, SlotsTogether, Zenon DEF LimitsInv, GlobalCounted
      <3> HIDE DEF S, T, n
      <3>4. IsFiniteSet(T) /\ Cardinality(T) <= Cardinality(S)
        BY <3>2, <3>3, FS_Subset
      <3>5. Cardinality(S) \in Nat /\ Cardinality(T) \in Nat
        BY <3>3, <3>4, FS_CardinalityType
      <3>6. Cardinality(T) <= n
        BY <3>3, <3>4, <3>5
      <3> QED BY <3>6 DEF T, n
    <2> QED BY <1>1, <2>1, <2>2, <2>3, Zenon
            DEF RegistrationsCounted, LimitsInv, GlobalCounted, SlotsCounted
  <1> QED BY <1>1, InitToken, StepToken, InitLimits, StepLimits, InitSlots, StepSlots, PTL
          DEF Spec
=============================================================================
