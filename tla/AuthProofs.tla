----------------------------- MODULE AuthProofs -----------------------------
(***************************************************************************)
(* Proofs about Auth, for any number of requests, devices and challenges:  *)
(* a challenge buys at most one token, and no challenge is lost to its     *)
(* device before its time.                                                 *)
(***************************************************************************)
EXTENDS Auth, TLAPS

USE SMTT(60)

\* The request has taken its challenge out of Redis and may still be, or has
\* been, granted a token for it.
Holds(h) ==
    /\ req[h] # None /\ req[h].op = "token"
    /\ \/ req[h].at \in {"key", "issue"}
       \/ req[h].at = "done" /\ req[h].answer = "ok"

\* Each route has its own steps.
OwnStep(op, at) ==
    /\ at \in {"quota", "find", "put"} => op = "challenge"
    /\ at \in {"take", "key", "issue"} => op = "token"
    /\ at \in {"known", "limit", "upsert"} => op = "register"
    /\ at = "auth_ip" => op # "register"

OwnSteps(h) == req[h] # None => OwnStep(req[h].op, req[h].at)

\* The answers of a request.
Code == {"ok", "expired", "unknown", "signature", "limited", "error",
         "created", "updated", None}

\* A step of request h leaves the others alone, and what h asks for.
Kept(h) ==
    /\ req' \in [Request -> RequestState \union {None}]
    /\ \A g \in Request \ {h} : req'[g] = req[g]
    /\ req'[h] \in RequestState
    /\ req'[h].op = req[h].op /\ req'[h].value = req[h].value
    /\ req'[h].device = req[h].device
    /\ req'[h].peer = req[h].peer /\ req'[h].header = req[h].header

\* The inductive invariant: a challenge in Redis was not presented, one that
\* some request holds was, two requests hold different ones, and one that was
\* handed out is in Redis until it is presented or expires.
TokenInv ==
    /\ TypeOK
    /\ \A h \in Request : OwnSteps(h)
    /\ \A v \in presented : \E c \in issued : c.value = v
    /\ \A c \in chal : c.value \notin presented
    /\ \A h \in Request : Holds(h) => req[h].value \in presented
    /\ \A g, h \in Request : (Holds(g) /\ Holds(h) /\ g # h)
                                => req[g].value # req[h].value
    /\ \A c \in issued : c \in chal \/ c.value \in presented \/ now >= c.expires

LEMMA InitToken == Init => TokenInv
  <1> SUFFICES ASSUME Init PROVE TokenInv
    OBVIOUS
  <1>1. \A h \in Request : req[h] = None
    BY DEF Init
  <1>2. TypeOK
    BY DEF Init, TypeOK
  <1> QED
    BY <1>1, <1>2 DEF Init, TokenInv, Holds, OwnSteps

-----------------------------------------------------------------------------
(* What Go, Answer and Refuse leave of a request.                          *)

\* What a request asks for.
Same(r, s) ==
    /\ r.op = s.op /\ r.value = s.value /\ r.device = s.device
    /\ r.peer = s.peer /\ r.header = s.header

LEMMA WindowNat == \A n \in Nat, m \in Nat \ {0} : n \div m \in Nat
  OBVIOUS

\* Setting a field keeps a request well formed.
LEMMA SetField ==
  ASSUME NEW r \in RequestState
  PROVE  /\ \A x \in Working \union {"done"} : [r EXCEPT !.at = x] \in RequestState
         /\ \A x \in Nat : [r EXCEPT !.start = x] \in RequestState
         /\ \A x \in Nat : [r EXCEPT !.retry = x] \in RequestState
         /\ \A x \in BOOLEAN : [r EXCEPT !.counted = x] \in RequestState
         /\ \A x \in Code : [r EXCEPT !.answer = x] \in RequestState
  <1>1. \A x \in Working \union {"done"} : [r EXCEPT !.at = x] \in RequestState
    BY DEF RequestState
  <1>2. \A x \in Nat : [r EXCEPT !.start = x] \in RequestState
    BY DEF RequestState
  <1>3. \A x \in Nat : [r EXCEPT !.retry = x] \in RequestState
    BY DEF RequestState
  <1>4. \A x \in BOOLEAN : [r EXCEPT !.counted = x] \in RequestState
    BY DEF RequestState
  <1>5. \A x \in Code : [r EXCEPT !.answer = x] \in RequestState
    BY DEF RequestState, Code
  <1> QED BY <1>1, <1>2, <1>3, <1>4, <1>5

LEMMA GoState ==
  ASSUME TypeOK, NEW h \in Request, req[h] # None, NEW at \in Working, Go(h, at)
  PROVE  /\ Kept(h) /\ req'[h].at = at /\ req'[h].answer = req[h].answer
         /\ req'[h].counted = req[h].counted
         /\ req'[h].start = IF at \in {"quota", "limit"} THEN now ELSE req[h].start
  <1>1. req[h] \in RequestState /\ req \in [Request -> RequestState \union {None}]
    BY DEF TypeOK
  <1> DEFINE w == IF at \in {"quota", "limit"} THEN now ELSE req[h].start
             s == [req[h] EXCEPT !.at = at]
             r == [s EXCEPT !.start = w]
  <1>2. w \in Nat
    <2>1. now \in Nat
      BY DEF TypeOK
    <2>2. req[h].start \in Nat
      BY <1>1 DEF RequestState
    <2> QED BY <2>1, <2>2
  <1>3. req' = [req EXCEPT ![h] = r]
    BY <1>1, Zenon DEF Go
  <1>4. s \in RequestState
    BY <1>1, SetField
  <1>5. Same(s, req[h]) /\ s.at = at /\ s.answer = req[h].answer
        /\ s.counted = req[h].counted
    BY <1>1 DEF RequestState, Same
  <1> HIDE DEF w, s
  <1>6. r \in RequestState
    BY <1>2, <1>4, SetField
  <1>7. Same(r, s) /\ r.at = s.at /\ r.answer = s.answer
        /\ r.counted = s.counted /\ r.start = w
    BY <1>4 DEF RequestState, Same
  <1> HIDE DEF r
  <1> QED BY <1>1, <1>3, <1>5, <1>6, <1>7 DEF Kept, Same, w

LEMMA AnswerState ==
  ASSUME TypeOK, NEW h \in Request, req[h] # None, NEW code \in Code, Answer(h, code)
  PROVE  /\ Kept(h) /\ req'[h].at = "done" /\ req'[h].answer = code
         /\ req'[h].counted = req[h].counted /\ req'[h].start = req[h].start
  <1>1. req[h] \in RequestState /\ req \in [Request -> RequestState \union {None}]
    BY DEF TypeOK
  <1> DEFINE s == [req[h] EXCEPT !.at = "done"]
             r == [s EXCEPT !.answer = code]
  <1>2. req' = [req EXCEPT ![h] = r]
    BY <1>1, Zenon DEF Answer
  <1>3. s \in RequestState
    BY <1>1, SetField
  <1>4. Same(s, req[h]) /\ s.at = "done"
        /\ s.counted = req[h].counted /\ s.start = req[h].start
    BY <1>1 DEF RequestState, Same
  <1> HIDE DEF s
  <1>5. r \in RequestState
    BY <1>3, SetField
  <1>6. Same(r, s) /\ r.at = s.at /\ r.answer = code
        /\ r.counted = s.counted /\ r.start = s.start
    BY <1>3 DEF RequestState, Same
  <1> HIDE DEF r
  <1> QED BY <1>1, <1>2, <1>4, <1>5, <1>6 DEF Kept, Same

LEMMA RetryNat ==
  ASSUME TypeOK, NEW length \in {Minute, Hour}, NEW t \in Nat
  PROVE  RetryAt(length, t) \in Nat
  <1>1. now \in Nat /\ length \in Nat \ {0} /\ Second \in Nat \ {0}
    BY AuthConstants DEF TypeOK
  <1>2. t % length \in 0..(length - 1)
    BY <1>1
  <1> DEFINE m == length - (t % length) + Second - 1
  <1>3. m \in Nat
    BY <1>1, <1>2
  <1> DEFINE secs == m \div Second
  <1>4. secs \in Nat
    BY <1>1, <1>3, WindowNat
  <1> DEFINE k == IF secs = 0 THEN 1 ELSE secs
  <1>5. k \in Nat
    BY <1>4
  <1> HIDE DEF k
  <1>6. k * Second \in Nat
    BY <1>1, <1>5
  <1>7. now + k * Second \in Nat
    BY <1>1, <1>6
  <1> QED BY <1>7 DEF RetryAt, k

LEMMA RefuseState ==
  ASSUME TypeOK, NEW h \in Request, req[h] # None, NEW length \in {Minute, Hour},
         NEW t \in Nat, Refuse(h, length, t)
  PROVE  /\ Kept(h) /\ req'[h].at = "done" /\ req'[h].answer = "limited"
         /\ req'[h].counted = req[h].counted /\ req'[h].start = req[h].start
         /\ req'[h].retry = RetryAt(length, t)
  <1>1. req[h] \in RequestState /\ req \in [Request -> RequestState \union {None}]
    BY DEF TypeOK
  <1> DEFINE k == RetryAt(length, t)
             s == [req[h] EXCEPT !.at = "done"]
             u == [s EXCEPT !.answer = "limited"]
             r == [u EXCEPT !.retry = k]
  <1>2. k \in Nat
    BY RetryNat
  <1>3. req' = [req EXCEPT ![h] = r]
    BY <1>1, Zenon DEF Refuse
  <1> HIDE DEF k
  <1>4. s \in RequestState
    BY <1>1, SetField
  <1>5. Same(s, req[h]) /\ s.at = "done"
        /\ s.counted = req[h].counted /\ s.start = req[h].start
    BY <1>1 DEF RequestState, Same
  <1> HIDE DEF s
  <1>6. u \in RequestState
    <2>1. "limited" \in Code
      BY DEF Code
    <2> QED BY <1>4, <2>1, SetField
  <1>7. Same(u, s) /\ u.at = s.at /\ u.answer = "limited"
        /\ u.counted = s.counted /\ u.start = s.start
    BY <1>4 DEF RequestState, Same
  <1> HIDE DEF u
  <1>8. r \in RequestState
    BY <1>2, <1>6, SetField
  <1>9. Same(r, u) /\ r.at = u.at /\ r.answer = u.answer
        /\ r.counted = u.counted /\ r.start = u.start /\ r.retry = k
    BY <1>6 DEF RequestState, Same
  <1> HIDE DEF r
  <1> QED BY <1>1, <1>3, <1>5, <1>7, <1>8, <1>9 DEF Kept, Same, k

\* A registration that the limits let through.
Admitted(h) ==
    req' = [req EXCEPT ![h] = [@ EXCEPT !.at = "upsert", !.counted = TRUE]]

LEMMA AdmittedState ==
  ASSUME TypeOK, NEW h \in Request, req[h] # None, Admitted(h)
  PROVE  /\ Kept(h) /\ req'[h].at = "upsert"
         /\ req'[h].counted = TRUE /\ req'[h].start = req[h].start
  <1>1. req[h] \in RequestState /\ req \in [Request -> RequestState \union {None}]
    BY DEF TypeOK
  <1> DEFINE s == [req[h] EXCEPT !.at = "upsert"]
             r == [s EXCEPT !.counted = TRUE]
  <1>2. req' = [req EXCEPT ![h] = r]
    BY Zenon DEF Admitted
  <1>3. s \in RequestState
    <2>1. "upsert" \in Working \union {"done"}
      BY DEF Working
    <2> QED BY <1>1, <2>1, SetField, Zenon
  <1>4. Same(s, req[h]) /\ s.at = "upsert" /\ s.start = req[h].start
    BY <1>1 DEF RequestState, Same
  <1> HIDE DEF s
  <1>5. r \in RequestState
    BY <1>3, SetField, Zenon
  <1>6. Same(r, s) /\ r.at = s.at /\ r.counted = TRUE /\ r.start = s.start
    BY <1>3 DEF RequestState, Same
  <1> HIDE DEF r
  <1> QED BY <1>1, <1>2, <1>4, <1>5, <1>6 DEF Kept, Same

-----------------------------------------------------------------------------
(* Steps that present no challenge.                                        *)

\* A step of request h that hands out nothing and presents nothing keeps the
\* invariant, if h does not come to hold a challenge by it.
LEMMA QuietStep ==
  ASSUME TokenInv, NEW h \in Request, req[h] # None, Kept(h),
         OwnSteps(h)', Holds(h)' => Holds(h),
         devices' \subseteq Device, removed' \subseteq Device,
         UNCHANGED <<now, chal, issued, presented>>
  PROVE  TokenInv'
  <1>1. TypeOK'
    BY DEF TokenInv, TypeOK, Kept
  <1>2. \A g \in Request : Holds(g)' => Holds(g) /\ req'[g].value = req[g].value
    BY DEF Kept, Holds
  <1>3. \A g \in Request : OwnSteps(g)'
    BY DEF TokenInv, OwnSteps, Kept
  <1>4. \A c \in chal' : c.value \notin presented'
    BY DEF TokenInv
  <1>5. \A g \in Request : Holds(g)' => req'[g].value \in presented'
    BY <1>2 DEF TokenInv
  <1>6. \A f, g \in Request : (Holds(f)' /\ Holds(g)' /\ f # g)
                                 => req'[f].value # req'[g].value
    BY <1>2 DEF TokenInv
  <1>7. \A c \in issued' : c \in chal' \/ c.value \in presented' \/ now' >= c.expires
    BY DEF TokenInv
  <1>8. \A v \in presented' : \E c \in issued' : c.value = v
    BY DEF TokenInv
  <1> QED BY <1>1, <1>3, <1>4, <1>5, <1>6, <1>7, <1>8 DEF TokenInv

\* Moving on within the same route.
LEMMA GoStep ==
  ASSUME TokenInv, NEW h \in Request, req[h] # None, NEW at \in Working, Go(h, at),
         OwnStep(req[h].op, at), at \in {"key", "issue"} => Holds(h),
         UNCHANGED <<now, devices, removed, chal, issued, presented>>
  PROVE  TokenInv'
  <1>1. TypeOK
    BY DEF TokenInv
  <1>2. Kept(h) /\ req'[h].at = at
    BY <1>1, GoState
  <1>3. OwnSteps(h)'
    BY <1>2 DEF OwnSteps, Kept
  <1>4. Holds(h)' => Holds(h)
    BY <1>2 DEF Holds, Kept, Working
  <1>5. devices' \subseteq Device /\ removed' \subseteq Device
    BY <1>1 DEF TypeOK
  <1> QED BY <1>2, <1>3, <1>4, <1>5, QuietStep

\* An answer that is no token.
LEMMA AnswerStep ==
  ASSUME TokenInv, NEW h \in Request, req[h] # None, NEW code \in Code, Answer(h, code),
         code = "ok" => req[h].op = "challenge" \/ Holds(h),
         devices' \subseteq Device, removed' \subseteq Device,
         UNCHANGED <<now, chal, issued, presented>>
  PROVE  TokenInv'
  <1>1. TypeOK
    BY DEF TokenInv
  <1>2. Kept(h) /\ req'[h].at = "done" /\ req'[h].answer = code
    BY <1>1, AnswerState
  <1>3. OwnSteps(h)'
    BY <1>2 DEF OwnSteps, OwnStep, Kept
  <1>4. Holds(h)' => Holds(h)
    BY <1>2 DEF Holds, Kept
  <1> QED BY <1>2, <1>3, <1>4, QuietStep

LEMMA RefuseStep ==
  ASSUME TokenInv, NEW h \in Request, req[h] # None, NEW length \in {Minute, Hour},
         NEW t \in Nat, Refuse(h, length, t),
         UNCHANGED <<now, devices, removed, chal, issued, presented>>
  PROVE  TokenInv'
  <1>1. TypeOK
    BY DEF TokenInv
  <1>2. Kept(h) /\ req'[h].at = "done" /\ req'[h].answer = "limited"
    BY <1>1, RefuseState
  <1>3. OwnSteps(h)'
    BY <1>2 DEF OwnSteps, OwnStep, Kept
  <1>4. Holds(h)' => Holds(h)
    BY <1>2 DEF Holds, Kept
  <1>5. devices' \subseteq Device /\ removed' \subseteq Device
    BY <1>1 DEF TypeOK
  <1> QED BY <1>2, <1>3, <1>4, <1>5, QuietStep

LEMMA CountStep ==
  ASSUME TokenInv, NEW h \in Request, req[h] # None, NEW k, NEW limit,
         NEW then \in {"take", "quota", "find"},
         OwnStep(req[h].op, then),
         count_minute(h, k, limit, then)
  PROVE  TokenInv'
  <1>1. UNCHANGED <<now, devices, removed, chal, issued, presented>>
    BY DEF count_minute
  <1>2. CASE Go(h, then)
    <2>1. then \in Working /\ then \notin {"key", "issue"}
      BY DEF Working
    <2> QED BY <1>1, <1>2, <2>1, GoStep
  <1>3. CASE \E t \in Nat : Refuse(h, Minute, t)
    BY <1>1, <1>3, RefuseStep
  <1>4. CASE Answer(h, "error")
    <2>1. "error" \in Code /\ "error" # "ok"
      BY DEF Code
    <2>2. devices' \subseteq Device /\ removed' \subseteq Device
      BY <1>1 DEF TokenInv, TypeOK
    <2> QED BY <1>1, <1>4, <2>1, <2>2, AnswerStep
  <1>5. Go(h, then) \/ (\E t \in Nat : Refuse(h, Minute, t)) \/ Answer(h, "error")
    <2>1. req[h].start..now \subseteq Nat
      BY DEF TokenInv, TypeOK, RequestState
    <2>2. Go(h, then) \/ (\E t \in req[h].start..now : Refuse(h, Minute, t))
            \/ Answer(h, "error")
      BY Zenon DEF count_minute
    <2> QED BY <2>1, <2>2, Zenon
  <1> QED BY <1>2, <1>3, <1>4, <1>5

\* The steps of a request that leave the challenges alone.
LEMMA PlainSteps ==
  ASSUME TokenInv, NEW h \in Request,
         \/ check_auth_ip(h) \/ check_challenge_quota(h) \/ find_key(h)
         \/ check_token_proof(h) \/ issue(h) \/ register(h) \/ upsert(h) \/ Fails(h)
  PROVE  TokenInv'
  <1>1. TypeOK /\ OwnSteps(h)
    BY DEF TokenInv
  <1>2. devices \subseteq Device /\ removed \subseteq Device
    BY <1>1 DEF TypeOK
  <1>3. \A at \in Working : (/\ req[h] # None /\ Go(h, at) /\ OwnStep(req[h].op, at)
                             /\ at \in {"key", "issue"} => Holds(h)
                             /\ UNCHANGED <<now, devices, removed, chal, issued, presented>>)
                            => TokenInv'
    BY GoStep
  <1>4. \A code \in Code : (/\ req[h] # None /\ Answer(h, code)
                            /\ code = "ok" => Holds(h)
                            /\ devices' \subseteq Device /\ removed' \subseteq Device
                            /\ UNCHANGED <<now, chal, issued, presented>>)
                           => TokenInv'
    BY AnswerStep
  <1>5. {"error", "unknown", "signature", "created", "updated", "ok"} \subseteq Code
    BY DEF Code
  <1>6. CASE check_auth_ip(h)
    <2>1. req[h] # None /\ req[h] \in RequestState /\ req[h].op # "register"
      BY <1>1, <1>6 DEF check_auth_ip, At, TypeOK, OwnSteps, OwnStep
    <2>2. CASE req[h].op = "token"
      <3>1. OwnStep(req[h].op, "take")
        BY <2>2 DEF OwnStep
      <3> QED BY <1>6, <2>1, <2>2, <3>1, CountStep DEF check_auth_ip
    <2>3. CASE req[h].op = "challenge"
      <3>1. OwnStep(req[h].op, "quota")
        BY <2>3 DEF OwnStep
      <3> QED BY <1>6, <2>1, <2>3, <3>1, CountStep DEF check_auth_ip
    <2>4. req[h].op \in {"token", "challenge", "register"}
      BY <2>1 DEF RequestState
    <2> QED BY <2>1, <2>2, <2>3, <2>4
  <1>7. CASE check_challenge_quota(h)
    <2>1. req[h] # None /\ OwnStep(req[h].op, "find")
      BY <1>1, <1>7 DEF check_challenge_quota, At, OwnSteps, OwnStep
    <2> QED BY <1>7, <2>1, CountStep DEF check_challenge_quota
  <1>8. CASE find_key(h)
    <2>1. /\ req[h] # None /\ OwnStep(req[h].op, "put")
          /\ UNCHANGED <<now, devices, removed, chal, issued, presented>>
          /\ Go(h, "put") \/ Answer(h, "unknown")
      BY <1>1, <1>8 DEF find_key, At, OwnSteps, OwnStep
    <2>2. "put" \in Working
      BY DEF Working
    <2> QED BY <1>2, <1>3, <1>4, <1>5, <2>1, <2>2
  <1>9. CASE check_token_proof(h)
    <2>1. /\ req[h] # None /\ OwnStep(req[h].op, "issue") /\ Holds(h)
          /\ UNCHANGED <<now, devices, removed, chal, issued, presented>>
          /\ Go(h, "issue") \/ Answer(h, "unknown") \/ Answer(h, "signature")
      BY <1>1, <1>9 DEF check_token_proof, At, OwnSteps, OwnStep, Holds
    <2>2. "issue" \in Working
      BY DEF Working
    <2> QED BY <1>2, <1>3, <1>4, <1>5, <2>1, <2>2
  <1>10. CASE issue(h)
    <2>1. /\ req[h] # None /\ Holds(h) /\ Answer(h, "ok")
          /\ UNCHANGED <<now, devices, removed, chal, issued, presented>>
      BY <1>1, <1>10 DEF issue, At, OwnSteps, OwnStep, Holds
    <2> QED BY <1>2, <1>4, <1>5, <2>1
  <1>11. CASE register(h)
    <2>1. /\ req[h] # None /\ OwnStep(req[h].op, "upsert") /\ OwnStep(req[h].op, "limit")
          /\ UNCHANGED <<now, devices, removed, chal, issued, presented>>
          /\ Go(h, "upsert") \/ Go(h, "limit") \/ Answer(h, "signature")
      BY <1>1, <1>11 DEF register, At, OwnSteps, OwnStep
    <2>2. "upsert" \in Working /\ "limit" \in Working
      BY DEF Working
    <2> QED BY <1>2, <1>3, <1>4, <1>5, <2>1, <2>2
  <1>12. CASE upsert(h)
    <2>1. /\ req[h] # None /\ req[h] \in RequestState
          /\ devices' = devices \union {req[h].device}
          /\ UNCHANGED <<now, removed, chal, issued, presented>>
          /\ Answer(h, "updated") \/ Answer(h, "created")
      BY <1>1, <1>12 DEF upsert, At, TypeOK
    <2>2. req[h].device \in Device
      BY <2>1 DEF RequestState
    <2> QED BY <1>2, <1>4, <1>5, <2>1, <2>2
  <1>13. CASE Fails(h)
    <2>1. /\ req[h] # None /\ req[h] \in RequestState /\ Answer(h, "error")
          /\ devices' \in {devices, devices \union {req[h].device}}
          /\ UNCHANGED <<now, removed, chal, issued, presented>>
      BY <1>1, <1>13 DEF Fails, TypeOK
    <2>2. req[h].device \in Device
      BY <2>1 DEF RequestState
    <2> QED BY <1>2, <1>4, <1>5, <2>1, <2>2
  <1> QED BY <1>6, <1>7, <1>8, <1>9, <1>10, <1>11, <1>12, <1>13

LEMMA RegistrationStep ==
  ASSUME TokenInv, NEW h \in Request, check_registration(h)
  PROVE  TokenInv'
  <1>1. TypeOK /\ OwnSteps(h)
    BY DEF TokenInv
  <1>2. /\ req[h] # None /\ req[h].op = "register"
        /\ UNCHANGED <<now, devices, removed, chal, issued, presented>>
        /\ devices' \subseteq Device /\ removed' \subseteq Device
    BY <1>1 DEF check_registration, At, OwnSteps, OwnStep, TypeOK
  <1>3. CASE Refuse(h, Hour, req[h].start)
    <2>1. req[h].start \in Nat
      BY <1>1, <1>2 DEF TypeOK, RequestState
    <2> QED BY <1>2, <1>3, <2>1, RefuseStep
  <1>4. CASE Answer(h, "error")
    <2>1. "error" \in Code /\ "error" # "ok"
      BY DEF Code
    <2> QED BY <1>2, <1>4, <2>1, AnswerStep
  <1>5. CASE Admitted(h)
    <2>1. Kept(h) /\ req'[h].at = "upsert"
      BY <1>1, <1>2, <1>5, AdmittedState, Zenon
    <2>2. OwnSteps(h)' /\ ~Holds(h)'
      BY <1>2, <2>1 DEF OwnSteps, OwnStep, Holds, Kept
    <2> QED BY <1>2, <2>1, <2>2, QuietStep
  <1> QED BY <1>3, <1>4, <1>5 DEF check_registration, Admitted

-----------------------------------------------------------------------------
(* Steps that hand out a challenge, present one, or let them expire.       *)

\* A value no challenge had before joins the pending ones.
LEMMA PutStep ==
  ASSUME TokenInv, NEW h \in Request, put(h)
  PROVE  TokenInv'
  <1>1. TypeOK /\ OwnSteps(h)
    BY DEF TokenInv
  <1>2. req[h] # None /\ req[h].op = "challenge" /\ req[h] \in RequestState
    BY <1>1 DEF put, At, OwnSteps, OwnStep, TypeOK
  <1>3. "ok" \in Code /\ "error" \in Code
    BY DEF Code
  <1>4. Kept(h) /\ req'[h].at = "done"
    BY <1>1, <1>2, <1>3, AnswerState DEF put
  <1>5. PICK v \in Fresh : Put(h, v) \/ UNCHANGED chal
    BY DEF put
  <1> DEFINE e == [device |-> req[h].device, value |-> v, expires |-> now + ChallengeTtl]
  <1>6. e \in Pending /\ e.value = v
    BY <1>1, <1>2, AuthConstants DEF TypeOK, Pending, RequestState, Fresh
  <1>7. \A c \in issued : c.value # v
    BY DEF Fresh
  <1>8. chal' = chal \union {e} \/ chal' = chal
    BY <1>5 DEF Put
  <1>9. issued' = issued \union chal' /\ UNCHANGED <<now, devices, presented, removed>>
    BY DEF put
  <1> HIDE DEF e
  <1>10. issued' \in {issued, issued \union {e}}
    BY <1>1, <1>8, <1>9 DEF TypeOK
  <1>11. TypeOK'
    <2>1. chal' \subseteq issued' /\ issued' \subseteq Pending
      BY <1>1, <1>6, <1>9, <1>10 DEF TypeOK
    <2>2. \A c, d \in issued' : c.value = d.value => c = d
      BY <1>1, <1>6, <1>7, <1>10 DEF TypeOK
    <2> QED BY <1>1, <1>4, <1>9, <2>1, <2>2 DEF TypeOK, Kept
  <1>12. \A g \in Request : Holds(g)' => Holds(g) /\ req'[g].value = req[g].value
    BY <1>2, <1>4 DEF Kept, Holds
  <1>13. \A g \in Request : OwnSteps(g)'
    BY <1>4 DEF TokenInv, OwnSteps, OwnStep, Kept
  <1>14. v \notin presented
    BY <1>7 DEF TokenInv
  <1>15. \A c \in chal' : c.value \notin presented'
    BY <1>6, <1>8, <1>9, <1>14 DEF TokenInv
  <1>16. \A g \in Request : Holds(g)' => req'[g].value \in presented'
    BY <1>9, <1>12 DEF TokenInv
  <1>17. \A f, g \in Request : (Holds(f)' /\ Holds(g)' /\ f # g)
                                 => req'[f].value # req'[g].value
    BY <1>12 DEF TokenInv
  <1>18. \A c \in issued' : c \in chal' \/ c.value \in presented' \/ now' >= c.expires
    BY <1>8, <1>9 DEF TokenInv
  <1>19. \A x \in presented' : \E c \in issued' : c.value = x
    BY <1>9 DEF TokenInv
  <1> QED BY <1>11, <1>13, <1>15, <1>16, <1>17, <1>18, <1>19 DEF TokenInv

\* GETDEL: the challenge leaves Redis and the request holds it alone.
LEMMA TakeStep ==
  ASSUME TokenInv, NEW h \in Request, take(h)
  PROVE  TokenInv'
  <1>1. TypeOK /\ OwnSteps(h)
    BY DEF TokenInv
  <1>2. req[h] # None /\ req[h].op = "token" /\ ~Holds(h)
    BY <1>1 DEF take, At, OwnSteps, OwnStep, Holds
  <1>3. {"expired", "error", "signature"} \subseteq Code /\ "key" \in Working
    BY DEF Code, Working
  <1>4. Kept(h) /\ req'[h].at \in {"done", "key"}
        /\ (req'[h].at = "done" => req'[h].answer # "ok")
    <2>1. CASE Answer(h, "expired")
      BY <1>1, <1>2, <1>3, <2>1, AnswerState
    <2>2. CASE Answer(h, "error")
      BY <1>1, <1>2, <1>3, <2>2, AnswerState
    <2>3. CASE Answer(h, "signature")
      BY <1>1, <1>2, <1>3, <2>3, AnswerState
    <2>4. CASE Go(h, "key")
      BY <1>1, <1>2, <1>3, <2>4, GoState
    <2> QED BY <2>1, <2>2, <2>3, <2>4 DEF take
  <1>5. UNCHANGED <<now, devices, issued, removed>>
    BY DEF take
  <1> DEFINE P == Presented(h)
             V == {c.value : c \in P}
  <1>6. P \subseteq chal /\ \A c \in P : c.value = req[h].value
    BY DEF Presented
  <1>7. \/ chal' = chal \ P /\ presented' = presented \union V
        \/ UNCHANGED <<chal, presented>>
    BY DEF take, GetDel
  <1>8. req'[h].at = "key" =>
          P # {} /\ chal' = chal \ P /\ presented' = presented \union V
    <2>1. CASE Answer(h, "expired") \/ Answer(h, "error") \/ Answer(h, "signature")
      BY <1>1, <1>2, <1>3, <2>1, AnswerState
    <2> QED BY <2>1 DEF take, GetDel
  <1> HIDE DEF P
  <1>9. \A x \in V : x = req[h].value /\ P # {} /\ \E c \in chal : c.value = x
    BY <1>6
  <1>10. P # {} => req[h].value \in V
    BY <1>6
  <1>11. \A c \in chal : c.value = req[h].value => (P # {} => c \in P)
    BY <1>1, <1>6 DEF TypeOK
  <1>12. \A c \in P : c.value \in V
    OBVIOUS
  <1> HIDE DEF V
  <1>13. TypeOK'
    <2>1. chal' \subseteq issued' /\ issued' \subseteq Pending
      BY <1>1, <1>5, <1>7 DEF TypeOK
    <2>2. \A x \in V : x \in Challenge
      BY <1>1, <1>9 DEF TypeOK, Pending
    <2>3. presented' \subseteq Challenge
      BY <1>1, <1>7, <2>2 DEF TypeOK
    <2> QED BY <1>1, <1>4, <1>5, <2>1, <2>3 DEF TypeOK, Kept
  <1>14. \A g \in Request \ {h} : (Holds(g)' <=> Holds(g)) /\ req'[g] = req[g]
    BY <1>4 DEF Kept, Holds
  <1>15. Holds(h)' => /\ req'[h].at = "key" /\ req'[h].value = req[h].value
    BY <1>4 DEF Holds, Kept
  <1>16. \A g \in Request : OwnSteps(g)'
    BY <1>2, <1>4 DEF TokenInv, OwnSteps, OwnStep, Kept
  <1>17. \A c \in chal' : c.value \notin presented'
    <2>1. CASE UNCHANGED <<chal, presented>>
      BY <2>1 DEF TokenInv
    <2>2. CASE chal' = chal \ P /\ presented' = presented \union V
      BY <1>9, <1>11, <2>2 DEF TokenInv
    <2> QED BY <1>7, <2>1, <2>2
  <1>18. presented \subseteq presented'
    BY <1>7
  <1>19. \A g \in Request : Holds(g)' => req'[g].value \in presented'
    BY <1>8, <1>10, <1>14, <1>15, <1>18 DEF TokenInv
  <1>20. Holds(h)' => req[h].value \notin presented
    BY <1>6, <1>8, <1>15 DEF TokenInv
  <1>21. \A f, g \in Request : (Holds(f)' /\ Holds(g)' /\ f # g)
                                 => req'[f].value # req'[g].value
    BY <1>14, <1>15, <1>20 DEF TokenInv
  <1>22. \A c \in issued' : c \in chal' \/ c.value \in presented' \/ now' >= c.expires
    BY <1>5, <1>7, <1>12 DEF TokenInv
  <1>23. \A x \in presented' : \E c \in issued' : c.value = x
    BY <1>1, <1>5, <1>7, <1>9 DEF TokenInv, TypeOK
  <1> QED BY <1>13, <1>16, <1>17, <1>19, <1>21, <1>22, <1>23 DEF TokenInv

LEMMA ArriveStep ==
  ASSUME TokenInv, NEW h \in Request, NEW op \in {"challenge", "token", "register"},
         NEW d \in Device, NEW peer \in Addr, NEW header \in Seq(Line),
         NEW v \in Challenge \union {None}, NEW proof \in BOOLEAN,
         Arrive(h, op, d, peer, header, v, proof)
  PROVE  TokenInv'
  <1>1. TypeOK
    BY DEF TokenInv
  <1> DEFINE at == IF op = "register" THEN "known" ELSE "auth_ip"
             r == [op |-> op, device |-> d, peer |-> peer, header |-> header,
                   value |-> v, proof |-> proof, at |-> at,
                   start |-> now, counted |-> FALSE, answer |-> None, retry |-> 0]
  <1>2. now \in Nat
    BY <1>1 DEF TypeOK
  <1>3. at \in Working /\ OwnStep(op, at) /\ at \notin {"key", "issue", "done"}
    BY DEF Working, OwnStep
  <1>4. /\ req' = [req EXCEPT ![h] = r]
        /\ UNCHANGED <<now, devices, chal, issued, presented, removed>>
        /\ req[h] = None
    BY Zenon DEF Arrive
  <1> HIDE DEF at
  <1>5. r \in RequestState
    BY <1>2, <1>3 DEF RequestState
  <1>6. r.op = op /\ r.at = at
    OBVIOUS
  <1> HIDE DEF r
  <1>7. /\ req' \in [Request -> RequestState \union {None}]
        /\ req'[h] = r /\ \A g \in Request \ {h} : req'[g] = req[g]
    BY <1>1, <1>4, <1>5 DEF TypeOK
  <1>8. TypeOK'
    BY <1>1, <1>4, <1>7 DEF TypeOK
  <1>9. \A g \in Request : OwnSteps(g)'
    BY <1>3, <1>6, <1>7 DEF TokenInv, OwnSteps
  <1>10. \A g \in Request : Holds(g)' => g # h /\ Holds(g) /\ req'[g].value = req[g].value
    BY <1>3, <1>6, <1>7 DEF Holds
  <1>11. \A g \in Request : Holds(g)' => req'[g].value \in presented'
    BY <1>4, <1>10 DEF TokenInv
  <1>12. \A f, g \in Request : (Holds(f)' /\ Holds(g)' /\ f # g)
                                 => req'[f].value # req'[g].value
    BY <1>10 DEF TokenInv
  <1>13. /\ \A c \in chal' : c.value \notin presented'
         /\ \A c \in issued' : c \in chal' \/ c.value \in presented' \/ now' >= c.expires
         /\ \A x \in presented' : \E c \in issued' : c.value = x
    BY <1>4 DEF TokenInv
  <1> QED BY <1>8, <1>9, <1>11, <1>12, <1>13 DEF TokenInv

LEMMA TickStep == ASSUME TokenInv, Tick PROVE TokenInv'
  <1>1. /\ now' = now + 1 /\ chal' = {c \in chal : now' < c.expires}
        /\ UNCHANGED <<devices, req, issued, presented, removed>>
    BY DEF Tick
  <1>2. TypeOK'
    BY <1>1 DEF TokenInv, TypeOK
  <1>3. \A c \in issued' : c \in chal' \/ c.value \in presented' \/ now' >= c.expires
    <2> TAKE c \in issued'
    <2>1. c \in issued /\ c.expires \in Nat /\ now \in Nat
      BY <1>1 DEF TokenInv, TypeOK, Pending
    <2> QED BY <1>1, <2>1 DEF TokenInv
  <1>4. \A g \in Request : (Holds(g)' <=> Holds(g)) /\ OwnSteps(g)'
    BY <1>1 DEF Holds, OwnSteps, TokenInv
  <1> QED BY <1>1, <1>2, <1>3, <1>4 DEF TokenInv

LEMMA DeleteStep == ASSUME TokenInv, NEW d \in Device, Delete(d) PROVE TokenInv'
  <1>1. /\ devices' = devices \ {d} /\ removed' = removed \union {d}
        /\ UNCHANGED <<now, chal, req, issued, presented>>
    BY DEF Delete
  <1>2. TypeOK'
    BY <1>1 DEF TokenInv, TypeOK
  <1>3. \A g \in Request : (Holds(g)' <=> Holds(g)) /\ OwnSteps(g)'
    BY <1>1 DEF Holds, OwnSteps, TokenInv
  <1> QED BY <1>1, <1>2, <1>3 DEF TokenInv

LEMMA StutterStep == ASSUME TokenInv, UNCHANGED vars PROVE TokenInv'
  <1>1. UNCHANGED <<now, devices, chal, req, issued, presented, removed>>
    BY DEF vars
  <1>2. TypeOK'
    BY <1>1 DEF TokenInv, TypeOK
  <1>3. \A g \in Request : (Holds(g)' <=> Holds(g)) /\ OwnSteps(g)'
    BY <1>1 DEF Holds, OwnSteps, TokenInv
  <1> QED BY <1>1, <1>2, <1>3 DEF TokenInv

LEMMA StepToken == TokenInv /\ [Next]_vars => TokenInv'
  <1> SUFFICES ASSUME TokenInv, [Next]_vars PROVE TokenInv'
    OBVIOUS
  <1>1. ASSUME NEW h \in Request, Step(h) PROVE TokenInv'
    BY <1>1, PlainSteps, PutStep, TakeStep, RegistrationStep, Zenon DEF Step
  <1>2. ASSUME NEW h \in Request, NEW op \in {"challenge", "register"}, NEW d \in Device,
               NEW peer \in Addr, NEW header \in Seq(Line),
               NEW proof \in BOOLEAN, Arrive(h, op, d, peer, header, None, proof)
        PROVE  TokenInv'
    BY <1>2, ArriveStep, Zenon
  <1>3. ASSUME NEW h \in Request, NEW d \in Device, NEW peer \in Addr,
               NEW header \in Seq(Line), NEW v \in Challenge,
               NEW proof \in BOOLEAN, Arrive(h, "token", d, peer, header, v, proof)
        PROVE  TokenInv'
    BY <1>3, ArriveStep, Zenon
  <1>4. ASSUME NEW d \in Device, Delete(d) PROVE TokenInv'
    BY <1>4, DeleteStep
  <1>5. CASE Tick
    BY <1>5, TickStep
  <1>6. CASE UNCHANGED vars
    BY <1>6, StutterStep
  <1> QED BY <1>1, <1>2, <1>3, <1>4, <1>5, <1>6, Zenon DEF Next

\* Type correctness of Auth, and no two pending challenges with one value
\* (routes/auth.rs, store/challenges.rs).
THEOREM AuthTypeCorrect == Spec => []TypeOK
  <1>1. TokenInv => TypeOK
    BY DEF TokenInv
  <1> QED BY <1>1, InitToken, StepToken, PTL DEF Spec

\* A challenge buys at most one token, however many requests present it and
\* whatever fails between (take in store/challenges.rs).
THEOREM OneToken == Spec => []SingleUse
  <1>1. TokenInv => SingleUse
    BY DEF TokenInv, SingleUse, Answered, At, Holds
  <1> QED BY <1>1, InitToken, StepToken, PTL DEF Spec

\* A challenge that was handed out is refused as expired only when it was
\* presented before, or after its time (put and challenge_key in
\* store/challenges.rs).
THEOREM NeverLockedOut == Spec => NoLockout
  <1> DEFINE A == \A h \in Request, c \in issued :
                    (take(h) /\ Answered(h, "token", "expired")' /\ req[h].device = c.device
                       /\ req[h].value = c.value)
                      => c.value \in presented \/ now >= c.expires
  <1>1. TokenInv /\ [Next]_vars => [A]_vars
    <2> SUFFICES ASSUME TokenInv, NEW h \in Request, NEW c \in issued, take(h),
                        Answered(h, "token", "expired")', req[h].device = c.device,
                        req[h].value = c.value, c.value \notin presented, ~(now >= c.expires)
                 PROVE  FALSE
      OBVIOUS
    <2>1. TypeOK /\ req[h] # None /\ OwnSteps(h)
      BY DEF TokenInv, take, At
    <2>2. c \in chal
      BY DEF TokenInv
    <2>3. c.expires \in Nat /\ now \in Nat
      BY <2>1 DEF TypeOK, Pending
    <2>4. c \in Presented(h)
      BY <2>2, <2>3 DEF Presented
    <2>5. {"error", "signature"} \subseteq Code /\ "key" \in Working
      BY DEF Code, Working
    <2>6. CASE Answer(h, "error") \/ Answer(h, "signature")
      BY <2>1, <2>5, <2>6, AnswerState DEF Answered
    <2>7. CASE Go(h, "key")
      BY <2>1, <2>5, <2>7, GoState DEF Answered, At
    <2> QED BY <2>4, <2>6, <2>7 DEF take
  <1> QED BY <1>1, InitToken, StepToken, PTL DEF Spec, NoLockout
=============================================================================
