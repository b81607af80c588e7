----------------------------- MODULE PushProofs -----------------------------
(***************************************************************************)
(* Proofs about Push: the types, and that wakes are coalesced, for every   *)
(* set of devices, tokens and concurrent calls.                            *)
(***************************************************************************)
EXTENDS Push, TLAPS

\* Every leaf that names no prover is left to SMT.
USE SMTT(60)

\* What the steps of a call may do to its record.
LEMMA CallFacts ==
    ASSUME NEW c \in Call
    PROVE  /\ Idle \in Call
           /\ \A s \in Steps : [c EXCEPT !.at = s] \in Call
           /\ \A req \in Valid : [Idle EXCEPT !.at = "target", !.req = req] \in Call
           /\ \A t \in Token, s \in Steps : [c EXCEPT !.token = t, !.at = s] \in Call
           /\ \A j \in {"good", "expired"}, s \in Steps : [c EXCEPT !.at = s, !.jwt = j] \in Call
           /\ \A j \in {"good", "expired"} : [c EXCEPT !.jwt = j] \in Call
           /\ \A x, y \in BOOLEAN, s \in Steps :
                 [c EXCEPT !.at = s, !.renewed = x, !.retried = y] \in Call
           /\ \A e \in {"TokenInvalid", "Failed"}, s \in Steps :
                 [c EXCEPT !.at = s, !.outcome = e] \in Call
  BY ZenonT(60) DEF Call, Idle, Steps

\* The part of TypeOK about the call of one handler.
CallOK(c) ==
    /\ c \in Call
    /\ c.at # "idle" => c.req \in Valid
    /\ c.at \notin {"idle", "target"} => c.token \in Token
    /\ c.at \in {"coalesce", "fetch", "forget"} => c.req.kind = "wake"

\* The rest of it, without the calls.
RestOK ==
    /\ configured \subseteq Provider
    /\ paired \subseteq Device
    /\ stored \in [Device -> Token \cup {None}]
    /\ live \subseteq Token
    /\ wake \subseteq Key
    /\ credential \in [Provider -> {"none", "good", "old", "expired"}]
    /\ access \in Handler \cup {None}
    /\ sent \in [Key -> Nat]
    /\ stuck \subseteq Key
    /\ \A d \in Device :
          stored[d] # None =>
              /\ Platform[d] # "macos"
              /\ Platform[d] = "android" <=> TokenProvider[stored[d]] = "fcm"

\* The two parts make up TypeOK.
LEMMA TypeParts ==
    TypeOK <=> RestOK /\ call \in [Handler -> Call] /\ \A h \in Handler : CallOK(call[h])
  BY DEF TypeOK, RestOK, CallOK

\* A step that replaces the record of one call by a good one.
LEMMA CallReplaced ==
    ASSUME TypeOK, RestOK', NEW h \in Handler, NEW c, CallOK(c),
           call' = [call EXCEPT ![h] = c]
    PROVE  TypeOK'
  <1>1. call \in [Handler -> Call] /\ \A g \in Handler : CallOK(call[g])
    BY TypeParts
  <1>2. call' \in [Handler -> Call] /\ \A g \in Handler : CallOK(call'[g])
    BY <1>1 DEF CallOK
  <1> QED
    BY <1>2 DEF TypeOK, RestOK, CallOK

\* An idle handler has a good record.
LEMMA IdleOK == CallOK(Idle)
  BY Zenon, CallFacts DEF CallOK, Idle, Call, Steps

\* The wake key of a valid wake (wake_key) is a key.
LEMMA KeyFacts ==
    ASSUME NEW req \in Valid, req.kind = "wake"
    PROVE  wake_key(req) \in Key
  BY DEF wake_key, Key, Valid, Request, validate_push, kind, Reason, WakeReasons, AlertReasons

\* Leaving the send loop without having sent.
LEMMA EndedOK ==
    ASSUME TypeOK, RestOK', NEW h \in Handler, call[h].at \in {"token", "fetch", "request"},
           NEW outcome \in {"TokenInvalid", "Failed"}, Ended(h, outcome)
    PROVE  TypeOK'
  <1> DEFINE f == [call[h] EXCEPT !.at = "forget", !.outcome = outcome]
  <1> DEFINE k == [call[h] EXCEPT !.at = "clear", !.outcome = outcome]
  <1>1. CallOK(call[h]) /\ call \in [Handler -> Call]
    BY TypeParts
  <1>2. (call[h].req.kind = "wake" => CallOK(f)) /\ CallOK(k)
    BY Zenon, <1>1 DEF CallOK, Call, Steps
  <1>3. \/ call[h].req.kind = "wake" /\ call' = [call EXCEPT ![h] = f]
        \/ call' = [call EXCEPT ![h] = k]
        \/ call' = [call EXCEPT ![h] = Idle]
    BY Zenon, <1>1 DEF Ended, Respond
  <1> HIDE DEF f, k
  <1> QED
    BY <1>2, <1>3, IdleOK, CallReplaced

\* One turn of the send loop.
LEMMA TurnOK ==
    ASSUME TypeOK, NEW h \in Handler, call[h].at = "request",
           NEW verdict \in {"Sent", "Unregistered", "RenewToken", "Retry", "Reject"},
           Turn(h, verdict), UNCHANGED <<configured, paired, stored, live, wake, credential, access, stuck>>
    PROVE  TypeOK'
  <1>1. CallOK(call[h]) /\ call \in [Handler -> Call] /\ RestOK
    BY TypeParts
  <1>2. CASE Sent(h)
    <2>1. call[h].req.kind = "wake" => wake_key(call[h].req) \in Key
      BY <1>1, KeyFacts DEF CallOK
    <2>2. RestOK'
      BY <1>1, <1>2, <2>1 DEF RestOK, Sent
    <2> QED
      BY Zenon, <1>2, <2>2, IdleOK, CallReplaced DEF Sent, Respond
  <1>3. ASSUME NEW x \in BOOLEAN, NEW y \in BOOLEAN,
               call' = [call EXCEPT ![h].at = "token", ![h].renewed = x, ![h].retried = y],
               UNCHANGED sent
        PROVE  TypeOK'
    <2> DEFINE c == [call[h] EXCEPT !.at = "token", !.renewed = x, !.retried = y]
    <2>1. CallOK(c)
      BY ZenonT(60), <1>1 DEF CallOK, Call, Steps
    <2>2. call' = [call EXCEPT ![h] = c]
      BY Zenon, <1>1, <1>3
    <2>3. RestOK'
      BY <1>1, <1>3 DEF RestOK
    <2> HIDE DEF c
    <2> QED
      BY Zenon, <2>1, <2>2, <2>3, CallReplaced
  <1>4. ASSUME NEW outcome \in {"TokenInvalid", "Failed"}, Ended(h, outcome),
               UNCHANGED sent
        PROVE  TypeOK'
    <2>1. RestOK'
      BY <1>1, <1>4 DEF RestOK
    <2> QED
      BY <1>4, <2>1, EndedOK
  <1>5. call[h].renewed \in BOOLEAN /\ call[h].retried \in BOOLEAN
    BY <1>1 DEF CallOK, Call
  <1> DEFINE renew == verdict = "RenewToken" /\ ~call[h].renewed
  <1> DEFINE again == verdict = "Retry" /\ ~call[h].retried
  <1>6. /\ (call[h].renewed \/ renew) \in BOOLEAN
        /\ (call[h].retried \/ again) \in BOOLEAN
    BY <1>5, Zenon
  <1>7. (IF verdict = "Unregistered" THEN "TokenInvalid" ELSE "Failed") \in {"TokenInvalid", "Failed"}
    OBVIOUS
  <1>8. CASE /\ renew \/ again
             /\ call' = [call EXCEPT ![h].at = "token", ![h].renewed = @ \/ renew,
                                     ![h].retried = @ \/ again]
             /\ UNCHANGED sent
    <2>1. call' = [call EXCEPT ![h].at = "token",
                               ![h].renewed = call[h].renewed \/ renew,
                               ![h].retried = call[h].retried \/ again]
      BY <1>1, <1>8 DEF CallOK, Call
    <2> QED
      BY Zenon, <1>3, <1>6, <1>8, <2>1
  <1> QED
    BY <1>2, <1>4, <1>7, <1>8, Zenon DEF Turn

\* The verdicts on a provider's answers.
LEMMA VerdictFacts ==
    ASSUME NEW req, NEW token, NEW jwt, NEW v \in Verdicts(req, token, jwt)
    PROVE  v \in {"Sent", "Unregistered", "RenewToken", "Retry", "Reject"}
  BY DEF Verdicts, apns_verdict, fcm_verdict

\* The steps of a call keep the types.
LEMMA StepTypes ==
    ASSUME TypeOK, NEW h \in Handler, Step(h) \/ \E req \in Request : Push(h, req)
    PROVE  TypeOK'
  <1>0. CallOK(call[h]) /\ call \in [Handler -> Call] /\ RestOK
    BY TypeParts
  <1>i. ASSUME Respond(h), RestOK'
        PROVE  TypeOK'
    BY Zenon, <1>i, IdleOK, CallReplaced DEF Respond
  <1>g. ASSUME NEW s \in Steps, Goto(h, s), RestOK', call[h].at \notin {"idle", "target"},
               s \in {"coalesce", "fetch", "forget"} => call[h].req.kind = "wake"
        PROVE  TypeOK'
    <2> DEFINE c == [call[h] EXCEPT !.at = s]
    <2>1. CallOK(c)
      BY <1>0, <1>g DEF CallOK, Call, Steps
    <2>2. call' = [call EXCEPT ![h] = c]
      BY <1>0, <1>g DEF Goto
    <2> HIDE DEF c
    <2> QED
      BY Zenon, <1>g, <2>1, <2>2, CallReplaced
  <1>j. ASSUME NEW j \in {"good", "expired"}, RestOK', call[h].at \in {"token", "fetch"},
               call' = [call EXCEPT ![h].at = "request", ![h].jwt = j]
        PROVE  TypeOK'
    <2> DEFINE c == [call[h] EXCEPT !.at = "request", !.jwt = j]
    <2>1. CallOK(c)
      BY Zenon, <1>0, <1>j DEF CallOK, Call, Steps
    <2>2. call' = [call EXCEPT ![h] = c]
      BY Zenon, <1>0, <1>j
    <2> HIDE DEF c
    <2> QED
      BY Zenon, <1>j, <2>1, <2>2, CallReplaced
  <1>k. call[h].at \in Steps /\ {"token", "fetch", "forget", "clear", "coalesce"} \subseteq Steps
    BY <1>0 DEF CallOK, Call, Steps
  <1>1. ASSUME NEW req \in Request, Push(h, req)
        PROVE  TypeOK'
    <2> DEFINE c == [Idle EXCEPT !.at = "target", !.req = req]
    <2>1. req \in Valid
      BY Zenon, <1>1 DEF Push, Valid
    <2>2. CallOK(c)
      BY ZenonT(60), <1>0, <2>1, CallFacts DEF CallOK, Idle
    <2>3. RestOK' /\ call' = [call EXCEPT ![h] = c]
      BY ZenonT(60), <1>0, <1>1 DEF RestOK, Push
    <2> HIDE DEF c
    <2> QED
      BY ZenonT(60), <2>2, <2>3, CallReplaced
  <1>2. CASE ReadTarget(h)
    <2> DEFINE req == call[h].req
    <2> DEFINE token == stored[req.to]
    <2> DEFINE s == IF req.kind = "wake" THEN "coalesce" ELSE "token"
    <2> DEFINE c == [call[h] EXCEPT !.token = token, !.at = s]
    <2>1. RestOK'
      BY <1>0, <1>2 DEF RestOK, ReadTarget
    <2>2. CASE Respond(h)
      BY <1>i, <2>1, <2>2
    <2>3. CASE token # None /\ call' = [call EXCEPT ![h].token = token, ![h].at = s]
      <3>1. req \in Valid /\ req.to \in Device
        BY <1>0, <1>2 DEF ReadTarget, CallOK, Valid, Request
      <3>2. token \in Token
        BY <1>0, <2>3, <3>1 DEF RestOK
      <3>3. CallOK(c)
        BY Zenon, <1>0, <1>2, <3>1, <3>2 DEF CallOK, Call, Steps, ReadTarget
      <3>4. call' = [call EXCEPT ![h] = c]
        BY Zenon, <1>0, <2>3
      <3> HIDE DEF c
      <3> QED
        BY Zenon, <2>1, <3>3, <3>4, CallReplaced
    <2> QED
      BY <1>2, <2>2, <2>3 DEF ReadTarget
  <1>3. CASE Coalesce(h) \/ CoalesceFails(h)
    <2>1. call[h].req \in Valid /\ call[h].at = "coalesce"
      BY <1>0, <1>3 DEF CallOK, Coalesce, CoalesceFails
    <2>2. call[h].req.kind = "wake" => wake_key(call[h].req) \in Key
      BY <2>1, KeyFacts
    <2>3. call[h].req.kind = "wake"
      BY <1>0, <2>1 DEF CallOK
    <2>4. RestOK'
      BY <1>0, <1>3, <2>2, <2>3 DEF RestOK, Coalesce, CoalesceFails
    <2> QED
      BY <1>3, <1>g, <1>i, <1>k, <2>1, <2>4 DEF Coalesce, CoalesceFails
  <1>4. CASE NotConfigured(h)
    <2>1. RestOK'
      BY <1>0, <1>4 DEF RestOK, NotConfigured
    <2> QED
      BY <1>4, <2>1, EndedOK DEF NotConfigured
  <1>5. CASE ApnsToken(h)
    <2>1. RestOK'
      BY <1>0, <1>5 DEF RestOK, ApnsToken
    <2>2. (IF ~call[h].renewed /\ credential["apns"] \in {"good", "expired"}
             THEN credential["apns"] ELSE "good") \in {"good", "expired"}
      OBVIOUS
    <2> QED
      BY ZenonT(60), <1>5, <1>j, <2>1, <2>2 DEF ApnsToken
  <1>6. CASE FcmToken(h)
    <2>1. RestOK'
      BY <1>0, <1>6 DEF RestOK, FcmToken
    <2>2. call[h].req.kind = "wake"
      BY <1>6 DEF FcmToken, client
    <2> QED
      BY <1>6, <1>g, <1>j, <1>k, <2>1, <2>2 DEF FcmToken
  <1>7. CASE FcmFetch(h)
    <2>1. RestOK'
      BY <1>0, <1>7 DEF RestOK, FcmFetch
    <2> QED
      BY <1>7, <1>j, <2>1, EndedOK DEF FcmFetch
  <1>8. CASE Answered(h)
    BY <1>8, VerdictFacts, TurnOK DEF Answered
  <1>9. CASE NoAnswer(h)
    BY <1>9, TurnOK DEF NoAnswer
  <1>10. CASE Forget(h)
    <2>2. call[h].req \in Valid /\ call[h].req.kind = "wake"
      BY <1>0, <1>10 DEF CallOK, Forget
    <2>3. wake_key(call[h].req) \in Key
      BY <2>2, KeyFacts
    <2>1. RestOK'
      BY <1>0, <1>10, <2>3 DEF RestOK, Forget
    <2> QED
      BY <1>10, <1>g, <1>i, <1>k, <2>1 DEF Forget
  <1>11. CASE ClearToken(h)
    <2>1. RestOK'
      BY <1>0, <1>11 DEF RestOK, ClearToken
    <2> QED
      BY <1>11, <1>i, <2>1 DEF ClearToken
  <1> QED
    BY <1>1, <1>2, <1>3, <1>4, <1>5, <1>6, <1>7, <1>8, <1>9, <1>10, <1>11 DEF Step

\* A dropped call keeps the types.
LEMMA DropTypes ==
    ASSUME TypeOK, NEW h \in Handler, Drop(h)
    PROVE  TypeOK'
  <1>1. CallOK(call[h]) /\ call \in [Handler -> Call] /\ RestOK
    BY TypeParts
  <1>2. call[h].req \in Valid /\ (call[h].req.kind = "wake" => wake_key(call[h].req) \in Key)
    BY <1>1, KeyFacts DEF CallOK, Drop
  <1>3. wake' \subseteq Key /\ sent' \in [Key -> Nat] /\ stuck' \subseteq Key
    <2>1. call[h].at \in {"coalesce", "forget"} => call[h].req.kind = "wake"
      BY Zenon, <1>1 DEF CallOK
    <2>2. wake \subseteq Key /\ sent \in [Key -> Nat] /\ stuck \subseteq Key
      BY Zenon, <1>1 DEF RestOK
    <2> DEFINE k == wake_key(call[h].req)
    <2>3. \/ /\ stuck' = stuck \cup {q \in Key : Holds(h, q)}
             /\ UNCHANGED <<wake, sent>>
          \/ k \in Key /\ wake' = wake \cup {k} /\ stuck' = stuck \cup (wake' \ wake) /\ UNCHANGED sent
          \/ k \in Key /\ sent' = [sent EXCEPT ![k] = @ + 1] /\ UNCHANGED <<wake, stuck>>
          \/ wake' = wake \ {k} /\ UNCHANGED <<sent, stuck>>
      BY Zenon, <1>2, <2>1 DEF Drop
    <2> HIDE DEF k
    <2> QED
      BY <2>2, <2>3
  <1>4. /\ stored' = stored \/ stored' = [stored EXCEPT ![call[h].req.to] = None]
        /\ access' = None \/ access' = access
        /\ UNCHANGED <<configured, paired, live, credential>>
        /\ Respond(h)
    BY Zenon DEF Drop
  <1>5. RestOK'
    BY <1>1, <1>3, <1>4 DEF RestOK
  <1> QED
    BY Zenon, <1>4, <1>5, IdleOK, CallReplaced DEF Respond

\* What the devices, the providers and Redis do keeps the types.
LEMMA OutsideTypes ==
    ASSUME TypeOK,
           \/ Restart
           \/ \E d \in Device : Unpair(d) \/ \E t \in Token : put_push_token(d, t)
           \/ \E t \in Token : TokenDies(t)
           \/ \E p \in Provider : CredentialAges(p) \/ CredentialExpires(p)
           \/ \E key \in Key : WakeExpires(key)
    PROVE  TypeOK'
  <1>0. RestOK /\ call \in [Handler -> Call] /\ \A h \in Handler : CallOK(call[h])
    BY TypeParts
  <1>f. ASSUME RestOK', UNCHANGED call
        PROVE  TypeOK'
    BY <1>0, <1>f DEF TypeOK, RestOK, CallOK
  <1>1. ASSUME NEW d \in Device, Unpair(d)
        PROVE  TypeOK'
    <2>1. RestOK'
      BY <1>0, <1>1 DEF RestOK, Unpair
    <2> QED
      BY <1>1, <1>f, <2>1 DEF Unpair
  <1>2. ASSUME NEW d \in Device, NEW t \in Token, put_push_token(d, t)
        PROVE  TypeOK'
    <2>1. RestOK'
      BY <1>0, <1>2, PushAssumption DEF RestOK, put_push_token, validate_push_token, Provider
    <2> QED
      BY <1>2, <1>f, <2>1 DEF put_push_token
  <1>3. ASSUME NEW t \in Token, TokenDies(t)
        PROVE  TypeOK'
    <2>1. RestOK'
      BY <1>0, <1>3 DEF RestOK, TokenDies
    <2> QED
      BY <1>3, <1>f, <2>1 DEF TokenDies
  <1>4. ASSUME NEW p \in Provider, CredentialAges(p)
        PROVE  TypeOK'
    <2>1. RestOK'
      BY <1>0, <1>4 DEF RestOK, CredentialAges
    <2> QED
      BY <1>4, <1>f, <2>1 DEF CredentialAges
  <1>5. ASSUME NEW p \in Provider, CredentialExpires(p)
        PROVE  TypeOK'
    <2>1. RestOK'
      BY <1>0, <1>5 DEF RestOK, CredentialExpires
    <2>2. ASSUME NEW h \in Handler
          PROVE  CallOK([call[h] EXCEPT !.jwt = "expired"])
      BY <1>0 DEF CallOK, Call
    <2>3. \A h \in Handler : call'[h] \in {call[h], [call[h] EXCEPT !.jwt = "expired"]}
      BY <1>5 DEF CredentialExpires
    <2>4. \A h \in Handler : CallOK(call'[h])
      BY <1>0, <2>2, <2>3
    <2>5. call' = [h \in Handler |-> call'[h]]
      BY <1>5 DEF CredentialExpires
    <2>6. call' \in [Handler -> Call]
      BY <2>4, <2>5 DEF CallOK
    <2> QED
      BY <2>1, <2>4, <2>6 DEF TypeOK, RestOK, CallOK
  <1>7. CASE Restart
    <2>1. RestOK'
      BY <1>0, <1>7 DEF RestOK, Restart
    <2> QED
      BY <1>7, <1>f, <2>1 DEF Restart
  <1>6. ASSUME NEW key \in Key, WakeExpires(key)
        PROVE  TypeOK'
    <2>1. RestOK'
      BY <1>0, <1>6 DEF RestOK, WakeExpires
    <2> QED
      BY <1>6, <1>f, <2>1 DEF WakeExpires
  <1> QED
    BY <1>1, <1>2, <1>3, <1>4, <1>5, <1>6, <1>7

\* The initial state has the types.
LEMMA InitTypes == Init => TypeOK
  <1> SUFFICES ASSUME Init PROVE TypeOK
    OBVIOUS
  <1>1. RestOK
    BY DEF Init, RestOK
  <1>2. call \in [Handler -> Call] /\ \A h \in Handler : CallOK(call[h])
    BY IdleOK DEF Init, CallOK
  <1> QED
    BY <1>1, <1>2, TypeParts

\* Every step keeps the types.
LEMMA NextTypes == TypeOK /\ [Next]_vars => TypeOK'
  <1>1. ASSUME TypeOK, UNCHANGED vars
        PROVE  TypeOK'
    BY <1>1 DEF TypeOK, vars
  <1> QED
    BY <1>1, StepTypes, DropTypes, OutsideTypes DEF Next

\* The variables keep their types: a call in progress has a valid request and,
\* past push_target, a token; only calls for a wake touch wake keys and FCM's
\* lock; and a device only has a token of a provider that fits its platform.
THEOREM PushTypeCorrect == Spec => []TypeOK
  BY InitTypes, NextTypes, PTL DEF Spec

-----------------------------------------------------------------------------

\* The life of a wake key: set by one call, which holds it until it has sent
\* the wake or forgets the key.
Window(key) ==
    /\ sent[key] <= 1
    /\ sent[key] = 1 => key \in wake
    /\ \A h \in Handler : Holds(h, key) => key \in wake /\ sent[key] = 0
    /\ \A g, h \in Handler : Holds(g, key) /\ Holds(h, key) => g = h
    /\ key \in stuck => key \in wake /\ \A h \in Handler : ~Holds(h, key)
    /\ key \in wake \ stuck /\ sent[key] = 0 => \E h \in Handler : Holds(h, key)

Windows == \A key \in Key : Window(key)

\* What does not touch a key or its holders keeps its window.
LEMMA WindowFrame ==
    ASSUME NEW key, Window(key), sent'[key] = sent[key], key \in wake' <=> key \in wake,
           key \in stuck' <=> key \in stuck,
           \A h \in Handler : Holds(h, key)' <=> Holds(h, key)
    PROVE  Window(key)'
  BY DEF Window

\* A step of one call does not change what another one holds.
LEMMA OthersHold ==
    ASSUME TypeOK, NEW h \in Handler, NEW c, call' = [call EXCEPT ![h] = c], NEW key
    PROVE  /\ \A g \in Handler \ {h} : Holds(g, key)' <=> Holds(g, key)
           /\ Holds(h, key)' <=> /\ c.at \in {"token", "fetch", "request", "forget"}
                                 /\ c.req.kind = "wake"
                                 /\ wake_key(c.req) = key
  <1>1. call'[h] = c /\ \A g \in Handler \ {h} : call'[g] = call[g]
    BY DEF TypeOK
  <1> QED
    BY <1>1 DEF Holds, wake_key

\* A step of a call that keeps holding what it held.
LEMMA KeepsHolding ==
    ASSUME TypeOK, Windows, NEW h \in Handler, NEW c, call' = [call EXCEPT ![h] = c],
           c.req = call[h].req, UNCHANGED <<wake, sent, stuck>>,
           call[h].at \in {"token", "fetch", "request"},
           c.at \in {"token", "fetch", "request", "forget"}
    PROVE  Windows'
  <1> SUFFICES ASSUME NEW key \in Key PROVE Window(key)'
    BY DEF Windows
  <1>1. Holds(h, key)' <=> Holds(h, key)
    BY OthersHold DEF Holds
  <1>2. \A g \in Handler : Holds(g, key)' <=> Holds(g, key)
    BY Zenon, <1>1, OthersHold
  <1> QED
    BY <1>2, WindowFrame DEF Windows

\* A step of a call that holds nothing, before or after; a SET NX whose answer
\* is lost may leave keys behind.
LEMMA HoldsNothing ==
    ASSUME TypeOK, Windows, NEW h \in Handler, NEW c, call' = [call EXCEPT ![h] = c],
           UNCHANGED sent, wake \subseteq wake', stuck' = stuck \cup (wake' \ wake),
           \/ call[h].at \in {"idle", "target", "coalesce", "clear"}
           \/ call[h].req.kind # "wake",
           \/ c.at \in {"idle", "target", "coalesce", "clear"}
           \/ c.req.kind # "wake"
    PROVE  Windows'
  <1> SUFFICES ASSUME NEW key \in Key PROVE Window(key)'
    BY DEF Windows
  <1>1. ~Holds(h, key) /\ ~Holds(h, key)'
    BY OthersHold DEF Holds
  <1>2. \A g \in Handler : Holds(g, key)' <=> Holds(g, key)
    BY Zenon, <1>1, OthersHold
  <1>3. sent[key] \in Nat
    BY DEF TypeOK
  <1> QED
    BY <1>2, <1>3 DEF Windows, Window

\* SET NX finds no key: the call holds it from now on.
LEMMA TakesKey ==
    ASSUME TypeOK, Windows, NEW h \in Handler, Coalesce(h),
           wake_key(call[h].req) \notin wake
    PROVE  Windows'
  <1> DEFINE c == [call[h] EXCEPT !.at = "token"]
  <1> DEFINE k == wake_key(call[h].req)
  <1>1. call[h] \in Call /\ call[h].req.kind = "wake" /\ call[h].at = "coalesce"
    BY DEF TypeOK, Coalesce
  <1>2. call' = [call EXCEPT ![h] = c] /\ wake' = wake \cup {k} /\ UNCHANGED <<sent, stuck>>
    BY DEF TypeOK, Coalesce, Goto
  <1>3. c.at = "token" /\ c.req = call[h].req
    BY <1>1 DEF Call
  <1> HIDE DEF c
  <1> SUFFICES ASSUME NEW key \in Key PROVE Window(key)'
    BY DEF Windows
  <1>h. ~Holds(h, key)
    BY <1>1 DEF Holds
  <1>k. wake_key(c.req) = k /\ c.req.kind = "wake"
    BY <1>1, <1>3
  <1>t. Holds(h, key)' <=> /\ c.at \in {"token", "fetch", "request", "forget"}
                           /\ c.req.kind = "wake"
                           /\ wake_key(c.req) = key
    BY Zenon, <1>2, OthersHold
  <1>4. ~Holds(h, key) /\ (Holds(h, key)' <=> k = key)
    BY <1>3, <1>h, <1>k, <1>t
  <1>5. \A g \in Handler \ {h} : Holds(g, key)' <=> Holds(g, key)
    BY ZenonT(60), <1>2, OthersHold
  <1>6. sent[key] \in Nat /\ Window(key) /\ k \notin wake
    BY DEF TypeOK, Windows
  <1> HIDE DEF k
  <1>7. CASE key = k
    BY <1>2, <1>4, <1>5, <1>6, <1>7 DEF Window
  <1>8. CASE key # k
    <2>1. \A g \in Handler : Holds(g, key)' <=> Holds(g, key)
      BY <1>4, <1>5, <1>8
    <2> QED
      BY <1>2, <1>6, <1>8, <2>1, WindowFrame
  <1> QED
    BY <1>7, <1>8

\* The holder of a key sends its wake, or forgets the key (a failing DEL keeps
\* it), and holds it no longer.
LEMMA GivesUpKey ==
    ASSUME TypeOK, Windows, NEW h \in Handler, NEW c, call' = [call EXCEPT ![h] = c],
           c.at \in {"idle", "clear"}, NEW k, Holds(h, k),
           \/ sent' = [sent EXCEPT ![k] = @ + 1] /\ UNCHANGED <<wake, stuck>>
           \/ wake' = wake \ {k} /\ UNCHANGED <<sent, stuck>>
           \/ stuck' = stuck \cup {k} /\ UNCHANGED <<wake, sent>>
    PROVE  Windows'
  <1> SUFFICES ASSUME NEW key \in Key PROVE Window(key)'
    BY DEF Windows
  <1>1. ~Holds(h, key)' /\ (Holds(h, key) <=> key = k)
    BY ZenonT(60), OthersHold DEF Holds
  <1>2. \A g \in Handler \ {h} : Holds(g, key)' <=> Holds(g, key)
    BY Zenon, OthersHold
  <1>3. sent[key] \in Nat /\ sent \in [Key -> Nat] /\ Window(key)
    BY DEF TypeOK, Windows
  <1>4. CASE key = k
    <2>1. sent[key] = 0 /\ key \in wake \ stuck /\ \A g \in Handler \ {h} : ~Holds(g, key)
      BY <1>1, <1>3, <1>4 DEF Window
    <2>2. \A g \in Handler : ~Holds(g, key)'
      BY <1>1, <1>2, <2>1
    <2> QED
      BY <1>3, <1>4, <2>1, <2>2 DEF Window
  <1>5. CASE key # k
    <2>1. \A g \in Handler : Holds(g, key)' <=> Holds(g, key)
      BY <1>1, <1>2, <1>5
    <2>2. /\ sent'[key] = sent[key] /\ (key \in wake' <=> key \in wake)
          /\ key \in stuck' <=> key \in stuck
      BY <1>3, <1>5
    <2> QED
      BY <1>3, <2>1, <2>2, WindowFrame
  <1> QED
    BY <1>4, <1>5

\* Leaving the send loop without having sent keeps the key until it is
\* forgotten.
LEMMA EndedWindow ==
    ASSUME TypeOK, Windows, NEW h \in Handler, NEW outcome, Ended(h, outcome),
           call[h].at \in {"token", "fetch", "request"}, UNCHANGED <<wake, sent, stuck>>
    PROVE  Windows'
  <1>1. call \in [Handler -> Call] /\ call[h] \in Call
    BY DEF TypeOK
  <1>2. CASE call[h].req.kind = "wake"
    <2> DEFINE c == [call[h] EXCEPT !.at = "forget", !.outcome = outcome]
    <2>1. call' = [call EXCEPT ![h] = c] /\ c.at = "forget" /\ c.req = call[h].req
      BY Zenon, <1>1, <1>2 DEF Ended, Call
    <2> HIDE DEF c
    <2> QED
      BY Zenon, <2>1, KeepsHolding
  <1>3. CASE call[h].req.kind # "wake"
    <2> DEFINE c == [call[h] EXCEPT !.at = "clear", !.outcome = outcome]
    <2>1. call' = [call EXCEPT ![h] = c] \/ call' = [call EXCEPT ![h] = Idle]
      BY Zenon, <1>1, <1>3 DEF Ended, Respond
    <2>2. c.at = "clear" /\ Idle.at = "idle"
      BY <1>1 DEF Call, Idle
    <2> HIDE DEF c
    <2> QED
      BY <1>3, <2>1, <2>2, HoldsNothing
  <1> QED
    BY <1>2, <1>3

\* A turn of the send loop sends the wake, goes round again or leaves.
LEMMA TurnWindow ==
    ASSUME TypeOK, Windows, NEW h \in Handler, NEW verdict, Turn(h, verdict),
           call[h].at = "request", UNCHANGED <<wake, stuck>>
    PROVE  Windows'
  <1>1. call \in [Handler -> Call] /\ call[h] \in Call /\ call[h].req \in Valid
    BY DEF TypeOK
  <1>2. CASE Sent(h)
    <2>1. call' = [call EXCEPT ![h] = Idle] /\ Idle.at = "idle"
      BY <1>2 DEF Sent, Respond, Idle
    <2>2. CASE call[h].req.kind = "wake"
      <3> DEFINE k == wake_key(call[h].req)
      <3>1. Holds(h, k) /\ sent' = [sent EXCEPT ![k] = @ + 1]
        BY <1>2, <2>2 DEF Sent, Holds
      <3> HIDE DEF k
      <3> QED
        BY Zenon, <2>1, <3>1, GivesUpKey
    <2>3. CASE call[h].req.kind # "wake"
      <3>1. UNCHANGED sent
        BY <1>2, <2>3 DEF Sent
      <3> QED
        BY Zenon, <2>1, <2>3, <3>1, HoldsNothing
    <2> QED
      BY <2>2, <2>3
  <1>3. ASSUME NEW x, NEW y, UNCHANGED sent,
               call' = [call EXCEPT ![h].at = "token", ![h].renewed = x, ![h].retried = y]
        PROVE  Windows'
    <2> DEFINE c == [call[h] EXCEPT !.at = "token", !.renewed = x, !.retried = y]
    <2>1. call' = [call EXCEPT ![h] = c] /\ c.at = "token" /\ c.req = call[h].req
      BY Zenon, <1>1, <1>3 DEF Call
    <2> HIDE DEF c
    <2> QED
      BY Zenon, <1>3, <2>1, KeepsHolding
  <1>4. ASSUME NEW outcome, Ended(h, outcome), UNCHANGED sent
        PROVE  Windows'
    BY <1>4, EndedWindow
  <1> DEFINE renew == verdict = "RenewToken" /\ ~call[h].renewed
  <1> DEFINE again == verdict = "Retry" /\ ~call[h].retried
  <1>5. CASE /\ call' = [call EXCEPT ![h].at = "token", ![h].renewed = @ \/ renew,
                                     ![h].retried = @ \/ again]
             /\ UNCHANGED sent
    <2>1. call' = [call EXCEPT ![h].at = "token",
                               ![h].renewed = call[h].renewed \/ renew,
                               ![h].retried = call[h].retried \/ again]
      BY <1>1, <1>5 DEF Call
    <2> QED
      BY Zenon, <1>3, <1>5, <2>1
  <1> QED
    BY <1>2, <1>4, <1>5, Zenon DEF Turn

\* The steps of a call keep the windows.
LEMMA StepWindows ==
    ASSUME TypeOK, Windows, NEW h \in Handler,
           Step(h) \/ \E req \in Request : Push(h, req)
    PROVE  Windows'
  <1>1. call \in [Handler -> Call] /\ call[h] \in Call /\ Idle.at = "idle"
    BY DEF TypeOK, Idle
  <1>i. ASSUME Respond(h), UNCHANGED sent, wake \subseteq wake',
               stuck' = stuck \cup (wake' \ wake),
               \/ call[h].at \in {"idle", "target", "coalesce", "clear"}
               \/ call[h].req.kind # "wake"
        PROVE  Windows'
    <2>1. call' = [call EXCEPT ![h] = Idle]
      BY <1>i DEF Respond
    <2> QED
      BY Zenon, <1>1, <1>i, <2>1, HoldsNothing
  <1>2. ASSUME NEW req \in Request, Push(h, req)
        PROVE  Windows'
    <2> DEFINE c == [Idle EXCEPT !.at = "target", !.req = req]
    <2>1. call' = [call EXCEPT ![h] = c] /\ c.at = "target" /\ call[h].at = "idle"
      BY Zenon, <1>2 DEF Push, Idle
    <2>2. UNCHANGED <<wake, sent, stuck>>
      BY Zenon, <1>2 DEF Push
    <2> HIDE DEF c
    <2> QED
      BY ZenonT(60), <2>1, <2>2, HoldsNothing
  <1>3. CASE ReadTarget(h)
    <2> DEFINE s == IF call[h].req.kind = "wake" THEN "coalesce" ELSE "token"
    <2> DEFINE c == [call[h] EXCEPT !.token = stored[call[h].req.to], !.at = s]
    <2>1. call[h].at = "target" /\ UNCHANGED <<wake, sent, stuck>>
      BY <1>3 DEF ReadTarget
    <2>2. Respond(h) \/ call' = [call EXCEPT ![h] = c]
      BY Zenon, <1>1, <1>3 DEF ReadTarget
    <2>3. c.at = "coalesce" \/ c.req.kind # "wake"
      BY <1>1 DEF Call
    <2> HIDE DEF c
    <2> QED
      BY <1>i, <2>1, <2>2, <2>3, HoldsNothing
  <1>4. CASE Coalesce(h)
    <2>1. CASE wake_key(call[h].req) \in wake
      <3>1. Respond(h) /\ call[h].at = "coalesce" /\ UNCHANGED <<wake, sent, stuck>>
        BY <1>4, <2>1 DEF Coalesce
      <3> QED
        BY <1>i, <3>1
    <2> QED
      BY <1>4, <2>1, TakesKey
  <1>5. CASE CoalesceFails(h)
    <2>1. Respond(h) /\ call[h].at = "coalesce" /\ UNCHANGED sent
      BY <1>5 DEF CoalesceFails
    <2>2. wake \subseteq wake' /\ stuck' = stuck \cup (wake' \ wake)
      BY <1>5 DEF CoalesceFails
    <2> QED
      BY <1>i, <2>1, <2>2
  <1>6. CASE NotConfigured(h)
    BY <1>6, EndedWindow DEF NotConfigured
  <1>j. ASSUME NEW j, UNCHANGED <<wake, sent, stuck>>, call[h].at \in {"token", "fetch"},
               call' = [call EXCEPT ![h].at = "request", ![h].jwt = j]
        PROVE  Windows'
    <2> DEFINE c == [call[h] EXCEPT !.at = "request", !.jwt = j]
    <2>1. call' = [call EXCEPT ![h] = c] /\ c.at = "request" /\ c.req = call[h].req
      BY Zenon, <1>1, <1>j DEF Call
    <2> HIDE DEF c
    <2> QED
      BY Zenon, <1>j, <2>1, KeepsHolding
  <1>7. CASE ApnsToken(h)
    <2>1. PICK j : call' = [call EXCEPT ![h].at = "request", ![h].jwt = j]
      BY ZenonT(60), <1>7 DEF ApnsToken
    <2>2. UNCHANGED <<wake, sent, stuck>> /\ call[h].at = "token"
      BY <1>7 DEF ApnsToken
    <2> QED
      BY Zenon, <1>j, <2>1, <2>2
  <1>8. CASE FcmToken(h)
    <2> DEFINE c == [call[h] EXCEPT !.at = "fetch"]
    <2>1. UNCHANGED <<wake, sent, stuck>> /\ call[h].at = "token"
      BY <1>8 DEF FcmToken
    <2>2. \/ \E j : call' = [call EXCEPT ![h].at = "request", ![h].jwt = j]
          \/ call' = [call EXCEPT ![h] = c]
      BY <1>1, <1>8 DEF FcmToken, Goto
    <2>3. c.at = "fetch" /\ c.req = call[h].req
      BY <1>1 DEF Call
    <2> HIDE DEF c
    <2> QED
      BY <1>j, <2>1, <2>2, <2>3, KeepsHolding
  <1>9. CASE FcmFetch(h)
    <2>1. UNCHANGED <<wake, sent, stuck>> /\ call[h].at = "fetch"
      BY <1>9 DEF FcmFetch
    <2>2. \/ \E j : call' = [call EXCEPT ![h].at = "request", ![h].jwt = j]
          \/ Ended(h, "Failed")
      BY <1>9 DEF FcmFetch
    <2> QED
      BY <1>j, <2>1, <2>2, EndedWindow
  <1>10. CASE Answered(h) \/ NoAnswer(h)
    <2>1. UNCHANGED <<wake, stuck>> /\ call[h].at = "request" /\ \E verdict : Turn(h, verdict)
      BY <1>10 DEF Answered, NoAnswer
    <2> QED
      BY <2>1, TurnWindow
  <1>11. CASE Forget(h)
    <2> DEFINE c == [call[h] EXCEPT !.at = "clear"]
    <2> DEFINE k == wake_key(call[h].req)
    <2>1. call' = [call EXCEPT ![h] = c] \/ call' = [call EXCEPT ![h] = Idle]
      BY <1>1, <1>11 DEF Forget, Goto, Respond
    <2>2. c.at = "clear"
      BY <1>1 DEF Call
    <2>3. Holds(h, k)
      BY <1>11 DEF Forget, Holds, TypeOK
    <2>4. \/ wake' = wake \ {k} /\ UNCHANGED <<sent, stuck>>
          \/ stuck' = stuck \cup {k} /\ UNCHANGED <<wake, sent>>
      BY <1>11 DEF Forget
    <2> HIDE DEF c, k
    <2> QED
      BY <1>1, <2>1, <2>2, <2>3, <2>4, GivesUpKey
  <1>12. CASE ClearToken(h)
    <2>1. Respond(h) /\ call[h].at = "clear" /\ UNCHANGED <<wake, sent, stuck>>
      BY <1>12 DEF ClearToken
    <2> QED
      BY <1>i, <2>1
  <1> QED
    BY <1>2, <1>3, <1>4, <1>5, <1>6, <1>7, <1>8, <1>9, <1>10, <1>11, <1>12 DEF Step

\* A dropped call leaves behind the key it holds, or may have set.
LEMMA DropWindows ==
    ASSUME TypeOK, Windows, NEW h \in Handler, Drop(h)
    PROVE  Windows'
  <1> DEFINE k == wake_key(call[h].req)
  <1> DEFINE held == {q \in Key : Holds(h, q)}
  <1>1. call' = [call EXCEPT ![h] = Idle] /\ Idle.at = "idle"
    BY Zenon DEF Drop, Respond, Idle
  <1>2. /\ call[h].at # "idle" => call[h].req \in Valid
        /\ call[h].at \in {"coalesce", "fetch", "forget"} => call[h].req.kind = "wake"
        /\ call[h].at # "idle"
    BY Zenon DEF TypeOK, Drop
  <1>3. CASE call[h].req.kind = "wake" /\ call[h].at \in {"token", "fetch", "request", "forget"}
    <2>1. Holds(h, k) /\ k \in Key
      BY Zenon, <1>2, <1>3, KeyFacts DEF Holds
    <2>2. held = {k}
      BY Zenon, <2>1 DEF Holds
    <2>3. \/ stuck' = stuck \cup held /\ UNCHANGED <<wake, sent>>
          \/ sent' = [sent EXCEPT ![k] = @ + 1] /\ UNCHANGED <<wake, stuck>>
          \/ wake' = wake \ {k} /\ UNCHANGED <<sent, stuck>>
      BY Zenon, <1>3 DEF Drop
    <2> HIDE DEF k, held
    <2>4. \/ stuck' = stuck \cup {k} /\ UNCHANGED <<wake, sent>>
          \/ sent' = [sent EXCEPT ![k] = @ + 1] /\ UNCHANGED <<wake, stuck>>
          \/ wake' = wake \ {k} /\ UNCHANGED <<sent, stuck>>
      BY Zenon, <2>2, <2>3
    <2> QED
      BY Zenon, <1>1, <2>1, <2>4, GivesUpKey
  <1>4. CASE call[h].req.kind # "wake" \/ call[h].at \in {"target", "coalesce", "clear"}
    <2>1. held = {}
      BY Zenon, <1>4 DEF Holds
    <2>2. \/ stuck' = stuck \cup held /\ UNCHANGED <<wake, sent>>
          \/ wake' = wake \cup {k} /\ stuck' = stuck \cup (wake' \ wake) /\ UNCHANGED sent
      BY Zenon, <1>2, <1>4 DEF Drop
    <2> HIDE DEF k, held
    <2>3. wake \subseteq wake' /\ stuck' = stuck \cup (wake' \ wake) /\ UNCHANGED sent
      BY <2>1, <2>2
    <2> QED
      BY Zenon, <1>1, <1>4, <2>3, HoldsNothing
  <1>5. call[h].at \in Steps
    BY Zenon DEF TypeOK, Call
  <1> QED
    BY Zenon, <1>2, <1>3, <1>4, <1>5 DEF Steps

\* Every step keeps the windows.
LEMMA NextWindows == TypeOK /\ Windows /\ [Next]_vars => Windows'
  <1> SUFFICES ASSUME TypeOK, Windows, [Next]_vars
               PROVE  Windows'
    OBVIOUS
  <1>1. ASSUME UNCHANGED <<wake, sent, stuck, call>>
        PROVE  Windows'
    BY <1>1 DEF Windows, Window, Holds, wake_key
  <1>2. ASSUME NEW p \in Provider, CredentialExpires(p)
        PROVE  Windows'
    <2>1. \A h \in Handler : call'[h] \in {call[h], [call[h] EXCEPT !.jwt = "expired"]}
      BY <1>2 DEF CredentialExpires
    <2>2. \A h \in Handler : call'[h].at = call[h].at /\ call'[h].req = call[h].req
      BY <2>1 DEF TypeOK, Call
    <2>3. \A h \in Handler, key \in Key : Holds(h, key)' <=> Holds(h, key)
      BY <2>2 DEF Holds, wake_key
    <2>4. UNCHANGED <<wake, sent, stuck>>
      BY <1>2 DEF CredentialExpires
    <2> QED
      BY <2>3, <2>4, WindowFrame DEF Windows
  <1>3. ASSUME NEW k \in Key, WakeExpires(k)
        PROVE  Windows'
    <2> SUFFICES ASSUME NEW key \in Key PROVE Window(key)'
      BY DEF Windows
    <2>1. \A h \in Handler : Holds(h, key)' <=> Holds(h, key)
      BY <1>3 DEF WakeExpires, Holds, wake_key
    <2>2. /\ sent \in [Key -> Nat] /\ sent' = [sent EXCEPT ![k] = 0]
          /\ wake' = wake \ {k} /\ stuck' = stuck \ {k} /\ \A h \in Handler : ~Holds(h, k)
      BY <1>3 DEF WakeExpires, TypeOK
    <2>3. CASE key = k
      BY <2>1, <2>2, <2>3 DEF Window
    <2>4. CASE key # k
      BY <2>1, <2>2, <2>4, WindowFrame DEF Windows
    <2> QED
      BY <2>3, <2>4
  <1>4. ASSUME \/ Restart
               \/ \E d \in Device : Unpair(d) \/ \E t \in Token : put_push_token(d, t)
               \/ \E t \in Token : TokenDies(t)
               \/ \E p \in Provider : CredentialAges(p)
        PROVE  Windows'
    BY <1>1, <1>4 DEF Restart, Unpair, put_push_token, TokenDies, CredentialAges
  <1>5. CASE UNCHANGED vars
    BY <1>1, <1>5 DEF vars
  <1> QED
    BY <1>2, <1>3, <1>4, <1>5, StepWindows, DropWindows DEF Next

\* A wake key is set by one call, which alone may send its wake or delete the
\* key while it lives (SET NX and DEL in routes/push.rs).
THEOREM WakeWindows == Spec => []Windows
  <1>1. Init => Windows
    BY DEF Init, Windows, Window, Holds, Idle
  <1>2. TypeOK /\ Windows /\ [Next]_vars => Windows'
    BY NextWindows
  <1> QED
    BY <1>1, <1>2, PushTypeCorrect, PTL DEF Spec

\* However many calls ask for a wake at once, one at most is sent while its key
\* lives.
THEOREM WakesCoalesce == Spec => []WakeCoalesced
  <1>1. Windows => WakeCoalesced
    BY DEF Windows, Window, WakeCoalesced
  <1> QED
    BY <1>1, WakeWindows, PTL

\* A wake key outlives a wake that was not sent only when the call that set it
\* was dropped or a Redis command of it failed; otherwise that call is still
\* there to delete it.
THEOREM FailedWakesForgotten == Spec => []FailedWakeForgotten
  <1>1. TypeOK /\ Windows => FailedWakeForgotten
    BY DEF TypeOK, Windows, Window, FailedWakeForgotten
  <1> QED
    BY <1>1, PushTypeCorrect, WakeWindows, PTL
=============================================================================
