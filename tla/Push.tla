-------------------------------- MODULE Push --------------------------------
(***************************************************************************)
(* POST /v1/push (routes/push.rs): the push registrations in PostgreSQL,   *)
(* the wake keys in Redis that coalesce wakes, and the two provider        *)
(* clients of relay-push with their cached credentials: APNs signs one,    *)
(* FCM fetches one under a lock.  A call takes one step per await, and at  *)
(* each await it may be dropped: its client is gone, or the process ends.  *)
(***************************************************************************)
EXTENDS Naturals

CONSTANTS
    Device,
    Platform,       \* devices.platform
    Token,          \* push tokens the providers hand to the devices
    TokenProvider,  \* the provider that issued a token
    Handler,        \* POST /v1/push calls that can be in progress at once
    None,
    Fault           \* what may fail: "db", "redis", "provider", "lost", "oauth",
                    \* and "drop" for calls that are dropped

Provider == {"fcm", "apns"}

ASSUME PushAssumption ==
    /\ Platform \in [Device -> {"android", "macos", "ios", "ipados"}]
    /\ TokenProvider \in [Token -> Provider]
    /\ None \notin Token
    /\ Fault \subseteq {"db", "redis", "provider", "lost", "oauth", "drop"}

VARIABLES
    configured, \* the providers the gateway has keys for, fixed at start-up
    paired,     \* devices that are the other member of a valid pair of the caller
    stored,     \* devices.push_token (push_provider with it)
    live,       \* the tokens their provider still knows
    wake,       \* wake:<device_id>:<reason> keys in Redis
    credential, \* ProviderToken.cached and FcmClient.access
    access,     \* who holds the lock of FcmClient.access
    call,       \* the call each handler is in, and how far it got
    sent,       \* wakes sent while a wake key lives
    stuck       \* wake keys left behind by a failing Redis command or a dropped call

vars == <<configured, paired, stored, live, wake, credential, access, call, sent, stuck>>

WakeReasons == {"user_open", "sms_send", "call_action"}
AlertReasons == {"sms_new", "call_incoming", "call_missed"}
Reason == WakeReasons \cup AlertReasons

\* The body of a request: env_b64, and whether collapse_key and ttl_s are in
\* their limits.
Request ==
    [to : Device, kind : {"wake", "alert"}, reason : Reason,
     env : {"none", "base64", "too_large", "garbled"}, limits : BOOLEAN]

Key == Device \X WakeReasons

Steps == {"idle", "target", "coalesce", "token", "fetch", "request", "forget", "clear"}

Idle == [at |-> "idle", req |-> None, token |-> None, jwt |-> "good",
         renewed |-> FALSE, retried |-> FALSE, outcome |-> None]

\* Reason::kind
kind(reason) == IF reason \in WakeReasons THEN "wake" ELSE "alert"

validate_push(req) ==
    /\ kind(req.reason) = req.kind
    /\ req.limits
    /\ req.env = IF req.kind = "wake" THEN "none" ELSE "base64"

platform_fits(req) ==
    Platform[req.to] \in IF req.kind = "wake" THEN {"android"} ELSE {"ios", "ipados"}

\* The gateway's client for a request; apns_sandbox is the same client.
client(req) == IF req.kind = "wake" THEN "fcm" ELSE "apns"

provider_fits(req, token) == TokenProvider[token] = client(req)

wake_key(req) == <<req.to, req.reason>>

Valid == {req \in Request : validate_push(req)}

Call ==
    [at : Steps, req : Valid \cup {None}, token : Token \cup {None},
     jwt : {"good", "expired"}, renewed : BOOLEAN, retried : BOOLEAN,
     outcome : {None, "TokenInvalid", "Failed"}]

\* Mutant: a Mac may register for push, and a phone with any provider.
ValidateAnyToken(platform, provider) == TRUE

validate_push_token(platform, provider) ==
    \/ platform = "android" /\ provider = "fcm"
    \/ platform \in {"ios", "ipados"} /\ provider = "apns"

TypeOK ==
    /\ configured \subseteq Provider
    /\ paired \subseteq Device
    /\ stored \in [Device -> Token \cup {None}]
    /\ live \subseteq Token
    /\ wake \subseteq Key
    /\ credential \in [Provider -> {"none", "good", "old", "expired"}]
    /\ access \in Handler \cup {None}
    /\ call \in [Handler -> Call]
    /\ sent \in [Key -> Nat]
    /\ stuck \subseteq Key
    /\ \A h \in Handler : call[h].at # "idle" => call[h].req \in Valid
    /\ \A h \in Handler :
          call[h].at \notin {"idle", "target"} => call[h].token \in Token
    /\ \A h \in Handler :
          call[h].at \in {"coalesce", "fetch", "forget"} => call[h].req.kind = "wake"
    /\ \A d \in Device :
          stored[d] # None =>
              /\ Platform[d] # "macos"
              /\ Platform[d] = "android" <=> TokenProvider[stored[d]] = "fcm"

Init ==
    /\ configured \in SUBSET Provider
    /\ paired = Device
    /\ stored = [d \in Device |-> None]
    /\ live = Token
    /\ wake = {}
    /\ credential = [p \in Provider |-> "none"]
    /\ access = None
    /\ call = [h \in Handler |-> Idle]
    /\ sent = [k \in Key |-> 0]
    /\ stuck = {}

-----------------------------------------------------------------------------
(* send, up to the provider.                                                *)

Goto(h, step) == call' = [call EXCEPT ![h].at = step]

Respond(h) == call' = [call EXCEPT ![h] = Idle]

Push(h, req) ==
    /\ call[h].at = "idle"
    /\ validate_push(req)
    /\ call' = [call EXCEPT ![h] = [Idle EXCEPT !.at = "target", !.req = req]]
    /\ UNCHANGED <<configured, paired, stored, live, wake, credential, access, sent, stuck>>

\* push_target, and the checks on what it found.
ReadTarget(h) ==
    LET req == call[h].req
        token == stored[req.to]
        found == /\ req.to \in paired
                 /\ platform_fits(req)
                 /\ token # None
                 /\ provider_fits(req, token)
    IN /\ call[h].at = "target"
       /\ \/ (~found \/ "db" \in Fault) /\ Respond(h)
          \/ /\ found
             /\ call' = [call EXCEPT ![h].token = token,
                           ![h].at = IF req.kind = "wake" THEN "coalesce" ELSE "token"]
       /\ UNCHANGED <<configured, paired, stored, live, wake, credential, access, sent, stuck>>

\* Mutant: SET without NX.
CoalesceAlways(h) ==
    /\ call[h].at = "coalesce"
    /\ wake' = wake \cup {wake_key(call[h].req)}
    /\ Goto(h, "token")
    /\ UNCHANGED <<configured, paired, stored, live, credential, access, sent, stuck>>

\* SET NX EX: the first wake goes on, another one is accepted at once.
Coalesce(h) ==
    LET key == wake_key(call[h].req)
    IN /\ call[h].at = "coalesce"
       /\ wake' = wake \cup {key}
       /\ \/ key \notin wake /\ Goto(h, "token")
          \/ key \in wake /\ Respond(h)
       /\ UNCHANGED <<configured, paired, stored, live, credential, access, sent, stuck>>

\* The SET fails, or is done and its answer is lost.
CoalesceFails(h) ==
    /\ "redis" \in Fault
    /\ call[h].at = "coalesce"
    /\ wake' \in {wake, wake \cup {wake_key(call[h].req)}}
    /\ stuck' = stuck \cup (wake' \ wake)
    /\ Respond(h)
    /\ UNCHANGED <<configured, paired, stored, live, credential, access, sent>>

-----------------------------------------------------------------------------
(* The send loops of ApnsClient and FcmClient.                              *)

\* Mutant: the wake key is kept when the wake was not sent.
EndedKept(h, outcome) ==
    \/ outcome = "TokenInvalid" /\ Goto(h, "clear")
    \/ outcome = "Failed" /\ Respond(h)

\* Leave the loop without having sent: a wake forgets its key first.
Ended(h, outcome) ==
    \/ /\ call[h].req.kind = "wake"
       /\ call' = [call EXCEPT ![h].at = "forget", ![h].outcome = outcome]
    \/ /\ call[h].req.kind = "alert" /\ outcome = "TokenInvalid"
       /\ call' = [call EXCEPT ![h].at = "clear", ![h].outcome = outcome]
    \/ call[h].req.kind = "alert" /\ outcome = "Failed" /\ Respond(h)

NotConfigured(h) ==
    /\ call[h].at = "token"
    /\ client(call[h].req) \notin configured
    /\ Ended(h, "Failed")
    /\ UNCHANGED <<configured, paired, stored, live, wake, credential, access, sent, stuck>>

\* ProviderToken::get: the cached token, or one signed now.
ApnsToken(h) ==
    LET cached == ~call[h].renewed /\ credential["apns"] \in {"good", "expired"}
    IN /\ call[h].at = "token"
       /\ client(call[h].req) = "apns"
       /\ "apns" \in configured
       /\ credential' = [credential EXCEPT !["apns"] = IF cached THEN @ ELSE "good"]
       /\ call' = [call EXCEPT ![h].at = "request",
                     ![h].jwt = IF cached THEN credential["apns"] ELSE "good"]
       /\ UNCHANGED <<configured, paired, stored, live, wake, access, sent, stuck>>

\* access_token: lock, and use the cached one or ask for another.
FcmToken(h) ==
    LET cached == ~call[h].renewed /\ credential["fcm"] \in {"good", "expired"}
    IN /\ call[h].at = "token"
       /\ client(call[h].req) = "fcm"
       /\ "fcm" \in configured
       /\ access = None
       /\ \/ /\ cached
             /\ call' = [call EXCEPT ![h].at = "request", ![h].jwt = credential["fcm"]]
             /\ UNCHANGED access
          \/ /\ ~cached
             /\ Goto(h, "fetch")
             /\ access' = h
       /\ UNCHANGED <<configured, paired, stored, live, wake, credential, sent, stuck>>

\* The token endpoint answers, and the lock is dropped.
FcmFetch(h) ==
    /\ call[h].at = "fetch"
    /\ access' = None
    /\ \/ /\ credential' = [credential EXCEPT !["fcm"] = "good"]
          /\ call' = [call EXCEPT ![h].at = "request", ![h].jwt = "good"]
       \/ /\ "oauth" \in Fault
          /\ Ended(h, "Failed")
          /\ UNCHANGED credential
    /\ UNCHANGED <<configured, paired, stored, live, wake, sent, stuck>>

apns_verdict(status, reason) ==
    CASE status = 200 -> "Sent"
      [] status = 410 -> "Unregistered"
      [] status = 403 /\ reason \in {"ExpiredProviderToken", "InvalidProviderToken"} -> "RenewToken"
      [] status \in {500, 503} -> "Retry"
      [] OTHER -> "Reject"

fcm_verdict(status, code) ==
    CASE status = 200 -> "Sent"
      [] status # 200 /\ code = "UNREGISTERED" -> "Unregistered"
      [] status = 401 /\ code # "UNREGISTERED" -> "RenewToken"
      [] status \in {500, 503} /\ code # "UNREGISTERED" -> "Retry"
      [] OTHER -> "Reject"

\* What the provider may answer; a refusal of the credential is always possible.
ApnsAnswers(token, jwt) ==
    (IF jwt = "expired" THEN {<<403, "ExpiredProviderToken">>}
       ELSE IF token \in live THEN {<<200, None>>} ELSE {<<410, "Unregistered">>})
      \cup (IF "provider" \in Fault
              THEN {<<403, "InvalidProviderToken">>, <<503, None>>, <<400, "BadTopic">>} ELSE {})

FcmAnswers(token, jwt) ==
    (IF jwt = "expired" THEN {<<401, "UNAUTHENTICATED">>}
       ELSE IF token \in live THEN {<<200, None>>} ELSE {<<404, "UNREGISTERED">>})
      \cup (IF "provider" \in Fault
              THEN {<<401, "UNAUTHENTICATED">>, <<500, None>>, <<429, "QUOTA_EXCEEDED">>} ELSE {})

Verdicts(req, token, jwt) ==
    IF client(req) = "apns"
      THEN {apns_verdict(a[1], a[2]) : a \in ApnsAnswers(token, jwt)}
      ELSE {fcm_verdict(a[1], a[2]) : a \in FcmAnswers(token, jwt)}

Sent(h) ==
    LET key == wake_key(call[h].req)
    IN /\ Respond(h)
       /\ \/ /\ call[h].req.kind = "wake"
             /\ sent' = [sent EXCEPT ![key] = @ + 1]
          \/ call[h].req.kind = "alert" /\ UNCHANGED sent

\* Mutant: a refused credential is renewed every time.
TurnAlways(h, verdict) ==
    \/ verdict = "Sent" /\ Sent(h)
    \/ /\ verdict = "RenewToken"
       /\ call' = [call EXCEPT ![h].at = "token", ![h].renewed = TRUE]
       /\ UNCHANGED sent
    \/ /\ verdict \notin {"Sent", "RenewToken"}
       /\ Ended(h, IF verdict = "Unregistered" THEN "TokenInvalid" ELSE "Failed")
       /\ UNCHANGED sent

\* One turn of the loop: renew the credential once, try again once.
Turn(h, verdict) ==
    LET renew == verdict = "RenewToken" /\ ~call[h].renewed
        again == verdict = "Retry" /\ ~call[h].retried
    IN \/ verdict = "Sent" /\ Sent(h)
       \/ /\ renew \/ again
          /\ call' = [call EXCEPT ![h].at = "token", ![h].renewed = @ \/ renew,
                                  ![h].retried = @ \/ again]
          /\ UNCHANGED sent
       \/ /\ verdict # "Sent" /\ ~renew /\ ~again
          /\ Ended(h, IF verdict = "Unregistered" THEN "TokenInvalid" ELSE "Failed")
          /\ UNCHANGED sent

Answered(h) ==
    /\ call[h].at = "request"
    /\ \E verdict \in Verdicts(call[h].req, call[h].token, call[h].jwt) : Turn(h, verdict)
    /\ UNCHANGED <<configured, paired, stored, live, wake, credential, access, stuck>>

\* No answer within the client's timeout counts like a 500.
NoAnswer(h) ==
    /\ "lost" \in Fault
    /\ call[h].at = "request"
    /\ Turn(h, "Retry")
    /\ UNCHANGED <<configured, paired, stored, live, wake, credential, access, stuck>>

-----------------------------------------------------------------------------
(* send, after the provider.                                                *)

\* DEL of the wake key; a failure is ignored.
Forget(h) ==
    /\ call[h].at = "forget"
    /\ \/ wake' = wake \ {wake_key(call[h].req)} /\ UNCHANGED stuck
       \/ /\ "redis" \in Fault
          /\ stuck' = stuck \cup {wake_key(call[h].req)}
          /\ UNCHANGED wake
    /\ \/ call[h].outcome = "TokenInvalid" /\ Goto(h, "clear")
       \/ call[h].outcome # "TokenInvalid" /\ Respond(h)
    /\ UNCHANGED <<configured, paired, stored, live, credential, access, sent>>

\* clear_push_token, whatever token the device has by now.
ClearToken(h) ==
    /\ call[h].at = "clear"
    /\ \/ stored' = [stored EXCEPT ![call[h].req.to] = None]
       \/ "db" \in Fault /\ UNCHANGED stored
    /\ Respond(h)
    /\ UNCHANGED <<configured, paired, live, wake, credential, access, sent, stuck>>

-----------------------------------------------------------------------------
(* Calls that do not end.                                                   *)

\* A call between its SET NX and its answer or its DEL.
Holds(h, key) ==
    /\ call[h].at \in {"token", "fetch", "request", "forget"}
    /\ call[h].req.kind = "wake"
    /\ wake_key(call[h].req) = key

\* The call is dropped at its await: the lock it holds is free, the wake key it
\* set stays, and the command it waited for is done or not.
Drop(h) ==
    LET key == wake_key(call[h].req)
        to == call[h].req.to
    IN /\ "drop" \in Fault
       /\ call[h].at # "idle"
       /\ Respond(h)
       /\ access' = IF access = h THEN None ELSE access
       /\ \/ UNCHANGED stored
          \/ call[h].at = "clear" /\ stored' = [stored EXCEPT ![to] = None]
       /\ \/ /\ stuck' = stuck \cup {k \in Key : Holds(h, k)}
             /\ UNCHANGED <<wake, sent>>
          \/ /\ call[h].at = "coalesce"
             /\ wake' = wake \cup {key}
             /\ stuck' = stuck \cup (wake' \ wake)
             /\ UNCHANGED sent
          \/ /\ call[h].at = "request" /\ call[h].req.kind = "wake"
             /\ sent' = [sent EXCEPT ![key] = @ + 1]
             /\ UNCHANGED <<wake, stuck>>
          \/ /\ call[h].at = "forget"
             /\ wake' = wake \ {key}
             /\ UNCHANGED <<sent, stuck>>
       /\ UNCHANGED <<configured, paired, live, credential>>

\* The process that ended, with its calls dropped, comes up again.
Restart ==
    /\ "drop" \in Fault
    /\ \A h \in Handler : call[h].at = "idle"
    /\ credential' = [p \in Provider |-> "none"]
    /\ UNCHANGED <<configured, paired, stored, live, wake, access, call, sent, stuck>>

-----------------------------------------------------------------------------
(* The devices, the providers and Redis.                                    *)

\* PUT /v1/devices/me/push-token with the token the device got last.  An APNs
\* token needs the topic of a configured client.
put_push_token(d, t) ==
    /\ t \in live
    /\ validate_push_token(Platform[d], TokenProvider[t])
    /\ TokenProvider[t] = "apns" => "apns" \in configured
    /\ stored' = [stored EXCEPT ![d] = t]
    /\ UNCHANGED <<configured, paired, live, wake, credential, access, call, sent, stuck>>

\* The app is removed, or gets a new token.
TokenDies(t) ==
    /\ t \in live
    /\ live' = live \ {t}
    /\ UNCHANGED <<configured, paired, stored, wake, credential, access, call, sent, stuck>>

Unpair(d) ==
    /\ paired' = paired \ {d}
    /\ UNCHANGED <<configured, stored, live, wake, credential, access, call, sent, stuck>>

\* The client's refresh time is reached, with the old credential still good.
CredentialAges(p) ==
    /\ credential[p] = "good"
    /\ credential' = [credential EXCEPT ![p] = "old"]
    /\ UNCHANGED <<configured, paired, stored, live, wake, access, call, sent, stuck>>

\* The provider stops accepting the credential before that time.
CredentialExpires(p) ==
    /\ credential[p] = "good"
    /\ credential' = [credential EXCEPT ![p] = "expired"]
    /\ call' = [h \in Handler |->
                  IF call[h].at = "request" /\ client(call[h].req) = p
                    THEN [call[h] EXCEPT !.jwt = "expired"] ELSE call[h]]
    /\ UNCHANGED <<configured, paired, stored, live, wake, access, sent, stuck>>

\* WAKE_COALESCE_SECS have passed: longer than a call waits for its provider.
WakeExpires(key) ==
    /\ key \in wake
    /\ \A h \in Handler : ~Holds(h, key)
    /\ wake' = wake \ {key}
    /\ sent' = [sent EXCEPT ![key] = 0]
    /\ stuck' = stuck \ {key}
    /\ UNCHANGED <<configured, paired, stored, live, credential, access, call>>

-----------------------------------------------------------------------------

Step(h) ==
    \/ ReadTarget(h) \/ Coalesce(h) \/ CoalesceFails(h)
    \/ NotConfigured(h) \/ ApnsToken(h) \/ FcmToken(h) \/ FcmFetch(h)
    \/ Answered(h) \/ NoAnswer(h) \/ Forget(h) \/ ClearToken(h)

Next ==
    \/ \E h \in Handler : Step(h) \/ Drop(h) \/ \E req \in Request : Push(h, req)
    \/ Restart
    \/ \E d \in Device : Unpair(d) \/ \E t \in Token : put_push_token(d, t)
    \/ \E t \in Token : TokenDies(t)
    \/ \E p \in Provider : CredentialAges(p) \/ CredentialExpires(p)
    \/ \E key \in Key : WakeExpires(key)

Spec == Init /\ [][Next]_vars

-----------------------------------------------------------------------------

\* While a wake key lives one call at most gets its wake sent, however many ask
\* for it at once and whatever fails on the way (SET NX, and the DEL only by the
\* call that set the key).
WakeCoalesced == \A key \in Key : sent[key] <= 1

\* "A failed wake is not coalesced: the next one is tried again"
\* (tests/db_push_rest.rs): a wake key exists only after its wake was sent, while
\* the call that set it is in progress, or when that call was dropped before its
\* DEL, or Redis failed to do the DEL or to answer the SET.
FailedWakeForgotten ==
    \A key \in wake \ stuck : sent[key] = 0 => \E h \in Handler : Holds(h, key)

\* clear_push_token drops "a token the push provider reported as no longer
\* valid" (store/devices.rs): not one the provider still knows.
ClearsDeadToken ==
    \A h \in Handler : call[h].at = "clear" => stored[call[h].req.to] \notin live
=============================================================================
