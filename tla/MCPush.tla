------------------------------- MODULE MCPush -------------------------------
(***************************************************************************)
(* Push for TLC: a phone and a tablet that are pushed to by concurrent     *)
(* calls, which may be dropped, while tokens die and are replaced and      *)
(* credentials age and expire, each at most as often as its bound says.    *)
(***************************************************************************)
EXTENDS Push, TLC

CONSTANTS
    phone, tablet, f1, f2, a1, a2, h1, h2,
    Requests,       \* the requests made
    MaxCalls,       \* POST /v1/push calls
    MaxTokens,      \* push tokens registered
    MaxDeaths,      \* tokens that die and pairs that are revoked
    MaxAges,        \* credentials that age, expire or are lost with the process
    MaxWindows      \* wake keys that expire

VARIABLES calls, tokens, deaths, ages, windows

mcVars == <<calls, tokens, deaths, ages, windows>>

Platforms == phone :> "android" @@ tablet :> "ios"
Issuers == f1 :> "fcm" @@ f2 :> "fcm" @@ a1 :> "apns" @@ a2 :> "apns"

Wake(to) == [to |-> to, kind |-> "wake", reason |-> "sms_send", env |-> "none", limits |-> TRUE]
Alert(to) == [to |-> to, kind |-> "alert", reason |-> "sms_new", env |-> "base64", limits |-> TRUE]
Wakes == {Wake(phone)}
Mixed == {Wake(phone), Alert(tablet), Wake(tablet)}

MCInit == Init /\ calls = 0 /\ tokens = 0 /\ deaths = 0 /\ ages = 0 /\ windows = 0

Count(n, max, kept) == n < max /\ n' = n + 1 /\ UNCHANGED kept

MCNext ==
    \/ \E h \in Handler : (Step(h) \/ Drop(h)) /\ UNCHANGED mcVars
    \/ /\ \E h \in Handler, req \in Requests : Push(h, req)
       /\ Count(calls, MaxCalls, <<tokens, deaths, ages, windows>>)
    \/ /\ \E d \in Device, t \in Token : put_push_token(d, t)
       /\ Count(tokens, MaxTokens, <<calls, deaths, ages, windows>>)
    \/ /\ (\E t \in Token : TokenDies(t)) \/ (\E d \in paired : Unpair(d))
       /\ Count(deaths, MaxDeaths, <<calls, tokens, ages, windows>>)
    \/ /\ Restart \/ \E p \in Provider : CredentialAges(p) \/ CredentialExpires(p)
       /\ Count(ages, MaxAges, <<calls, tokens, deaths, windows>>)
    \/ /\ \E key \in Key : WakeExpires(key)
       /\ Count(windows, MaxWindows, <<calls, tokens, deaths, ages>>)

MCSpec == MCInit /\ [][MCNext]_<<vars, mcVars>>

\* A call that runs keeps running until it is dropped: Redis, PostgreSQL and the
\* providers answer or time out.
FairSpec ==
    /\ MCSpec
    /\ \A h \in Handler : WF_<<vars, mcVars>>(Step(h) /\ UNCHANGED mcVars)

\* Every call that is not dropped is answered, whatever the providers say and
\* however the calls compete for the lock of the FCM access token: the loops
\* renew once and try again once, and the lock is free again on every path, also
\* when the call that holds it is dropped.
EveryCallAnswered == \A h \in Handler : call[h].at # "idle" ~> call[h].at = "idle"

Symmetry == Permutations(Handler)
=============================================================================
