------------------------------- MODULE Auth -------------------------------
(***************************************************************************)
(* Registration, challenges and tokens, and the limits in front of them:   *)
(* routes/auth.rs, register in routes/devices.rs, challenge.rs,            *)
(* store/challenges.rs and limits.rs.  Every call of Redis or PostgreSQL   *)
(* is a step of its own, so that requests interleave.                      *)
(*                                                                         *)
(* A tick of the clock is a millisecond made coarse: a second has Second   *)
(* ticks, a minute and an hour are Minute and Hour ticks.  Counters do not *)
(* expire: their keys name the window, and their time to live is longer.   *)
(***************************************************************************)
EXTENDS Integers, Sequences, FiniteSets, Folds

CONSTANTS
    Device, Request, Challenge,
    Addr, Bad,              \* IP addresses, and an entry that is not one
    Unreadable,             \* a header line with a byte that to_str refuses
    to_canonical,           \* IPv4-mapped IPv6 addresses become IPv4
    ip_bucket,              \* what a limit counts: an address or a /64
    Trusted,                \* RELAY_TRUSTED_PROXIES
    Second, Minute, Hour, ChallengeTtl,
    AuthPerIp, ChallengesPerDevice, RegPerIp, RegGlobal,
    Fault,                  \* "redis", "db"
    None

Bucket == {ip_bucket[x] : x \in Addr}

ASSUME AuthConstants ==
    /\ to_canonical \in [Addr -> Addr]
    /\ DOMAIN ip_bucket = Addr
    /\ Trusted \subseteq Addr
    /\ Bad \notin Addr
    /\ {Second, Minute, Hour} \subseteq Nat \ {0}
    /\ {ChallengeTtl, AuthPerIp, ChallengesPerDevice, RegPerIp, RegGlobal} \subseteq Nat
    /\ Fault \subseteq {"redis", "db"}
    /\ None \notin Challenge
    /\ IsFiniteSet(Addr)

VARIABLES
    now,
    devices,        \* rows of devices
    chal,           \* pending challenges in Redis
    counts,         \* rate limit counters in Redis
    req,            \* the requests: where each is, and its answer
    issued,         \* history: every challenge ever stored ...
    presented,      \* ... those taken out again by a token request ...
    removed         \* ... and devices that were ever deleted

vars == <<now, devices, chal, counts, req, issued, presented, removed>>

\* A line of X-Forwarded-For: its entries, from left to right.
Line == Seq(Addr \union {Bad}) \union {Unreadable}

-----------------------------------------------------------------------------
(* The client address (limits.rs request_ip, client_ip).                   *)

\* The entries that are read: those of the first line, and none if there is no
\* line or the first one is not all visible ASCII.
forwarded(header) == IF header = <<>> \/ header[1] = Unreadable THEN <<>> ELSE header[1]

is_trusted(ip) == \E t \in Trusted : to_canonical[t] = ip

\* Mutant: the header from left to right: what a walk with split would see.
ClientIpFromLeft(peer, hops) ==
    LET p == to_canonical[peer]
        walk[k \in 0..Len(hops)] ==     \* what is left after k entries
          IF k = Len(hops) THEN None ELSE
          IF hops[k + 1] = Bad THEN p ELSE
          IF ~is_trusted(to_canonical[hops[k + 1]]) THEN to_canonical[hops[k + 1]]
          ELSE walk[k + 1]
    IN  IF ~is_trusted(p) \/ walk[0] = None THEN p ELSE walk[0]

\* X-Forwarded-For is read from the right, past the trusted proxies; an entry
\* that is no address ends the walk at the hop before it.
client_ip(peer, hops) ==
    LET walk[k \in 0..Len(hops)] ==     \* with k entries left to read
          LET last == IF k = Len(hops) THEN to_canonical[peer] ELSE to_canonical[hops[k + 1]]
          IN  IF ~is_trusted(last) \/ k = 0 \/ hops[k] = Bad THEN last ELSE walk[k - 1]
    IN  walk[Len(hops)]

-----------------------------------------------------------------------------
(* Fixed windows.                                                          *)

AuthKey(ip, w) == <<"auth", ip_bucket[ip], w>>
ChallengeKey(d, ip, w) == <<"chal", d, ip_bucket[ip], w>>
RegKey(b, w) == <<"reg", b, w>>
GlobalRegKey(w) == <<"reg", w>>

CountOf(k) == IF k \in DOMAIN counts THEN counts[k] ELSE 0

\* INCR of each key of S.
Incr(S) == [k \in DOMAIN counts \union S |-> IF k \in S THEN CountOf(k) + 1 ELSE counts[k]]

\* Mutant: Retry-After rounded down.
RetryFloor(length, t) ==
    LET secs == (length - (t % length)) \div Second
    IN  now + secs * Second

\* Retry-After: whole seconds, rounded up and at least one, from the clock read
\* t to the end of its window.  The client waits them from the answer on: the
\* result is when it may come back.
RetryAt(length, t) ==
    LET secs == (length - (t % length) + Second - 1) \div Second
    IN  now + (IF secs = 0 THEN 1 ELSE secs) * Second

-----------------------------------------------------------------------------
(* Requests.                                                               *)

Working == {"auth_ip", "quota", "find", "put", "take", "key", "issue",
            "known", "limit", "upsert"}

Init ==
    /\ now = 0
    /\ devices \in SUBSET Device
    /\ chal = {}
    /\ counts = [k \in {} |-> 0]
    /\ req = [h \in Request |-> None]
    /\ issued = {} /\ presented = {} /\ removed = {}

\* Move on to a step; a limit reads the clock before it asks Redis.
Go(h, at) ==
    req' = [req EXCEPT ![h] =
              [@ EXCEPT !.at = at,
                        !.start = IF at \in {"quota", "limit"} THEN now ELSE req[h].start]]

\* The window that the limit of a request counts in.
Window(h) == req[h].start \div (IF req[h].op = "register" THEN Hour ELSE Minute)

Answer(h, code) == req' = [req EXCEPT ![h] = [@ EXCEPT !.at = "done", !.answer = code]]

Refuse(h, length, t) ==
    req' = [req EXCEPT ![h] = [@ EXCEPT !.at = "done", !.answer = "limited",
                                        !.retry = RetryAt(length, t)]]

Hops(h) == forwarded(req[h].header)

\* request_ip.
IpOf(h) == client_ip(req[h].peer, Hops(h))

At(h, step) == req[h] # None /\ req[h].at = step

Arrive(h, op, d, peer, header, value, proof) ==
    /\ req[h] = None
    /\ req' = [req EXCEPT ![h] =
         [op |-> op, device |-> d, peer |-> peer, header |-> header,
          value |-> value, proof |-> proof,
          at |-> IF op = "register" THEN "known" ELSE "auth_ip",
          start |-> now, counted |-> FALSE,
          answer |-> None, retry |-> 0]]
    /\ UNCHANGED <<now, devices, chal, counts, issued, presented, removed>>

\* count_minute on key k: over the limit the request ends, with Retry-After.
\* Its clock read comes after the one for the key and before the answer.
count_minute(h, k, limit, then) ==
    /\ \/ /\ counts' = Incr({k})
          /\ IF CountOf(k) + 1 > limit
               THEN \E t \in req[h].start..now : Refuse(h, Minute, t)
               ELSE Go(h, then)
       \/ /\ "redis" \in Fault
          /\ counts' \in {counts, Incr({k})}
          /\ Answer(h, "error")
    /\ UNCHANGED <<now, devices, chal, issued, presented, removed>>

check_auth_ip(h) ==
    /\ At(h, "auth_ip")
    /\ count_minute(h, AuthKey(IpOf(h), Window(h)), AuthPerIp,
                    IF req[h].op = "token" THEN "take" ELSE "quota")

check_challenge_quota(h) ==
    /\ At(h, "quota")
    /\ count_minute(h, ChallengeKey(req[h].device, IpOf(h), Window(h)),
                    ChallengesPerDevice, "find")

\* find_key and usable_key in challenge.
find_key(h) ==
    /\ At(h, "find")
    /\ IF req[h].device \in devices THEN Go(h, "put") ELSE Answer(h, "unknown")
    /\ UNCHANGED <<now, devices, chal, counts, issued, presented, removed>>

-----------------------------------------------------------------------------
(* Challenges and tokens.                                                  *)

\* Mutant: the generator repeats itself.
StaleRandom == Challenge

Fresh == Challenge \ {c.value : c \in issued}

\* Mutant: one key for each device.
PutOnly(h, v) ==
    chal' = {c \in chal : c.device # req[h].device} \union
              {[device |-> req[h].device, value |-> v, expires |-> now + ChallengeTtl]}

\* SETEX under a key of its own.
Put(h, v) ==
    chal' = chal \union
              {[device |-> req[h].device, value |-> v, expires |-> now + ChallengeTtl]}

\* The end of challenge.  A call that fails may have stored the challenge.
put(h) ==
    /\ At(h, "put")
    /\ \E v \in Fresh :
         \/ Put(h, v) /\ Answer(h, "ok")
         \/ "redis" \in Fault /\ Answer(h, "error") /\ (Put(h, v) \/ UNCHANGED chal)
    /\ issued' = issued \union chal'
    /\ UNCHANGED <<now, devices, counts, presented, removed>>

\* The pending challenge that a token request presents.
Presented(h) ==
    {c \in chal : c.device = req[h].device /\ c.value = req[h].value /\ now < c.expires}

\* Mutant: GET: the key stays until it expires.
Get(h) == UNCHANGED chal

GetDel(h) == chal' = chal \ Presented(h)

\* take: the challenge is consumed, whatever becomes of the request, unless the
\* signature is malformed.  A malformed challenge is one that was never issued.
take(h) ==
    /\ At(h, "take")
    /\ \/ ~req[h].proof /\ Answer(h, "signature") /\ UNCHANGED <<chal, presented>>
       \/ /\ GetDel(h)
          /\ presented' = presented \union {c.value : c \in Presented(h)}
          /\ IF Presented(h) = {} THEN Answer(h, "expired") ELSE Go(h, "key")
       \/ /\ "redis" \in Fault
          /\ Answer(h, "error")
          /\ \/ UNCHANGED <<chal, presented>>
             \/ /\ GetDel(h)
                /\ presented' = presented \union {c.value : c \in Presented(h)}
    /\ UNCHANGED <<now, devices, counts, issued, removed>>

\* check_token_proof: the device is known and its signature is right.
check_token_proof(h) ==
    /\ At(h, "key")
    /\ IF req[h].device \notin devices THEN Answer(h, "unknown")
       ELSE IF ~req[h].proof THEN Answer(h, "signature")
       ELSE Go(h, "issue")
    /\ UNCHANGED <<now, devices, chal, counts, issued, presented, removed>>

\* touch_last_seen and issue.
issue(h) ==
    /\ At(h, "issue")
    /\ Answer(h, "ok")
    /\ UNCHANGED <<now, devices, chal, counts, issued, presented, removed>>

-----------------------------------------------------------------------------
(* Registration.                                                           *)

register(h) ==
    /\ At(h, "known")
    /\ IF ~req[h].proof THEN Answer(h, "signature")
       ELSE Go(h, IF req[h].device \in devices THEN "upsert" ELSE "limit")
    /\ UNCHANGED <<now, devices, chal, counts, issued, presented, removed>>

RegKeys(h) == {GlobalRegKey(Window(h)), RegKey(ip_bucket[IpOf(h)], Window(h))}

\* Mutant: the cap is counted before the limit of the client is looked at.
CountedFirst(h) ==
    IF CountOf(GlobalRegKey(Window(h))) >= RegGlobal THEN {}
    ELSE IF CountOf(RegKey(ip_bucket[IpOf(h)], Window(h))) >= RegPerIp
      THEN {GlobalRegKey(Window(h))}
    ELSE RegKeys(h)

\* Mutant: a limit refuses only what is over it.
CountedOver(h) ==
    IF \/ CountOf(GlobalRegKey(Window(h))) > RegGlobal
       \/ CountOf(RegKey(ip_bucket[IpOf(h)], Window(h))) > RegPerIp
      THEN {} ELSE RegKeys(h)

\* REGISTRATION_SCRIPT: the keys it counts, none if a limit is used up.
Counted(h) ==
    IF \/ CountOf(GlobalRegKey(Window(h))) >= RegGlobal
       \/ CountOf(RegKey(ip_bucket[IpOf(h)], Window(h))) >= RegPerIp
      THEN {} ELSE RegKeys(h)

check_registration(h) ==
    /\ At(h, "limit")
    /\ \/ /\ counts' = Incr(Counted(h))
          /\ IF Counted(h) = RegKeys(h)
               THEN req' = [req EXCEPT ![h] = [@ EXCEPT !.at = "upsert", !.counted = TRUE]]
               ELSE Refuse(h, Hour, req[h].start)
       \/ /\ "redis" \in Fault
          /\ counts' \in {counts, Incr(Counted(h))}
          /\ Answer(h, "error")
    /\ UNCHANGED <<now, devices, chal, issued, presented, removed>>

\* upsert: a new row, or a refresh of the one there is.
upsert(h) ==
    /\ At(h, "upsert")
    /\ devices' = devices \union {req[h].device}
    /\ Answer(h, IF req[h].device \in devices THEN "updated" ELSE "created")
    /\ UNCHANGED <<now, chal, counts, issued, presented, removed>>

-----------------------------------------------------------------------------

\* A query of PostgreSQL fails: the request ends with an error.  An upsert may
\* have run although its answer was lost.
Fails(h) ==
    /\ "db" \in Fault
    /\ req[h] # None /\ req[h].at \in {"find", "key", "issue", "known", "upsert"}
    /\ Answer(h, "error")
    /\ \/ UNCHANGED devices
       \/ req[h].at = "upsert" /\ devices' = devices \union {req[h].device}
    /\ UNCHANGED <<now, chal, counts, issued, presented, removed>>

\* A device is deleted, by itself or by the cleanup (modelled in Pairs).
Delete(d) ==
    /\ d \in devices
    /\ devices' = devices \ {d}
    /\ removed' = removed \union {d}
    /\ UNCHANGED <<now, chal, counts, req, issued, presented>>

Tick ==
    /\ now' = now + 1
    /\ chal' = {c \in chal : now' < c.expires}
    /\ UNCHANGED <<devices, counts, req, issued, presented, removed>>

Step(h) ==
    \/ check_auth_ip(h) \/ check_challenge_quota(h) \/ find_key(h) \/ put(h)
    \/ take(h) \/ check_token_proof(h) \/ issue(h)
    \/ register(h) \/ check_registration(h) \/ upsert(h)
    \/ Fails(h)

Next ==
    \/ \E h \in Request : Step(h)
    \/ \E h \in Request, op \in {"challenge", "register"}, d \in Device, peer \in Addr,
          header \in Seq(Line), proof \in BOOLEAN :
         Arrive(h, op, d, peer, header, None, proof)
    \/ \E h \in Request, d \in Device, peer \in Addr, header \in Seq(Line),
          v \in Challenge, proof \in BOOLEAN :
         Arrive(h, "token", d, peer, header, v, proof)
    \/ \E d \in Device : Delete(d)
    \/ Tick

Spec == Init /\ [][Next]_vars
-----------------------------------------------------------------------------
(* Properties.                                                             *)

Pending == [device : Device, value : Challenge, expires : Nat]

RequestState ==
    [op : {"challenge", "token", "register"}, device : Device, peer : Addr,
     header : Seq(Line), value : Challenge \union {None}, proof : BOOLEAN,
     at : Working \union {"done"}, start : Nat, counted : BOOLEAN,
     answer : {"ok", "expired", "unknown", "signature", "limited", "error",
               "created", "updated", None},
     retry : Nat]

ASSUME NoRequest == None \notin RequestState

\* The shape of the state.  Pending challenges are issued ones, and no two
\* challenges have the same value (generate).
TypeOK ==
    /\ now \in Nat
    /\ devices \subseteq Device
    /\ chal \subseteq issued /\ issued \subseteq Pending
    /\ \A c, e \in issued : c.value = e.value => c = e
    /\ presented \subseteq Challenge
    /\ removed \subseteq Device
    /\ req \in [Request -> RequestState \union {None}]

Answered(h, op, code) == At(h, "done") /\ req[h].op = op /\ req[h].answer = code

\* A challenge buys one token: of all the requests that present it, at the
\* same time or one after the other, at most one is granted (GETDEL in take).
SingleUse ==
    \A g, h \in Request :
      (Answered(g, "token", "ok") /\ Answered(h, "token", "ok") /\ g # h)
        => req[g].value # req[h].value

\* Asking for more challenges locks no device out: a challenge that was handed
\* out is refused as expired only after its time, or when a request has
\* presented it before (challenge_key: each has its own key).
NoLockout ==
    [][\A h \in Request, c \in issued :
         (take(h) /\ Answered(h, "token", "expired")' /\ req[h].device = c.device
            /\ req[h].value = c.value)
           => c.value \in presented \/ now >= c.expires]_vars

\* The requests from bucket b that created a device in window w, or may have:
\* the answer of the insert was lost.
Created(b, w) ==
    {h \in Request : /\ \/ Answered(h, "register", "created")
                        \/ Answered(h, "register", "error")
                     /\ req[h].counted /\ Window(h) = w
                     /\ ip_bucket[IpOf(h)] = b}

\* No counter passes its limit, the rows that requests of a client created are
\* at most those it was counted for, and those of all clients together are
\* at most what the relay counted, whatever fails and however requests interleave
\* between the script and the insert.  A row that was not counted replaces one
\* deleted after the request had seen it (register, check_registration, upsert).
RegistrationsCounted ==
    /\ \A w \in 0..(now \div Hour) :
         /\ CountOf(GlobalRegKey(w)) <= RegGlobal
         /\ Cardinality(UNION {Created(b, w) : b \in Bucket}) <= CountOf(GlobalRegKey(w))
         /\ \A b \in Bucket : /\ CountOf(RegKey(b, w)) <= RegPerIp
                              /\ Cardinality(Created(b, w)) <= CountOf(RegKey(b, w))
    /\ \A h \in Request :
         (Answered(h, "register", "created") /\ ~req[h].counted)
           => req[h].device \in removed

\* A client that waits as long as Retry-After says meets a new window: the
\* seconds are rounded up, and a window that ended while the request was
\* being counted only moves the return further (rate_limit_decision,
\* check_registration).
RetrySuffices ==
    \A h \in Request : At(h, "done") /\ req[h].answer = "limited" =>
      LET length == IF req[h].op = "register" THEN Hour ELSE Minute
      IN  req[h].retry >= (Window(h) + 1) * length

\* The sum of f over S.
Total(f, S) ==
    MapThenFoldSet(LAMBDA m, n : m + n, 0, LAMBDA b : f[b], LAMBDA T : CHOOSE b \in T : TRUE, S)

\* The two registration limits agree: what the relay-wide counter has counted
\* is the sum of what the clients' have, since a refused request counts nowhere
\* (REGISTRATION_SCRIPT).
SlotsMatch ==
    \A w \in 0..(now \div Hour) :
      CountOf(GlobalRegKey(w)) = Total([b \in Bucket |-> CountOf(RegKey(b, w))], Bucket)

\* The hops of a request from right to left: the peer, then the entries that
\* are read of X-Forwarded-For; k entries are left of hop k.
Hop(h, k) == IF k = Len(Hops(h)) THEN req[h].peer ELSE Hops(h)[k + 1]

\* The hops that are addresses, with nothing but trusted proxies to the right.
Vouched(h) ==
    {k \in 0..Len(Hops(h)) :
       /\ Hop(h, k) # Bad
       /\ \A j \in (k + 1)..Len(Hops(h)) :
            Hop(h, j) # Bad /\ is_trusted(to_canonical[Hop(h, j)])}

\* A limit counts the nearest address that is not a trusted proxy, or the
\* farthest trusted one.  X-Forwarded-For is its first line here, and nothing
\* when that line is unreadable: then, as without the header, the peer is
\* counted.  In a line that is read, no entry to the left of the address counted
\* matters (request_ip, client_ip).
ClientAddress ==
    \A h \in Request : req[h] # None =>
      \E k \in Vouched(h) :
        (\A j \in Vouched(h) : k <= j) /\ IpOf(h) = to_canonical[Hop(h, k)]
=============================================================================
