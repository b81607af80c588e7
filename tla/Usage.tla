------------------------------- MODULE Usage -------------------------------
(***************************************************************************)
(* Usage statistics and the daily cleanup: usage.rs, store/usage.rs and    *)
(* maintenance.rs.  Every instance counts in memory and flushes on a       *)
(* timer: it takes the counters, asks Redis for the salt of the month,     *)
(* adds everything to usage_daily under hash(salt, device) in one          *)
(* statement, and puts the counters back when a step failed.  Once a day   *)
(* one instance, chosen by a lock key in Redis, deletes old rows.          *)
(*                                                                         *)
(* Envelopes, bytes and pushes are treated alike by the code and are one   *)
(* amount here.  A device hash is the pair (device, salt).  Months have a  *)
(* fixed length.                                                           *)
(***************************************************************************)
EXTENDS Integers

CONSTANTS
    Device,         \* devices that are counted
    Instance,       \* relay instances
    Salt,           \* salts an instance may draw
    Amount,         \* what one count may add
    DaysPerMonth,
    KeepDays,       \* 30 in maintenance.rs: statistics are kept this long
    None,
    UsageFault      \* failures that may happen: subset of AllUsageFaults

\* "redis": Redis fails, before or after it ran the command; "db": the
\* statement fails; "answer": it ran, its answer is lost; "crash".
AllUsageFaults == {"redis", "db", "answer", "crash"}

ASSUME UsageConstants ==
    /\ Amount \subseteq Nat
    /\ DaysPerMonth \in Nat \ {0}
    /\ KeepDays \in Nat
    /\ UsageFault \subseteq AllUsageFaults
    /\ None \notin Salt

VARIABLES
    day,            \* the date, UTC
    tally,          \* Usage.tallies of each instance
    batch,          \* what the flush of each instance has taken
    flusher,        \* where the flush of each instance is
    salts,          \* the salt keys in Redis
    rows,           \* keys of usage_daily
    lockedDay,      \* the day of the newest cleanup lock in Redis
    cleaner,        \* instances that hold today's lock and run the cleanup
    ticked,         \* some instance has looked for the lock today
    faulted,        \* a failure got in the way of today's cleanup
    missed,         \* days in a row on which that happened
    added,          \* history: amounts counted ...
    written,        \* ... added to usage_daily by each instance ...
    again,          \* ... put back although they had been written ...
    lost            \* ... and gone with the process

flushVars == <<tally, batch, flusher, salts, rows, added, written, again, lost>>
cleanVars == <<day, lockedDay, cleaner, ticked, faulted, missed>>
usageVars == <<flushVars, cleanVars>>

Zero == [d \in Device |-> 0]
Plus(f, g) == [d \in Device |-> f[d] + g[d]]
Month(x) == x \div DaysPerMonth
FirstOfMonth(x) == x % DaysPerMonth = 0

Idle == [at |-> "idle", since |-> 0, salt |-> None]

UsageInit ==
    /\ day = 1
    /\ tally = [i \in Instance |-> Zero]
    /\ batch = [i \in Instance |-> Zero]
    /\ flusher = [i \in Instance |-> Idle]
    /\ salts = {}
    /\ rows = {}
    /\ lockedDay = 0
    /\ cleaner = {}
    /\ ticked = FALSE
    /\ faulted = FALSE
    /\ missed = 0
    /\ added = [i \in Instance |-> Zero]
    /\ written = [i \in Instance |-> Zero]
    /\ again = [i \in Instance |-> Zero]
    /\ lost = [i \in Instance |-> Zero]

-----------------------------------------------------------------------------
(* Counting and flushing.                                                  *)

\* add_envelope and add_push.
Count(i, d, n) ==
    /\ tally' = [tally EXCEPT ![i][d] = @ + n]
    /\ added' = [added EXCEPT ![i][d] = @ + n]
    /\ UNCHANGED <<batch, flusher, salts, rows, written, again, lost>>
    /\ UNCHANGED cleanVars

\* flush: take the counters, if there are any, and fix the month of the salt.
take(i) ==
    /\ flusher[i] = Idle
    /\ tally[i] # Zero
    /\ batch' = [batch EXCEPT ![i] = tally[i]]
    /\ tally' = [tally EXCEPT ![i] = Zero]
    /\ flusher' = [flusher EXCEPT ![i] =
                      [at |-> "salt", since |-> day, salt |-> None]]
    /\ UNCHANGED <<salts, rows, added, written, again, lost>>
    /\ UNCHANGED cleanVars

\* Mutant: the counters counted since are overwritten.
RestoreOver(i) ==
    /\ tally' = [tally EXCEPT ![i] = batch[i]]
    /\ batch' = [batch EXCEPT ![i] = Zero]
    /\ flusher' = [flusher EXCEPT ![i] = Idle]

\* The counters counted since are kept: the batch is added to them.
restore(i) ==
    /\ tally' = [tally EXCEPT ![i] = Plus(@, batch[i])]
    /\ batch' = [batch EXCEPT ![i] = Zero]
    /\ flusher' = [flusher EXCEPT ![i] = Idle]

SaltOf(m) == {s \in salts : s.month = m}

\* Mutant: SET without NX.
SetSaltAnyway(m) ==
    \E s \in Salt \ {x.salt : x \in salts} :
      salts' = (salts \ SaltOf(m)) \union {[month |-> m, salt |-> s]}

\* SET NX: the first instance of the month decides the salt.
SetSalt(m) ==
    IF SaltOf(m) # {}
      THEN salts' = salts
      ELSE \E s \in Salt \ {x.salt : x \in salts} :
             salts' = salts \union {[month |-> m, salt |-> s]}

monthly_salt(i) ==
    /\ flusher[i].at = "salt"
    /\ LET m == Month(flusher[i].since) IN
       \/ /\ SetSalt(m)
          /\ \E s \in salts' :
               /\ s.month = m
               /\ flusher' = [flusher EXCEPT ![i] =
                                 [at |-> "write", since |-> @.since, salt |-> s.salt]]
          /\ UNCHANGED <<tally, batch>>
       \/ /\ "redis" \in UsageFault
          /\ SetSalt(m) \/ salts' = salts
          /\ restore(i)
    /\ UNCHANGED <<rows, added, written, again, lost>>
    /\ UNCHANGED cleanVars

\* The rows the statement touches: current_date is the date it runs at.
BatchRows(i) ==
    {[day |-> day, device |-> d, salt |-> flusher[i].salt] :
        d \in {d \in Device : batch[i][d] > 0}}

add_batch(i) ==
    /\ flusher[i].at = "write"
    /\ \/ /\ rows' = rows \union BatchRows(i)
          /\ written' = [written EXCEPT ![i] = Plus(@, batch[i])]
          /\ batch' = [batch EXCEPT ![i] = Zero]
          /\ flusher' = [flusher EXCEPT ![i] = Idle]
          /\ UNCHANGED <<tally, again>>
       \/ /\ "db" \in UsageFault
          /\ restore(i)
          /\ UNCHANGED <<rows, written, again>>
       \/ /\ "answer" \in UsageFault
          /\ rows' = rows \union BatchRows(i)
          /\ written' = [written EXCEPT ![i] = Plus(@, batch[i])]
          /\ again' = [again EXCEPT ![i] = Plus(@, batch[i])]
          /\ restore(i)
    /\ UNCHANGED <<salts, added, lost>>
    /\ UNCHANGED cleanVars

\* The process ends: what it had not written is gone.
Crash(i) ==
    /\ "crash" \in UsageFault
    /\ lost' = [lost EXCEPT ![i] = Plus(@, Plus(tally[i], batch[i]))]
    /\ tally' = [tally EXCEPT ![i] = Zero]
    /\ batch' = [batch EXCEPT ![i] = Zero]
    /\ flusher' = [flusher EXCEPT ![i] = Idle]
    /\ cleaner' = cleaner \ {i}
    /\ faulted' = (faulted \/ i \in cleaner)
    /\ UNCHANGED <<salts, rows, added, written, again>>
    /\ UNCHANGED <<day, lockedDay, ticked, missed>>

-----------------------------------------------------------------------------
(* The daily cleanup.                                                      *)

\* Mutant: one lock key for all days.
TryCleanupOnce(i) ==
    /\ i \notin cleaner
    /\ ticked' = TRUE
    /\ IF lockedDay = 0
         THEN lockedDay' = day /\ cleaner' = cleaner \union {i}
         ELSE UNCHANGED <<lockedDay, cleaner>>
    /\ UNCHANGED faulted
    /\ UNCHANGED <<day, missed>>
    /\ UNCHANGED flushVars

\* The hourly tick of spawn: SET NX on the lock key of the day.
TryCleanup(i) ==
    /\ i \notin cleaner
    /\ ticked' = TRUE
    /\ \/ /\ lockedDay # day
          /\ lockedDay' = day
          /\ cleaner' = cleaner \union {i}
          /\ UNCHANGED faulted
       \/ /\ lockedDay = day
          /\ UNCHANGED <<lockedDay, cleaner, faulted>>
       \/ /\ "redis" \in UsageFault
          /\ lockedDay' \in {lockedDay, day}
          /\ faulted' = TRUE
          /\ UNCHANGED cleaner
    /\ UNCHANGED <<day, missed>>
    /\ UNCHANGED flushVars

\* run_cleanup: rows older than KeepDays.  After a failure the lock stays.
run_cleanup(i) ==
    /\ i \in cleaner
    /\ cleaner' = cleaner \ {i}
    /\ \/ /\ rows' = {r \in rows : r.day >= day - KeepDays}
          /\ UNCHANGED faulted
       \/ /\ UsageFault \intersect {"db", "answer"} # {}
          /\ rows' \in {rows, {r \in rows : r.day >= day - KeepDays}}
          /\ faulted' = TRUE
    /\ UNCHANGED <<tally, batch, flusher, salts, added, written, again, lost>>
    /\ UNCHANGED <<day, lockedDay, ticked, missed>>

\* The date changes.  Instances look for the lock every hour, and neither a
\* flush nor a cleanup takes a whole day.
Midnight ==
    /\ ticked
    /\ cleaner = {}
    /\ \A i \in Instance : flusher[i] # Idle => flusher[i].since = day
    /\ day' = day + 1
    /\ ticked' = FALSE
    /\ faulted' = FALSE
    /\ missed' = IF faulted THEN missed + 1 ELSE 0
    /\ UNCHANGED <<lockedDay, cleaner>>
    /\ UNCHANGED flushVars

UsageStep(i) ==
    \/ take(i)
    \/ monthly_salt(i)
    \/ add_batch(i)
    \/ Crash(i)
    \/ TryCleanup(i)
    \/ run_cleanup(i)

UsageNext ==
    \/ \E i \in Instance : UsageStep(i)
    \/ \E i \in Instance, d \in Device, n \in Amount : Count(i, d, n)
    \/ Midnight

UsageSpec == UsageInit /\ [][UsageNext]_usageVars

-----------------------------------------------------------------------------
(* Properties.                                                             *)

Counts == [Instance -> [Device -> Nat]]

\* The shape of the state: counters are natural numbers, a flush that has a
\* salt has one of Salt, the lock is of a day that has begun.
UsageTypeOK ==
    /\ day \in Nat
    /\ tally \in Counts /\ batch \in Counts
    /\ added \in Counts /\ written \in Counts
    /\ again \in Counts /\ lost \in Counts
    /\ flusher \in [Instance -> [at : {"idle", "salt", "write"}, since : Nat,
                                 salt : Salt \union {None}]]
    /\ \A s \in salts : s.month \in Nat /\ s.salt \in Salt
    /\ \A r \in rows : r.day \in Nat /\ r.day <= day /\ r.device \in Device
                       /\ r.salt \in Salt
    /\ lockedDay \in Nat
    /\ cleaner \subseteq Instance
    /\ ticked \in BOOLEAN /\ faulted \in BOOLEAN
    /\ missed \in Nat

\* Nothing is counted twice and nothing disappears, whatever the order of
\* counting, flushing and failing: what an instance has written and still
\* holds is what it counted, plus the batches restored after a statement
\* whose answer was lost, less what a crash took (usage.rs take, restore).
Conserved ==
    \A i \in Instance, d \in Device :
      written[i][d] + tally[i][d] + batch[i][d] + lost[i][d]
        = added[i][d] + again[i][d]

\* All instances write a device under one hash on a given day (SET NX in
\* monthly_salt).  Only on the first of a month may there be two: a flush
\* that took its salt before midnight writes after it.
OneHashPerDay ==
    \A r, s \in rows :
      (r.day = s.day /\ r.device = s.device /\ ~FirstOfMonth(r.day))
        => r.salt = s.salt

\* Statistics outlive their time by at most the days in a row on which a
\* failure hit the cleanup: the lock of the day is never retried
\* (maintenance.rs spawn), and a day without a failure catches up.
RowsExpire ==
    \A r \in rows : day - r.day <= KeepDays + 1 + missed
=============================================================================
