----------------------------- MODULE Throttle -----------------------------
(***************************************************************************)
(* What the bandwidth limit of a pair promises, as a leaky bucket: one     *)
(* byte leaks per tick, and a frame passes only when it fits.  The bucket  *)
(* of a link is emptied when the link closes and at no other time, so in   *)
(* any t ticks in which it does not close at most Size + t bytes pass.     *)
(* Nothing here says when a frame is held or for how long.                 *)
(***************************************************************************)
EXTENDS Integers

CONSTANTS
    Link,       \* (sender, receiver)
    Size        \* bytes that may pass at once

VARIABLES
    open,       \* links whose sender is connected and has the receiver as peer
    level       \* bytes that have passed and not yet leaked

Init ==
    /\ open = {}
    /\ level = [l \in Link |-> 0]

Leak(n) == IF n = 0 THEN 0 ELSE n - 1

\* What is left of the levels when links open and close in this step.
Kept == [l \in Link |-> IF l \in open \ open' THEN 0 ELSE level[l]]

Turn ==
    /\ open' \in SUBSET Link
    /\ level' = Kept

\* A frame of n bytes passes, in a step that may find links closed.
Pass(l, n) ==
    /\ open' \in SUBSET Link
    /\ Kept[l] + n <= Size
    /\ level' = [Kept EXCEPT ![l] = @ + n]

Tick ==
    /\ level' = [l \in Link |-> Leak(level[l])]
    /\ UNCHANGED open

Next == Turn \/ (\E l \in Link, n \in 0..Size : Pass(l, n)) \/ Tick

Spec == Init /\ [][Next]_<<open, level>>
=============================================================================
