----------------------------- MODULE BeatLengths -----------------------------
(***************************************************************************)
(* The lengths of the beats of a sheet: the even split a skeleton starts   *)
(* with and BalanceSeconds, which brings the total of a written sheet      *)
(* inside the target.  Lengths are whole seconds; the code scales them in  *)
(* floating point and this module in exact fractions.                      *)
(***************************************************************************)
EXTENDS Integers, Sequences, SequencesExt

MinBeatSeconds == 5
MaxBeatSeconds == 600
MaxHookSeconds == 20
BeatDurationStep == 5
provisionalHookSeconds == 15
blankSeconds == 15

\* The range a tenth either side of the length the brief asks for.
NewTargetLength(seconds) ==
    [lo |-> (seconds * 90 + 50) \div 100, hi |-> (seconds * 110 + 50) \div 100]

Total(lengths) ==
    LET sum[i \in 0 .. Len(lengths)] == IF i = 0 THEN 0 ELSE sum[i - 1] + lengths[i]
    IN  sum[Len(lengths)]

AtLeast(a, b) == IF a < b THEN b ELSE a
AtMost(a, b) == IF a < b THEN a ELSE b

\* The length a skeleton of n beats gives every beat but the hook.
SkeletonShare(n, target) ==
    LET share == ((target.lo + target.hi) \div 2 - provisionalHookSeconds) \div (n - 1)
    IN  IF share > MinBeatSeconds THEN (share \div BeatDurationStep) * BeatDurationStep
                                  ELSE MinBeatSeconds

-----------------------------------------------------------------------------
(* One turn of each of the two loops that move the rounding leftover.      *)

limit(i, hook) == IF i = 1 /\ hook THEN MaxHookSeconds ELSE MaxBeatSeconds

\* A step from the first of the longest of the free beats that can give one.
Lower(lengths, free) ==
    LET can == {i \in free : lengths[i] - BeatDurationStep >= MinBeatSeconds}
        longest == CHOOSE i \in can : \A j \in can :
                      lengths[j] < lengths[i] \/ (lengths[j] = lengths[i] /\ i <= j)
    IN  IF can = {} THEN lengths
                    ELSE [lengths EXCEPT ![longest] = @ - BeatDurationStep]

\* A step onto the first of the shortest of the free beats that can take one.
Raise(lengths, free, hook) ==
    LET can == {i \in free : lengths[i] + BeatDurationStep <= limit(i, hook)}
        shortest == CHOOSE i \in can : \A j \in can :
                       lengths[j] > lengths[i] \/ (lengths[j] = lengths[i] /\ i <= j)
    IN  IF can = {} THEN lengths
                    ELSE [lengths EXCEPT ![shortest] = @ + BeatDurationStep]

\* How many turns a loop takes that has this many seconds to move.
Turns(seconds) == IF seconds <= 0 THEN 0 ELSE (seconds + BeatDurationStep - 1) \div BeatDurationStep

Shrunk(lengths, free, hi) ==
    LET n == Turns(Total(lengths) - hi)
        after[i \in 0 .. n] == IF i = 0 THEN lengths ELSE Lower(after[i - 1], free)
    IN  after[n]

Grown(lengths, free, hook, lo) ==
    LET n == Turns(lo - Total(lengths))
        after[i \in 0 .. n] == IF i = 0 THEN lengths ELSE Raise(after[i - 1], free, hook)
    IN  after[n]

\* Every free length times room / freeSum, rounded to the step and clamped.
Scaled(lengths, free, hook, room) ==
    LET freeSum == Total([i \in 1 .. Len(lengths) |-> IF i \in free THEN lengths[i] ELSE 0])
        rounded(i) == BeatDurationStep *
            ((2 * lengths[i] * room + BeatDurationStep * freeSum)
                \div (2 * BeatDurationStep * freeSum))
    IN  [i \in 1 .. Len(lengths) |->
            IF i \in free THEN AtMost(AtLeast(rounded(i), MinBeatSeconds), limit(i, hook))
                          ELSE lengths[i]]

\* The lengths BalanceSeconds returns, none when it fails: hook tells whether
\* the first beat is a Hook, fixed holds the places whose length must stay.
BalanceSeconds(lengths, fixed, hook, target) ==
    LET free == (1 .. Len(lengths)) \ fixed
        total == Total(lengths)
        goal == IF total > target.hi THEN target.hi ELSE target.lo
        room == goal - Total([i \in 1 .. Len(lengths) |-> IF i \in fixed THEN lengths[i] ELSE 0])
        shrunk == Shrunk(Scaled(lengths, free, hook, room), free, target.hi)
        grown == Grown(shrunk, free, hook, target.lo)
    IN  IF total \in target.lo .. target.hi THEN {lengths}
        ELSE IF free = {} \/ room < Cardinality(free) * MinBeatSeconds THEN {}
        ELSE IF Total(shrunk) > target.hi \/ Total(grown) < target.lo THEN {}
        ELSE {grown}

=============================================================================
