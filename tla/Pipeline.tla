------------------------------ MODULE Pipeline ------------------------------
(***************************************************************************)
(* What the orchestrator promises about the production of one video, with  *)
(* no message, row or worker in sight: N stages, run one at a time and in   *)
(* order, each on top of the finished earlier ones; a stage that fails is   *)
(* resumed where it failed; the run moves on from a resting point only     *)
(* because somebody asked.                                                  *)
(***************************************************************************)
EXTENDS Naturals

CONSTANT
    N          \* the number of stages, at least one

VARIABLES
    mode,      \* what the run is doing
    at,        \* the stage it is at, 0 when it is at none
    done       \* the stages whose result stands

vars == <<mode, at, done>>

Stages == 1 .. N

Modes == {"draft", "running", "waiting", "failed", "finished"}

Init == mode = "draft" /\ at = 0 /\ done = {}

-----------------------------------------------------------------------------
(* Requests, which leave a resting point.                                  *)

\* A new run forgets the results of the one before.
Begin ==
    /\ mode # "running"
    /\ mode' = "running" /\ at' = 1 /\ done' = {}

\* A waiting run goes on to a later stage; the stages in between count as done.
\* The stage may turn out impossible to start.
Resume(i) ==
    /\ mode = "waiting" /\ i > at
    /\ mode' \in {"running", "failed"} /\ at' = i /\ done' = 1 .. (i - 1)

\* A waiting run does its stage again.
Redo ==
    /\ mode = "waiting"
    /\ mode' = "running" /\ done' = done \ {at} /\ UNCHANGED at

Retry ==
    /\ mode = "failed"
    /\ mode' = "running" /\ UNCHANGED <<at, done>>

Abandon ==
    /\ mode = "waiting"
    /\ mode' = "draft" /\ at' = 0 /\ UNCHANGED done

-----------------------------------------------------------------------------
(* What a running stage can come to.                                       *)

\* The next stage that has anything to do starts, or fails to start.
Advance(i) ==
    /\ mode = "running" /\ i > at
    /\ mode' \in {"running", "failed"} /\ at' = i /\ done' = 1 .. (i - 1)

Pause ==
    /\ mode = "running" /\ at < N
    /\ mode' = "waiting" /\ done' = done \cup {at} /\ UNCHANGED at

Fail ==
    /\ mode = "running"
    /\ mode' = "failed" /\ UNCHANGED <<at, done>>

Finish ==
    /\ mode = "running" /\ at = N
    /\ mode' = "finished" /\ done' = done \cup {at} /\ UNCHANGED at

Next ==
    \/ Begin \/ Redo \/ Retry \/ Abandon
    \/ Pause \/ Fail \/ Finish
    \/ \E i \in Stages : Resume(i) \/ Advance(i)

Spec == Init /\ [][Next]_vars

-----------------------------------------------------------------------------
\* A stage runs, or waits to be retried, on exactly the results of all the
\* stages before it; a run that waits or is over has its own stage's too.
PrefixDone ==
    /\ mode \in {"running", "failed"} => at \in Stages /\ done = 1 .. (at - 1)
    /\ mode \in {"waiting", "finished"} => at \in Stages /\ done = 1 .. at
    /\ mode = "finished" => at = N
=============================================================================
