------------------------------ MODULE CodePipeline ------------------------------
(***************************************************************************)
(* The code step: llm-service writes a video's code segment by segment     *)
(* (pipeline/run.py) and the caller keeps the segments (authoring-service, *)
(* code_segment_repository.go).  A run writes the shared frame, then the   *)
(* chunks of shots in parallel, each checked and repaired on its own, and  *)
(* merges, checks and repairs the whole.  A fingerprint stands for what a  *)
(* segment is written from; a stored segment is reused when it matches.    *)
(* An event is stored in the step that emits it.  The retry of an          *)
(* unreadable reply is inside the call; the palette fix is inside a reply. *)
(***************************************************************************)
EXTENDS Integers, Sequences, FiniteSets

CONSTANTS
    ShotCount,      \* shots of the video
    ChunkShots,     \* shots per chunk
    Concurrency,    \* calls a run makes at a time
    RepairRounds,   \* repair turns a section may wait for
    MaxRuns,        \* bound: runs
    MaxEdits        \* bound: edits of the prompt or the storyboard, and pastes

ASSUME SizesAssumption == {ShotCount, ChunkShots, Concurrency} \subseteq Nat \ {0}
ASSUME BoundsAssumption == {RepairRounds, MaxRuns, MaxEdits} \subseteq Nat

VARIABLES
    input,     \* segment |-> version of what it is written from
    store,     \* segment |-> its row of authoring_segments
    run,       \* the run at llm-service
    task,      \* chunk |-> its task; the final check is the task of the frame
    result,    \* what the last run returned
    counts     \* runs and edits so far

vars == <<input, store, run, task, result, counts>>

-----------------------------------------------------------------------------
\* How a call to the model ends: an answer, one cut off, a dead key or an empty
\* balance, or any other failure (no answer, a budget spent on reasoning, a timeout).
Once == {"answer", "truncated", "auth", "other"}

\* Provider.chat: a busy or broken provider is asked again, and the last attempt counts.
Chat == Once \cup {"not_configured"}

SplitKinds == {"truncated"}
StopNowKinds == {"auth", "not_configured"}

-----------------------------------------------------------------------------
\* The frame is segment 0, and "shot" 0 of the merged code.
FrameKey == 0
Chunks == 1..((ShotCount + ChunkShots - 1) \div ChunkShots)
Segments == {FrameKey} \cup Chunks

\* make_plan: every ChunkShots shots are a chunk.
ShotsOf(s) ==
    IF s = FrameKey THEN {FrameKey}
    ELSE {i \in 1..ShotCount : (i - 1) \div ChunkShots = s - 1}

Owner(i) == IF i = FrameKey THEN FrameKey ELSE (i - 1) \div ChunkShots + 1

\* A chunk's fingerprint covers the frame's, and its own shots.
Fingerprint(s) == IF s = FrameKey THEN <<input[FrameKey]>> ELSE <<input[FrameKey], input[s]>>

\* Code of a section, written from fp, and whether the check finds nothing in it.
Code(fp, good) == [fp |-> fp, good |-> good]
NoCode == [i \in {} |-> Code(<<>>, TRUE)]

Over(new, old) == [i \in DOMAIN new \cup DOMAIN old |->
                      IF i \in DOMAIN new THEN new[i] ELSE old[i]]
Of(code, ids) == [i \in DOMAIN code \cap ids |-> code[i]]

\* A cut off turn is asked again as two halves.
FirstHalf(ids) == {i \in ids : 2 * Cardinality({j \in ids : j <= i}) <= Cardinality(ids) + 1}
Halves(ids) == <<FirstHalf(ids), ids \ FirstHalf(ids)>>

NoRun == [phase |-> "none", plan |-> <<>>, wanted |-> {}, code |-> NoCode]

NoResult == [status |-> "none", ok |-> FALSE, code |-> NoCode]

Ask(ids) == [ids |-> ids, asking |-> FALSE]

Task(at, todo, code, rounds) ==
    [at |-> at, todo |-> todo, code |-> code, failed |-> {}, rounds |-> rounds,
     applied |-> {}, targets |-> {}, asks |-> {}, fixed |-> {}]

\* The calls of the run in flight; each holds a slot of its semaphore.
Calls ==
    {<<s, Head(task[s].todo)>> : s \in {t \in DOMAIN task : task[t].at = "asking"}}
    \cup UNION {{<<s, a.ids>> : a \in {b \in task[s].asks : b.asking}} : s \in DOMAIN task}

SlotFree == Cardinality(Calls) < Concurrency

Row(status, fp, code) == [status |-> status, fp |-> fp, code |-> code, missing |-> {}]

Pending(fp) == Row("pending", fp, NoCode)

Whole(row, s) == DOMAIN row.code = ShotsOf(s)

Init ==
    /\ input = [s \in Segments |-> 0]
    /\ store = [s \in Segments |-> Pending(<<>>)]
    /\ run = NoRun
    /\ task = [s \in {} |-> Task("end", <<>>, NoCode, 0)]
    /\ result = NoResult
    /\ counts = [runs |-> 0, edits |-> 0]

-----------------------------------------------------------------------------
(* The segments, as the caller stores the events of a run.                 *)

\* Mutant of Planned: a row keeps its code whatever it was written from.
PlannedKeepsCode(fp) == [s \in Segments |-> [store[s] EXCEPT !.fp = fp[s]]]

\* ApplySegmentPlan: a row whose fingerprint changed starts over.
Planned(fp) ==
    [s \in Segments |-> IF store[s].fp = fp[s] THEN store[s] ELSE Pending(fp[s])]

SegmentRunning(row) == [row EXCEPT !.status = "running", !.missing = {}]

SegmentDone(fp, code) == Row("done", fp, code)

\* SaveSegmentFailed, FailedContent: shots the run wrote replace what was there,
\* unless that is whole under the same fingerprint.
SegmentFailed(row, s, fp, code, missing) ==
    LET keep == DOMAIN code = {} \/ (row.fp = fp /\ Whole(row, s))
    IN  [status |-> "failed", fp |-> IF keep THEN row.fp ELSE fp,
         code |-> IF keep THEN row.code ELSE code, missing |-> missing]

\* FailRunningSegments: the run stopped under them.
Interrupted ==
    [s \in Segments |->
        IF store[s].status = "running" THEN [store[s] EXCEPT !.status = "failed"] ELSE store[s]]

Puts(s, row) == store' = [store EXCEPT ![s] = row]

-----------------------------------------------------------------------------
(* A run ends.                                                             *)

Ends(status, ok, code) ==
    /\ run' = NoRun
    /\ task' = [s \in {} |-> Task("end", <<>>, NoCode, 0)]
    /\ result' = [status |-> status, ok |-> ok, code |-> code]

\* A dead key or an empty balance: every task is cancelled.  asyncio.gather does
\* not cancel the other repair calls of the task whose call it was; the run no longer
\* reads what they return, and they are not tracked here.
Stops ==
    /\ Ends("stopped", FALSE, NoCode)
    /\ store' = Interrupted

\* The Creator cancels, the caller goes away or a service restarts.
Cut ==
    /\ run.phase # "none"
    /\ Ends("cut", FALSE, NoCode)
    /\ store' = Interrupted
    /\ UNCHANGED <<input, counts>>

-----------------------------------------------------------------------------
(* The caller starts a run with the segments it has.                       *)

\* What the run has of a segment: stored under the fingerprint of the plan.
Stored(s, fp) == IF store[s].fp = fp THEN store[s].code ELSE NoCode

StartRun ==
    /\ run.phase = "none" /\ counts.runs < MaxRuns
    /\ counts' = [counts EXCEPT !.runs = @ + 1]
    /\ \E wanted \in {Segments} \cup {{s} : s \in Segments} :
          LET fp == [s \in Segments |-> Fingerprint(s)]
          IN  /\ run' = [phase |-> "frame", plan |-> fp, wanted |-> wanted,
                         code |-> Stored(FrameKey, fp[FrameKey])]
              /\ store' = Planned(fp)
    /\ result' = NoResult
    /\ UNCHANGED <<input, task>>

\* The chunks still to write; the shots a chunk has already are not asked for.
ChunkTasks ==
    [s \in {c \in Chunks \cap run.wanted : ~Whole(store[c], c)} |->
        Task("write", <<ShotsOf(s) \ DOMAIN store[s].code>>, store[s].code, 0)]

StoredShots ==
    LET whole == {c \in Chunks : Whole(store[c], c)}
        ids == UNION {ShotsOf(c) : c \in whole}
    IN  [i \in ids |-> store[Owner(i)].code[i]]

ToChunks(frame) ==
    /\ run' = [run EXCEPT !.phase = "chunks", !.code = Over(frame, StoredShots)]
    /\ task' = ChunkTasks

\* The frame is stored, written, or cannot be; nothing is written without one.
Frame ==
    /\ run.phase = "frame"
    /\ \/ /\ DOMAIN run.code # {}
          /\ ToChunks(run.code)
          /\ UNCHANGED <<store, result>>
       \/ /\ DOMAIN run.code = {} /\ FrameKey \in run.wanted
          /\ \E good \in BOOLEAN :
                LET code == [i \in {FrameKey} |-> Code(run.plan[FrameKey], good)]
                IN  /\ Puts(FrameKey, SegmentDone(run.plan[FrameKey], code))
                    /\ ToChunks(code)
          /\ UNCHANGED result
       \/ /\ DOMAIN run.code = {} /\ FrameKey \in run.wanted
          /\ Puts(FrameKey, SegmentFailed(store[FrameKey], FrameKey, run.plan[FrameKey],
                                          NoCode, {}))
          /\ Ends("incomplete", FALSE, NoCode)
       \/ /\ DOMAIN run.code = {} /\ FrameKey \in run.wanted
          /\ Stops
       \/ /\ DOMAIN run.code = {} /\ FrameKey \notin run.wanted
          /\ Ends("incomplete", FALSE, NoCode)
          /\ UNCHANGED store
    /\ UNCHANGED <<input, counts>>

-----------------------------------------------------------------------------
(* do_chunk: one chunk is written.                                         *)

Becomes(s, t) == task' = [task EXCEPT ![s] = t]

\* split_shots: the shots a reply holds, if it is code of shots and nothing else.
ReplyShots == SUBSET (1..ShotCount) \ {{}}

\* A usable reply holds all the shots asked for, in any state; others are dropped.
ParseShots(ids, s) ==
    UNION {IF ids \subseteq given
           THEN {[i \in ids |-> Code(run.plan[s], i \in good)] : good \in SUBSET ids}
           ELSE {} : given \in ReplyShots}

AskShots(s) ==
    /\ s \in DOMAIN task /\ task[s].at = "write" /\ SlotFree
    /\ Becomes(s, [task[s] EXCEPT !.at = "asking"])
    /\ IF store[s].status = "running" THEN UNCHANGED store
       ELSE Puts(s, SegmentRunning(store[s]))
    /\ UNCHANGED <<input, run, result, counts>>

\* The shots written go out as the partial content of the segment.
ChunkFails(s, t) ==
    /\ Puts(s, SegmentFailed(store[s], s, run.plan[s], t.code, t.failed))
    /\ Becomes(s, [t EXCEPT !.at = "end"])
    /\ UNCHANGED run

ChunkDone(s, t) ==
    /\ Puts(s, SegmentDone(run.plan[s], t.code))
    /\ run' = [run EXCEPT !.code = Over(t.code, @)]
    /\ Becomes(s, [t EXCEPT !.at = "end"])

\* A chunk whose groups are all answered fails, or is checked if it is one of many.
Goes(s, t) ==
    IF t.todo = <<>> /\ t.failed # {} THEN ChunkFails(s, t)
    ELSE IF t.todo = <<>> /\ Cardinality(Chunks) = 1 THEN ChunkDone(s, t)
    ELSE /\ Becomes(s, [t EXCEPT !.at = IF t.todo = <<>> THEN "check" ELSE "write"])
         /\ UNCHANGED <<store, run>>

\* Mutant of Refused: only the first half is asked again.
RefusedFirstHalf(t, cutOff) ==
    LET ids == Head(t.todo)
    IN  IF cutOff /\ Cardinality(ids) > 1
        THEN [t EXCEPT !.todo = <<FirstHalf(ids)>> \o Tail(t.todo)]
        ELSE [t EXCEPT !.todo = Tail(t.todo), !.failed = @ \cup ids]

\* A cut off answer is split, down to one shot; both halves are asked whatever
\* becomes of the first.
Refused(t, cutOff) ==
    LET ids == Head(t.todo)
    IN  IF cutOff /\ Cardinality(ids) > 1
        THEN [t EXCEPT !.todo = Halves(ids) \o Tail(t.todo)]
        ELSE [t EXCEPT !.todo = Tail(t.todo), !.failed = @ \cup ids]

OnShots(s) ==
    /\ s \in DOMAIN task /\ task[s].at = "asking"
    /\ LET t == task[s]
       IN  \E kind \in Chat :
              \/ /\ kind = "answer"
                 /\ \E got \in ParseShots(Head(t.todo), s) :
                       Goes(s, [t EXCEPT !.todo = Tail(t.todo), !.code = Over(got, t.code)])
                 /\ UNCHANGED result
              \/ /\ kind \notin StopNowKinds         \* an answer of no use, too
                 /\ Goes(s, Refused(t, kind \in SplitKinds))
                 /\ UNCHANGED result
              \/ kind \in StopNowKinds /\ Stops
    /\ UNCHANGED <<input, counts>>

-----------------------------------------------------------------------------
(* Checks and repairs, of one chunk or of the whole.                       *)

\* remotion_stub: nothing to find fault with.
Stub == Code(<<>>, TRUE)

\* The whole script: the frame, and the shots in order, with stubs for those of others.
MergeRemotion(code) == [i \in 0..ShotCount |-> IF i \in DOMAIN code THEN code[i] ELSE Stub]

\* The sections of a script the compile check finds an error in.
Check(script) == {i \in DOMAIN script : ~script[i].good}

\* _map_failures: the sections to repair.
Bad(code) == Check(MergeRemotion(code)) \cap DOMAIN code

\* Bad shots the compiler may have a suggestion for; each is applied once.
Fixable(t) == (Bad(t.code) \ {FrameKey}) \ t.applied

\* With the suggestions for ids applied, what the check says next is anything.
Suggestions(t, ids) ==
    {[t EXCEPT !.applied = @ \cup ids,
               !.code = [i \in DOMAIN t.code |->
                            IF i \in ids THEN Code(t.code[i].fp, i \in good) ELSE t.code[i]]] :
        good \in SUBSET ids}

\* One turn for the frame, one for all the broken shots of a segment.
Turns(ids) == {Ask({i \in ids : Owner(i) = s}) : s \in {Owner(i) : i \in ids}}

\* Mutant of Repairing: the turn is not counted.
RepairingUncounted(t, ids) ==
    [t EXCEPT !.at = "repair", !.targets = ids, !.asks = Turns(ids)]

Repairing(t, ids) ==
    [t EXCEPT !.at = "repair", !.rounds = @ + 1, !.targets = ids, !.asks = Turns(ids)]

\* A chunk's own check: what it cannot settle, and what it cannot check as the
\* checker is out of reach, is left to the final check.
CheckChunk(s) ==
    /\ s \in DOMAIN task \ {FrameKey} /\ task[s].at = "check"
    /\ LET t == task[s]
       IN  \/ ChunkDone(s, t)
           \/ /\ \E ids \in SUBSET Fixable(t) \ {{}} :
                    \E next \in Suggestions(t, ids) : Becomes(s, next)
              /\ UNCHANGED <<store, run>>
           \/ /\ Bad(t.code) # {} /\ t.rounds < RepairRounds
              /\ Becomes(s, Repairing(t, Bad(t.code)))
              /\ UNCHANGED <<store, run>>
    /\ UNCHANGED <<input, result, counts>>

AskRepair(s) ==
    /\ s \in DOMAIN task /\ task[s].at = "repair" /\ SlotFree
    /\ \E a \in task[s].asks :
          /\ ~a.asking
          /\ Becomes(s, [task[s] EXCEPT !.asks = (@ \ {a}) \cup {[a EXCEPT !.asking = TRUE]}])
    /\ UNCHANGED <<input, store, run, result, counts>>

\* The segments that own a repaired section are stored again.
Restored(ids, code) ==
    store' = [s \in Segments |->
                 IF s \in {Owner(i) : i \in ids}
                 THEN SegmentDone(run.plan[s], Of(code, ShotsOf(s))) ELSE store[s]]

\* All turns answered: the fixes replace the code, which is checked again.
Repaired(s, t) ==
    LET code == [i \in DOMAIN t.code |-> Code(t.code[i].fp, t.code[i].good \/ i \in t.fixed)]
    IN  IF t.asks # {} THEN Becomes(s, t) /\ UNCHANGED store
        ELSE /\ Becomes(s, [t EXCEPT !.at = "check", !.code = code, !.fixed = {},
                                     !.targets = {}])
             /\ IF s = FrameKey THEN Restored(t.targets, code) ELSE UNCHANGED store

\* A reply with none of the shots asked for is of no use.
ParseRepairedShots(ids) ==
    {given \cap ids : given \in {g \in SUBSET (0..ShotCount) : g \cap ids # {}}}

\* Some of the sections asked for are good now; a shot the reply leaves out, or an
\* unusable reply, keeps the old code.
OnRepair(s) ==
    /\ s \in DOMAIN task /\ task[s].at = "repair"
    /\ \E a \in task[s].asks :
          LET t == [task[s] EXCEPT !.asks = @ \ {a}]
          IN  /\ a.asking
              /\ \E kind \in Chat :
                    \/ /\ kind = "answer"
                       /\ \E got \in ParseRepairedShots(a.ids) : \E good \in SUBSET got :
                             Repaired(s, [t EXCEPT !.fixed = @ \cup good])
                       /\ UNCHANGED <<run, result>>
                    \/ /\ kind \notin StopNowKinds
                       /\ kind \in SplitKinds => Cardinality(a.ids) = 1
                       /\ Repaired(s, t)
                       /\ UNCHANGED <<run, result>>
                    \/ /\ kind \in SplitKinds /\ Cardinality(a.ids) > 1
                       /\ Becomes(s, [t EXCEPT !.asks = @ \cup {Ask(Halves(a.ids)[1]),
                                                                Ask(Halves(a.ids)[2])}])
                       /\ UNCHANGED <<store, run, result>>
                    \/ kind \in StopNowKinds /\ Stops
    /\ UNCHANGED <<input, counts>>

\* Every chunk settled: the whole is merged and checked, if it is whole.  Rounds
\* spent on a chunk count.
Merge ==
    /\ run.phase = "chunks"
    /\ \A s \in DOMAIN task : task[s].at = "end"
    /\ IF DOMAIN run.code = 0..ShotCount
       THEN LET spent == {task[s].rounds : s \in DOMAIN task} \cup {0}
                most == CHOOSE r \in spent : \A other \in spent : other <= r
            IN  /\ run' = [run EXCEPT !.phase = "final"]
                /\ task' = [s \in {FrameKey} |-> Task("check", <<>>, MergeRemotion(run.code), most)]
                /\ UNCHANGED result
       ELSE Ends("incomplete", FALSE, NoCode)
    /\ UNCHANGED <<input, store, counts>>

\* The final check; unmapped is an error outside the sections the model wrote.
FinalCheck ==
    /\ run.phase = "final" /\ task[FrameKey].at = "check"
    /\ LET t == task[FrameKey]
       IN  \/ /\ Ends("stopped", FALSE, NoCode)         \* the checker is out of reach
              /\ UNCHANGED store
           \/ /\ \E ids \in SUBSET Fixable(t) \ {{}} :
                    \E next \in Suggestions(t, ids) :
                        Becomes(FrameKey, next) /\ Restored(ids, next.code)
              /\ UNCHANGED <<run, result>>
           \/ /\ Bad(t.code) # {} /\ t.rounds < RepairRounds
              /\ Becomes(FrameKey, Repairing(t, Bad(t.code)))
              /\ UNCHANGED <<store, run, result>>
           \/ /\ Bad(t.code) = {} \/ t.rounds >= RepairRounds
              /\ \E unmapped \in BOOLEAN :
                    Ends("done", Bad(t.code) = {} /\ ~unmapped, t.code)
              /\ UNCHANGED store
    /\ UNCHANGED <<input, counts>>

-----------------------------------------------------------------------------
\* The Creator edits the prompt or the layout (the frame's), or a chunk's shots.
EditInput ==
    /\ counts.edits < MaxEdits
    /\ counts' = [counts EXCEPT !.edits = @ + 1]
    /\ \E s \in Segments : input' = [input EXCEPT ![s] = @ + 1]
    /\ UNCHANGED <<store, run, task, result>>

\* parse_segment: what a usable reply for a segment becomes.
ParseSegment(s) ==
    {SegmentDone(Fingerprint(s), [i \in ShotsOf(s) |-> Code(Fingerprint(s), i \in good)]) :
        good \in SUBSET ShotsOf(s)}

\* segment-parse: an outside AI's reply for a segment, between runs.
Paste ==
    /\ run.phase = "none" /\ counts.edits < MaxEdits
    /\ counts' = [counts EXCEPT !.edits = @ + 1]
    /\ \E s \in Segments : \E row \in ParseSegment(s) : Puts(s, row)
    /\ result' = NoResult
    /\ UNCHANGED <<input, run, task>>

Works(s) ==
    AskShots(s) \/ OnShots(s) \/ CheckChunk(s) \/ AskRepair(s) \/ OnRepair(s)

Next ==
    \/ StartRun \/ Frame \/ Merge \/ FinalCheck \/ Cut \/ EditInput \/ Paste
    \/ \E s \in Segments : Works(s)

Spec == Init /\ [][Next]_vars

\* A call is answered or times out, and the event loop runs what can run.
FairSpec ==
    /\ Spec /\ WF_vars(Frame \/ Merge \/ FinalCheck \/ Works(FrameKey))
    /\ \A s \in Chunks : WF_vars(Works(s))

-----------------------------------------------------------------------------
(* Properties.                                                             *)

\* Every variable keeps its shape.
TypeOK ==
    /\ input \in [Segments -> 0..MaxEdits]
    /\ DOMAIN store = Segments
    /\ \A s \in Segments :
          /\ store[s].status \in {"pending", "running", "done", "failed"}
          /\ DOMAIN store[s].code \subseteq ShotsOf(s)
          /\ store[s].missing \subseteq ShotsOf(s)
    /\ run.phase \in {"none", "frame", "chunks", "final"}
    /\ DOMAIN task \subseteq Segments
    /\ result.status \in {"none", "incomplete", "done", "stopped", "cut"}

\* A stored shot was written from the inputs whose fingerprint it is stored under,
\* however edits, runs, failures and pastes follow one another.
CodeIsOfFingerprint ==
    \A s \in Segments : \A i \in DOMAIN store[s].code : store[s].code[i].fp = store[s].fp

\* A run that ended without being stopped accounts for every shot it was to
\* write: its segment is done, or the shot is stored or named as missing; and the
\* script it returns is the one the segments hold, good in every section if it passed.
EveryShotAccounted ==
    run.phase = "none" /\ result.status \in {"incomplete", "done"} =>
        /\ \A s \in Segments :
              /\ store[s].status # "running"
              /\ store[s].status = "done" => Whole(store[s], s)
              /\ store[s].status = "failed" /\ s \in Chunks /\ store[s].missing # {} =>
                    DOMAIN store[s].code \cup store[s].missing = ShotsOf(s)
              /\ result.status = "done" => store[s].code = Of(result.code, ShotsOf(s))
        /\ result.status = "done" /\ result.ok => Bad(result.code) = {}

\* A run ends: halves get a slot, repair rounds and suggestions run out.
RunEnds == run.phase # "none" ~> run.phase = "none"

=============================================================================
