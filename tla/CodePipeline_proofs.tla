------------------------- MODULE CodePipeline_proofs -------------------------
(***************************************************************************)
(* Theorems about CodePipeline for any number of shots, chunks, calls at a *)
(* time and repair rounds, with their proofs.                              *)
(***************************************************************************)
EXTENDS CodePipeline, SequenceTheorems, TLAPS

-----------------------------------------------------------------------------
(* The invariant.                                                          *)

\* A script: sections with what each was written from.
IsCode(code) ==
    /\ code = [i \in DOMAIN code |-> code[i]]
    /\ \A i \in DOMAIN code : code[i] = Code(code[i].fp, code[i].good) /\ code[i].good \in BOOLEAN

\* A row holds shots of its segment, written from what its fingerprint says; done, it
\* holds all of them, and failed, those it does not name as missing.
RowOK(s, row) ==
    /\ row = [status |-> row.status, fp |-> row.fp, code |-> row.code, missing |-> row.missing]
    /\ row.status \in {"pending", "running", "done", "failed"}
    /\ IsCode(row.code) /\ DOMAIN row.code \subseteq ShotsOf(s)
    /\ row.missing \subseteq ShotsOf(s)
    /\ \A i \in DOMAIN row.code : row.code[i].fp = row.fp
    /\ row.status = "done" => Whole(row, s)
    /\ row.status = "running" => row.missing = {}
    /\ row.status = "failed" /\ s \in Chunks /\ row.missing # {} =>
          DOMAIN row.code \cup row.missing = ShotsOf(s)

RowsOK == store = [s \in Segments |-> store[s]] /\ \A s \in Segments : RowOK(s, store[s])

\* The shots still to be asked for.
Left(todo) == UNION {todo[k] : k \in DOMAIN todo}

\* A task: what it has, asks for and has given up are shots of its segment, and what
\* it has was written from the plan.
TaskShape(t) ==
    t = [at |-> t.at, todo |-> t.todo, code |-> t.code, failed |-> t.failed,
         rounds |-> t.rounds, applied |-> t.applied, targets |-> t.targets,
         asks |-> t.asks, fixed |-> t.fixed]

Holds(s, t) ==
    /\ IsCode(t.code) /\ DOMAIN t.code \subseteq ShotsOf(s)
    /\ \A i \in DOMAIN t.code : t.code[i].fp = run.plan[s]
    /\ t.failed \subseteq ShotsOf(s) /\ t.todo \in Seq(SUBSET ShotsOf(s))

\* Every shot of the segment is written, given up, or still to be asked for.
Accounts(s, t) == DOMAIN t.code \cup t.failed \cup Left(t.todo) = ShotsOf(s)

TaskOK(s, t) ==
    /\ TaskShape(t) /\ Holds(s, t)
    /\ t.at \in {"write", "asking", "check", "repair", "end"}
    /\ t.at \in {"write", "asking"} => t.todo # <<>> /\ Accounts(s, t)
    /\ t.at \in {"check", "repair"} => DOMAIN t.code = ShotsOf(s)

\* The task of the final check: its script is the one the segments hold, and only
\* sections being repaired change.
FinalOK(t) ==
    /\ TaskShape(t) /\ t.at \in {"check", "repair"}
    /\ IsCode(t.code) /\ DOMAIN t.code = 0..ShotCount
    /\ \A s \in Segments : store[s].code = Of(t.code, ShotsOf(s))
    /\ t.fixed \subseteq t.targets
    /\ t.at = "check" => t.fixed = {}
    /\ \A a \in t.asks : a = [ids |-> a.ids, asking |-> a.asking] /\ a.ids \subseteq t.targets

\* Of a segment the run has merged nothing, or all that is stored.
MergedOK(s) ==
    \/ DOMAIN run.code \cap ShotsOf(s) = {}
    \/ store[s].code = Of(run.code, ShotsOf(s))

RunOK ==
    /\ run = [phase |-> run.phase, plan |-> run.plan, wanted |-> run.wanted, code |-> run.code]
    /\ task = [s \in DOMAIN task |-> task[s]]
    /\ run.phase \in {"none", "frame", "chunks", "final"}
    /\ run.phase # "none" => \A s \in Segments : store[s].fp = run.plan[s]
    /\ run.phase # "chunks" => \A s \in Segments : store[s].status # "running"
    /\ run.phase \in {"none", "frame"} => DOMAIN task = {}
    /\ run.phase = "frame" => run.code = store[FrameKey].code
    /\ run.phase = "chunks" =>
          /\ DOMAIN task \subseteq Chunks /\ IsCode(run.code)
          /\ \A s \in DOMAIN task :
                /\ TaskOK(s, task[s])
                /\ task[s].at # "end" => DOMAIN run.code \cap ShotsOf(s) = {}
          /\ \A s \in Segments :
                /\ MergedOK(s)
                /\ store[s].status = "running" => s \in DOMAIN task /\ task[s].at # "end"
    /\ run.phase = "final" => DOMAIN task = {FrameKey} /\ FinalOK(task[FrameKey])

\* What a finished run returned is what the segments hold, and good if it passed.
ResultOK ==
    /\ result.status \in {"none", "incomplete", "done", "stopped", "cut"}
    /\ run.phase = "none" /\ result.status = "done" =>
          /\ \A s \in Segments : store[s].code = Of(result.code, ShotsOf(s))
          /\ result.ok => Bad(result.code) = {}

CountsOK ==
    /\ counts = [runs |-> counts.runs, edits |-> counts.edits]
    /\ counts.edits \in 0..MaxEdits
    /\ input \in [Segments -> 0..counts.edits]

Inv == RowsOK /\ RunOK /\ ResultOK /\ CountsOK

-----------------------------------------------------------------------------
(* The operators.                                                          *)

\* A shot has one segment.
LEMMA OwnerIs ==
    ASSUME NEW s \in Segments, NEW i \in ShotsOf(s)
    PROVE  Owner(i) = s /\ i \in 0..ShotCount
<1>1. CASE s = FrameKey
  BY <1>1, SizesAssumption DEF ShotsOf, Owner, FrameKey
<1>2. CASE s # FrameKey
  <2>1. s \in Int /\ i \in 1..ShotCount /\ (i - 1) \div ChunkShots = s - 1
    BY <1>2 DEF ShotsOf, Segments, Chunks
  <2>2. i # FrameKey
    BY <2>1, SizesAssumption DEF FrameKey
  <2>3. Owner(i) = (s - 1) + 1
    BY <2>1, <2>2 DEF Owner
  <2> QED  BY <2>1, <2>3, SizesAssumption
<1> QED  BY <1>1, <1>2

\* No script, and what a reply holds.
LEMMA NoCodeIs == IsCode(NoCode) /\ DOMAIN NoCode = {}
BY DEF NoCode, IsCode

LEMMA ReplyIs ==
    ASSUME NEW ids, NEW fp, NEW good
    PROVE  LET code == [i \in ids |-> Code(fp, i \in good)]
           IN  IsCode(code) /\ DOMAIN code = ids /\ \A i \in ids : code[i].fp = fp
<1> DEFINE code == [i \in ids |-> Code(fp, i \in good)]
<1>1. DOMAIN code = ids /\ code = [i \in ids |-> code[i]]
  OBVIOUS
<1>2. ASSUME NEW i \in ids
      PROVE  code[i] = Code(code[i].fp, code[i].good) /\ code[i].good \in BOOLEAN /\ code[i].fp = fp
  <2>1. code[i] = [fp |-> fp, good |-> i \in good]
    BY DEF Code
  <2>2. (i \in good) \in BOOLEAN
    OBVIOUS
  <2> QED  BY <2>1, <2>2 DEF Code
<1> QED  BY <1>1, <1>2 DEF IsCode

\* One script over another, and the part of one.
LEMMA OverIs ==
    ASSUME NEW new, IsCode(new), NEW old, IsCode(old)
    PROVE  /\ IsCode(Over(new, old)) /\ DOMAIN Over(new, old) = DOMAIN new \cup DOMAIN old
           /\ \A i \in DOMAIN new : Over(new, old)[i] = new[i]
           /\ \A i \in DOMAIN old \ DOMAIN new : Over(new, old)[i] = old[i]
BY DEF IsCode, Over

LEMMA OfIs ==
    ASSUME NEW code, IsCode(code), NEW ids
    PROVE  /\ IsCode(Of(code, ids)) /\ DOMAIN Of(code, ids) = DOMAIN code \cap ids
           /\ \A i \in DOMAIN code \cap ids : Of(code, ids)[i] = code[i]
BY DEF IsCode, Of

\* Scripts with the same sections are the same.
LEMMA SameCode ==
    ASSUME NEW a, IsCode(a), NEW b, IsCode(b), DOMAIN a = DOMAIN b,
           \A i \in DOMAIN a : a[i] = b[i]
    PROVE  a = b
<1>1. a = [i \in DOMAIN a |-> a[i]] /\ b = [i \in DOMAIN b |-> b[i]]
  BY DEF IsCode
<1>2. [i \in DOMAIN a |-> a[i]] = [i \in DOMAIN a |-> b[i]]
  OBVIOUS
<1> QED  BY <1>1, <1>2

\* What becomes of a row.
LEMMA RowIs ==
    ASSUME NEW s \in Segments, NEW fp, NEW code, IsCode(code), DOMAIN code \subseteq ShotsOf(s),
           \A i \in DOMAIN code : code[i].fp = fp,
           NEW status \in {"pending", "done"}, status = "done" => DOMAIN code = ShotsOf(s)
    PROVE  RowOK(s, Row(status, fp, code)) /\ Row(status, fp, code).fp = fp
           /\ Row(status, fp, code).code = code /\ Row(status, fp, code).status = status
<1> DEFINE row == Row(status, fp, code)
<1>1. /\ row = [status |-> row.status, fp |-> row.fp, code |-> row.code, missing |-> row.missing]
      /\ row.status = status /\ row.fp = fp /\ row.code = code /\ row.missing = {}
  BY DEF Row
<1> QED  BY <1>1 DEF RowOK, Whole

LEMMA PendingIs ==
    ASSUME NEW s \in Segments, NEW fp
    PROVE  RowOK(s, Pending(fp)) /\ Pending(fp).fp = fp
           /\ Pending(fp).status = "pending" /\ Pending(fp).code = NoCode
BY NoCodeIs, RowIs DEF Pending

LEMMA RunningIs ==
    ASSUME NEW s \in Segments, NEW row, RowOK(s, row), NEW new, new = SegmentRunning(row)
    PROVE  /\ RowOK(s, new)
           /\ new.fp = row.fp /\ new.code = row.code /\ new.status = "running"
<1>1. new = [status |-> "running", fp |-> row.fp, code |-> row.code, missing |-> {}]
  BY DEF RowOK, SegmentRunning
<1>2. /\ new.status = "running" /\ new.fp = row.fp /\ new.code = row.code /\ new.missing = {}
      /\ new = [status |-> new.status, fp |-> new.fp, code |-> new.code, missing |-> new.missing]
  BY <1>1
<1> QED  BY <1>2 DEF RowOK

LEMMA FailedIs ==
    ASSUME NEW s \in Segments, NEW row, RowOK(s, row), NEW fp, NEW code, IsCode(code),
           DOMAIN code \subseteq ShotsOf(s), \A i \in DOMAIN code : code[i].fp = fp,
           NEW missing \in SUBSET ShotsOf(s),
           missing # {} => DOMAIN code \cup missing = ShotsOf(s),
           NEW new, new = SegmentFailed(row, s, fp, code, missing)
    PROVE  /\ RowOK(s, new)
           /\ row.fp = fp => new.fp = fp
           /\ new.status = "failed"
           /\ DOMAIN code = {} => new.code = row.code
<1> DEFINE keep == DOMAIN code = {} \/ (row.fp = fp /\ Whole(row, s))
<1>1. new = [status |-> "failed", fp |-> IF keep THEN row.fp ELSE fp,
             code |-> IF keep THEN row.code ELSE code, missing |-> missing]
  BY DEF SegmentFailed
<1>2. /\ new.status = "failed" /\ new.missing = missing
      /\ new.fp = (IF keep THEN row.fp ELSE fp) /\ new.code = (IF keep THEN row.code ELSE code)
      /\ new = [status |-> new.status, fp |-> new.fp, code |-> new.code, missing |-> new.missing]
  BY <1>1
<1>3. CASE keep
  BY <1>2, <1>3 DEF RowOK, Whole
<1>4. CASE ~keep
  BY <1>2, <1>4 DEF RowOK, Whole
<1> QED  BY <1>3, <1>4

LEMMA InterruptedIs ==
    ASSUME RowsOK, NEW s \in Segments
    PROVE  /\ RowOK(s, Interrupted[s]) /\ Interrupted[s].status # "running"
           /\ Interrupted[s].fp = store[s].fp /\ Interrupted[s].code = store[s].code
<1>1. RowOK(s, store[s])
  BY DEF RowsOK
<1>2. CASE store[s].status # "running"
  BY <1>1, <1>2 DEF Interrupted
<1>3. CASE store[s].status = "running"
  <2> DEFINE new == Interrupted[s]
  <2>1. new = [status |-> "failed", fp |-> store[s].fp, code |-> store[s].code,
               missing |-> store[s].missing]
    BY <1>1, <1>3 DEF Interrupted, RowOK
  <2>2. /\ new.status = "failed" /\ new.fp = store[s].fp /\ new.code = store[s].code
        /\ new.missing = {}
        /\ new = [status |-> new.status, fp |-> new.fp, code |-> new.code,
                  missing |-> new.missing]
    BY <1>1, <1>3, <2>1 DEF RowOK
  <2> HIDE DEF new
  <2>3. RowOK(s, new)
    BY <1>1, <2>2 DEF RowOK
  <2> QED  BY <2>2, <2>3 DEF new
<1> QED  BY <1>2, <1>3

\* What is left to ask for, when the first group is answered and when it is split.
LEMMA LeftTail ==
    ASSUME NEW S, NEW todo \in Seq(SUBSET S), todo # <<>>
    PROVE  /\ Head(todo) \subseteq S /\ Tail(todo) \in Seq(SUBSET S)
           /\ Left(todo) = Head(todo) \cup Left(Tail(todo))
<1>1. /\ Head(todo) \in SUBSET S /\ Tail(todo) \in Seq(SUBSET S) /\ Len(todo) \in Nat \ {0}
      /\ Len(Tail(todo)) = Len(todo) - 1
      /\ \A k \in 1..Len(Tail(todo)) : Tail(todo)[k] = todo[k + 1]
      /\ Head(todo) = todo[1]
  BY HeadTailProperties, EmptySeq
<1>2. DOMAIN todo = 1..Len(todo) /\ DOMAIN Tail(todo) = 1..Len(Tail(todo))
  BY <1>1, LenProperties
<1>3. ASSUME NEW x PROVE x \in Left(todo) <=> x \in Head(todo) \/ x \in Left(Tail(todo))
  <2>1. x \in Left(todo) <=> \E k \in 1..Len(todo) : x \in todo[k]
    BY <1>2 DEF Left
  <2>2. x \in Left(Tail(todo)) <=> \E k \in 1..(Len(todo) - 1) : x \in todo[k + 1]
    BY <1>1, <1>2 DEF Left
  <2>3. ASSUME NEW k \in 1..Len(todo), x \in todo[k], k # 1
        PROVE  \E j \in 1..(Len(todo) - 1) : x \in todo[j + 1]
    <3>1. k - 1 \in 1..(Len(todo) - 1) /\ (k - 1) + 1 = k
      BY <1>1, <2>3
    <3> QED  BY <2>3, <3>1
  <2> QED  BY <1>1, <2>1, <2>2, <2>3
<1> QED  BY <1>1, <1>3

LEMMA LeftHalves ==
    ASSUME NEW S, NEW todo \in Seq(SUBSET S), NEW ids \in SUBSET S
    PROVE  /\ Halves(ids) \o todo \in Seq(SUBSET S) /\ Halves(ids) \o todo # <<>>
           /\ Left(Halves(ids) \o todo) = ids \cup Left(todo)
<1> DEFINE a == FirstHalf(ids)
           all == Halves(ids) \o todo
<1>1. a \subseteq ids /\ Halves(ids) = <<a, ids \ a>>
  BY DEF FirstHalf, Halves
<1> HIDE DEF a
<1>2. /\ Halves(ids) \in Seq(SUBSET S) /\ Len(Halves(ids)) = 2
      /\ Halves(ids)[1] = a /\ Halves(ids)[2] = ids \ a
  BY <1>1
<1>3. Len(todo) \in Nat /\ DOMAIN todo = 1..Len(todo)
  BY LenProperties
<1>4. /\ all \in Seq(SUBSET S) /\ Len(all) = 2 + Len(todo)
      /\ \A k \in 1..(2 + Len(todo)) : all[k] = IF k <= 2 THEN Halves(ids)[k] ELSE todo[k - 2]
  <2> DEFINE h == Halves(ids)
  <2> HIDE DEF h
  <2>1. h \in Seq(SUBSET S) /\ Len(h) = 2
    BY <1>2 DEF h
  <2>2. /\ h \o todo \in Seq(SUBSET S) /\ Len(h \o todo) = Len(h) + Len(todo)
        /\ \A k \in 1..Len(h) + Len(todo) :
              (h \o todo)[k] = IF k <= Len(h) THEN h[k] ELSE todo[k - Len(h)]
    BY <2>1, ConcatProperties
  <2> QED  BY <2>1, <2>2 DEF h
<1>5. DOMAIN all = 1..(2 + Len(todo))
  BY <1>4, LenProperties
<1>6. ASSUME NEW x PROVE x \in Left(all) <=> x \in ids \/ x \in Left(todo)
  <2>1. x \in Left(all) <=> \E k \in 1..(2 + Len(todo)) : x \in all[k]
    BY <1>5 DEF Left
  <2>2. x \in Left(todo) <=> \E k \in 1..Len(todo) : x \in todo[k]
    BY <1>3 DEF Left
  <2>3. 1 \in 1..(2 + Len(todo)) /\ 2 \in 1..(2 + Len(todo))
    BY <1>3
  <2>4. x \in ids => x \in all[1] \/ x \in all[2]
    BY <1>1, <1>2, <1>4, <2>3
  <2>5. ASSUME NEW k \in 1..Len(todo), x \in todo[k]
        PROVE  \E j \in 1..(2 + Len(todo)) : x \in all[j]
    <3>1. k + 2 \in 1..(2 + Len(todo)) /\ ~(k + 2 <= 2) /\ (k + 2) - 2 = k
      BY <1>3
    <3> QED  BY <1>4, <2>5, <3>1
  <2>6. ASSUME NEW k \in 1..(2 + Len(todo)), x \in all[k]
        PROVE  x \in ids \/ \E j \in 1..Len(todo) : x \in todo[j]
    <3>1. CASE k <= 2
      <4>1. k = 1 \/ k = 2
        BY <1>3, <3>1
      <4> QED  BY <1>1, <1>2, <1>4, <2>6, <3>1, <4>1
    <3>2. CASE ~(k <= 2)
      <4>1. k - 2 \in 1..Len(todo)
        BY <1>3, <3>2
      <4> QED  BY <1>4, <2>6, <3>2, <4>1
    <3> QED  BY <3>1, <3>2
  <2> QED  BY <2>1, <2>2, <2>3, <2>4, <2>5, <2>6
<1>7. all # <<>>
  BY <1>3, <1>4
<1> QED  BY <1>4, <1>6, <1>7

-----------------------------------------------------------------------------
(* The steps of the whole run.                                             *)

LEMMA InitInv == Init => Inv
<1> SUFFICES ASSUME Init PROVE Inv
  OBVIOUS
<1>1. RowsOK
  BY PendingIs DEF Init, RowsOK
<1>2. RunOK
  BY PendingIs DEF Init, RunOK, NoRun, Segments
<1>3. ResultOK
  BY DEF Init, ResultOK, NoResult
<1>4. CountsOK
  BY BoundsAssumption DEF Init, CountsOK
<1> QED  BY <1>1, <1>2, <1>3, <1>4 DEF Inv

\* A run ends, and the rows stand.
LEMMA EndsKeeps ==
    ASSUME Inv, NEW status \in {"incomplete", "done", "stopped", "cut"}, NEW ok, NEW code,
           Ends(status, ok, code), UNCHANGED <<input, counts>>,
           RowsOK', \A s \in Segments : store'[s].status # "running",
           status = "done" => /\ \A s \in Segments : store'[s].code = Of(code, ShotsOf(s))
                              /\ ok => Bad(code) = {}
    PROVE  Inv'
<1>1. run' = NoRun /\ DOMAIN task' = {} /\ task' = [s \in DOMAIN task' |-> task'[s]]
  BY DEF Ends
<1>2. result'.status = status /\ result'.ok = ok /\ result'.code = code
  BY DEF Ends
<1>3. RunOK'
  BY <1>1 DEF RunOK, NoRun
<1>4. ResultOK'
  BY <1>2 DEF ResultOK
<1>5. CountsOK'
  BY DEF Inv, CountsOK
<1> QED  BY <1>3, <1>4, <1>5 DEF Inv

\* A run that is stopped or cut leaves its rows as they are, none of them running.
LEMMA StopsKeeps ==
    ASSUME Inv, NEW status \in {"stopped", "cut"}, Ends(status, FALSE, NoCode),
           store' = Interrupted, UNCHANGED <<input, counts>>
    PROVE  Inv'
<1>1. RowsOK
  BY DEF Inv
<1>2. store' = [s \in Segments |-> store'[s]]
  BY DEF Interrupted
<1>3. \A s \in Segments : RowOK(s, store'[s]) /\ store'[s].status # "running"
  BY <1>1, InterruptedIs
<1>4. RowsOK'
  BY <1>2, <1>3 DEF RowsOK
<1> QED  BY <1>3, <1>4, EndsKeeps

LEMMA CutKeeps ==
    ASSUME Inv, Cut
    PROVE  Inv'
BY StopsKeeps DEF Cut

\* A plan starts every row over that was written from something else.
LEMMA StartKeeps ==
    ASSUME Inv, StartRun
    PROVE  Inv'
<1>1. PICK wanted, fp :
          /\ run' = [phase |-> "frame", plan |-> fp, wanted |-> wanted,
                     code |-> Stored(FrameKey, fp[FrameKey])]
          /\ store' = Planned(fp)
          /\ fp = [s \in Segments |-> Fingerprint(s)]
  BY DEF StartRun
<1>2. /\ UNCHANGED <<input, task>> /\ result' = NoResult /\ DOMAIN task = {}
      /\ counts' = [counts EXCEPT !.runs = @ + 1]
      /\ \A s \in Segments : RowOK(s, store[s]) /\ store[s].status # "running"
  BY DEF StartRun, Inv, RowsOK, RunOK
<1>3. ASSUME NEW s \in Segments
      PROVE  RowOK(s, store'[s]) /\ store'[s].fp = fp[s] /\ store'[s].status # "running"
  <2>1. store'[s] = IF store[s].fp = fp[s] THEN store[s] ELSE Pending(fp[s])
    BY <1>1 DEF Planned
  <2> QED  BY <1>2, <2>1, PendingIs
<1>4. RowsOK'
  BY <1>1, <1>3 DEF RowsOK, Planned
<1>5. FrameKey \in Segments
  BY DEF Segments
<1>6. run'.code = store'[FrameKey].code
  BY <1>1, <1>5, PendingIs DEF Planned, Stored
<1>7. run' = [phase |-> run'.phase, plan |-> run'.plan, wanted |-> run'.wanted, code |-> run'.code]
      /\ run'.phase = "frame" /\ run'.plan = fp
  BY <1>1
<1>8. RunOK'
  BY <1>2, <1>3, <1>6, <1>7 DEF RunOK, Inv
<1>9. ResultOK'
  BY <1>2 DEF ResultOK, NoResult
<1>10. CountsOK'
  BY <1>2 DEF Inv, CountsOK
<1> QED  BY <1>4, <1>8, <1>9, <1>10 DEF Inv

\* An edit changes nothing that is stored.
LEMMA EditKeeps ==
    ASSUME Inv, EditInput
    PROVE  Inv'
<1>1. /\ UNCHANGED <<store, run, task, result>>
      /\ counts' = [counts EXCEPT !.edits = @ + 1] /\ counts.edits < MaxEdits
  BY DEF EditInput
<1>2. RowsOK' /\ RunOK' /\ ResultOK'
  <2>1. RowsOK' /\ ResultOK'
    BY <1>1 DEF Inv, RowsOK, ResultOK
  <2>2. \A s : MergedOK(s)' = MergedOK(s) /\ \A t : TaskOK(s, t)' = TaskOK(s, t)
    BY <1>1 DEF MergedOK, TaskOK, Holds
  <2>3. \A t : FinalOK(t)' = FinalOK(t)
    BY <1>1 DEF FinalOK
  <2> QED  BY <1>1, <2>1, <2>2, <2>3 DEF Inv, RunOK
<1>3. PICK s \in Segments : input' = [input EXCEPT ![s] = @ + 1]
  BY DEF EditInput
<1>4. /\ counts = [runs |-> counts.runs, edits |-> counts.edits]
      /\ counts.edits \in Nat /\ input \in [Segments -> 0..counts.edits]
  BY BoundsAssumption DEF Inv, CountsOK
<1>5. counts' = [runs |-> counts.runs, edits |-> counts.edits + 1]
  BY <1>1, <1>4
<1>6. counts'.edits = counts.edits + 1 /\ counts' = [runs |-> counts'.runs, edits |-> counts'.edits]
  BY <1>5
<1>7. input' \in [Segments -> 0..counts'.edits]
  BY <1>3, <1>4, <1>6
<1>8. CountsOK'
  BY <1>1, <1>4, <1>6, <1>7, BoundsAssumption DEF CountsOK
<1> QED  BY <1>2, <1>8 DEF Inv

\* A pasted reply holds a whole segment, written from the inputs of now.
LEMMA PasteKeeps ==
    ASSUME Inv, Paste
    PROVE  Inv'
<1>1. /\ UNCHANGED <<input, run, task>> /\ result' = NoResult /\ run.phase = "none"
      /\ counts' = [counts EXCEPT !.edits = @ + 1] /\ counts.edits < MaxEdits
  BY DEF Paste
<1>2. PICK s \in Segments : \E row \in ParseSegment(s) : store' = [store EXCEPT ![s] = row]
  BY DEF Paste, Puts
<1>3. PICK good \in SUBSET ShotsOf(s) :
          store' = [store EXCEPT ![s] =
              SegmentDone(Fingerprint(s), [i \in ShotsOf(s) |-> Code(Fingerprint(s), i \in good)])]
  BY <1>2 DEF ParseSegment
<1>4. PICK code : code = [i \in ShotsOf(s) |-> Code(Fingerprint(s), i \in good)]
  OBVIOUS
<1>5. IsCode(code) /\ DOMAIN code = ShotsOf(s) /\ \A i \in DOMAIN code : code[i].fp = Fingerprint(s)
  BY <1>4, ReplyIs
<1>6. PICK row : row = Row("done", Fingerprint(s), code)
  OBVIOUS
<1>7. RowOK(s, row) /\ row.status = "done"
  BY <1>5, <1>6, RowIs
<1>8. store' = [store EXCEPT ![s] = row]
  BY <1>3, <1>4, <1>6 DEF SegmentDone
<1>9. RowsOK'
  BY <1>7, <1>8 DEF Inv, RowsOK
<1>10. RunOK'
  BY <1>1, <1>7, <1>8 DEF Inv, RunOK, RowsOK
<1>11. ResultOK'
  BY <1>1 DEF ResultOK, NoResult
<1>12. CountsOK'
  <2>1. /\ counts = [runs |-> counts.runs, edits |-> counts.edits]
        /\ counts.edits \in Nat /\ input \in [Segments -> 0..counts.edits]
    BY BoundsAssumption DEF Inv, CountsOK
  <2>2. counts' = [runs |-> counts.runs, edits |-> counts.edits + 1]
    BY <1>1, <2>1
  <2>3. counts'.edits = counts.edits + 1
        /\ counts' = [runs |-> counts'.runs, edits |-> counts'.edits]
    BY <2>2
  <2>4. input' \in [Segments -> 0..counts'.edits]
    BY <1>1, <2>1, <2>3
  <2> QED  BY <1>1, <2>1, <2>3, <2>4, BoundsAssumption DEF CountsOK
<1> QED  BY <1>9, <1>10, <1>11, <1>12 DEF Inv

-----------------------------------------------------------------------------
(* The frame.                                                              *)

\* The script of the chunks that are stored whole.
LEMMA StoredShotsAre ==
    ASSUME RowsOK
    PROVE  /\ IsCode(StoredShots) /\ FrameKey \notin DOMAIN StoredShots
           /\ \A s \in Chunks :
                 IF Whole(store[s], s)
                 THEN ShotsOf(s) \subseteq DOMAIN StoredShots
                      /\ \A i \in ShotsOf(s) : StoredShots[i] = store[s].code[i]
                 ELSE DOMAIN StoredShots \cap ShotsOf(s) = {}
<1> DEFINE whole == {c \in Chunks : Whole(store[c], c)}
           ids == UNION {ShotsOf(c) : c \in whole}
<1>1. StoredShots = [i \in ids |-> store[Owner(i)].code[i]]
  BY DEF StoredShots
<1>2. Chunks \subseteq Segments /\ FrameKey \notin Chunks
  BY DEF Segments, Chunks, FrameKey
<1>3. ASSUME NEW s \in Chunks, NEW i \in ShotsOf(s) PROVE Owner(i) = s /\ i # FrameKey
  BY <1>2, <1>3, OwnerIs DEF Owner
<1>4. ASSUME NEW i \in ids PROVE \E c \in whole : i \in ShotsOf(c)
  OBVIOUS
<1> HIDE DEF ids
<1>5. DOMAIN StoredShots = ids
  BY <1>1
<1>6. ASSUME NEW c \in whole, NEW i \in ShotsOf(c)
      PROVE  i \in ids /\ StoredShots[i] = store[c].code[i] /\ i \in DOMAIN store[c].code
  <2>1. i \in ids
    BY DEF ids
  <2>2. Owner(i) = c
    BY <1>3
  <2> QED  BY <1>1, <2>1, <2>2 DEF Whole
<1>7. ASSUME NEW c \in whole PROVE IsCode(store[c].code)
  BY <1>2 DEF RowsOK, RowOK
<1>8. IsCode(StoredShots)
  <2>1. \A i \in DOMAIN StoredShots :
            StoredShots[i] = Code(StoredShots[i].fp, StoredShots[i].good) /\ StoredShots[i].good \in BOOLEAN
    <3> TAKE i \in DOMAIN StoredShots
    <3>1. PICK c \in whole : i \in ShotsOf(c)
      BY <1>4, <1>5
    <3>2. StoredShots[i] = store[c].code[i] /\ i \in DOMAIN store[c].code
      BY <1>6, <3>1
    <3> QED  BY <1>7, <3>1, <3>2 DEF IsCode
  <2>2. StoredShots = [i \in DOMAIN StoredShots |-> StoredShots[i]]
    BY <1>1
  <2> QED  BY <2>1, <2>2 DEF IsCode
<1>9. FrameKey \notin DOMAIN StoredShots
  BY <1>3, <1>4, <1>5
<1>10. ASSUME NEW s \in Chunks, ~Whole(store[s], s) PROVE DOMAIN StoredShots \cap ShotsOf(s) = {}
  BY <1>3, <1>4, <1>5, <1>10
<1> QED  BY <1>5, <1>6, <1>8, <1>9, <1>10

\* A chunk that is to be written asks for the shots it has not got.
LEMMA ChunkTaskIs ==
    ASSUME RowsOK, NEW s \in Segments, NEW t, store[s].fp = run.plan[s],
           t = Task("write", <<ShotsOf(s) \ DOMAIN store[s].code>>, store[s].code, 0)
    PROVE  TaskOK(s, t)
<1> DEFINE rest == ShotsOf(s) \ DOMAIN store[s].code
<1>1. /\ TaskShape(t)
      /\ t.at = "write" /\ t.todo = <<rest>> /\ t.code = store[s].code /\ t.failed = {}
  BY DEF Task, TaskShape
<1>2. /\ IsCode(store[s].code) /\ DOMAIN store[s].code \subseteq ShotsOf(s)
      /\ \A i \in DOMAIN store[s].code : store[s].code[i].fp = store[s].fp
  BY DEF RowsOK, RowOK
<1>3. <<rest>> \in Seq(SUBSET ShotsOf(s)) /\ <<rest>> # <<>>
  OBVIOUS
<1>4. Left(<<rest>>) = rest
  <2>1. DOMAIN <<rest>> = {1} /\ <<rest>>[1] = rest
    OBVIOUS
  <2> QED  BY <2>1 DEF Left
<1> HIDE DEF rest
<1>5. DOMAIN t.code \cup t.failed \cup Left(t.todo) = ShotsOf(s)
  BY <1>1, <1>2, <1>4 DEF rest
<1> QED  BY <1>1, <1>2, <1>3, <1>5 DEF TaskOK, Holds, Accounts

\* The run has its frame and goes on to the chunks.
LEMMA ToChunksKeeps ==
    ASSUME Inv, run.phase = "frame", NEW frame, IsCode(frame), ToChunks(frame),
           RowsOK', store'[FrameKey].code = frame,
           \A s \in Chunks : store'[s] = store[s],
           \A s \in Segments : store'[s].fp = run.plan[s] /\ store'[s].status # "running",
           UNCHANGED <<input, result, counts>>
    PROVE  Inv'
<1> DEFINE code == Over(frame, StoredShots)
<1>1. /\ run = [phase |-> run.phase, plan |-> run.plan, wanted |-> run.wanted, code |-> run.code]
      /\ RowsOK /\ \A s \in Segments : store[s].fp = run.plan[s]
  BY DEF Inv, RunOK
<1>2. run' = [phase |-> "chunks", plan |-> run.plan, wanted |-> run.wanted, code |-> code]
  BY <1>1 DEF ToChunks
<1>3. /\ run' = [phase |-> run'.phase, plan |-> run'.plan, wanted |-> run'.wanted,
                 code |-> run'.code]
      /\ run'.phase = "chunks" /\ run'.plan = run.plan /\ run'.code = code
  BY <1>2
<1>4. /\ Chunks \subseteq Segments /\ FrameKey \notin Chunks /\ FrameKey \in Segments
      /\ Segments = Chunks \cup {FrameKey} /\ ShotsOf(FrameKey) = {FrameKey}
  BY DEF Segments, Chunks, FrameKey, ShotsOf
<1>5. DOMAIN frame \subseteq {FrameKey}
  BY <1>4 DEF RowsOK, RowOK
<1>6. /\ IsCode(code) /\ DOMAIN code = DOMAIN frame \cup DOMAIN StoredShots
      /\ \A i \in DOMAIN frame : code[i] = frame[i]
      /\ \A i \in DOMAIN StoredShots \ DOMAIN frame : code[i] = StoredShots[i]
  BY <1>1, StoredShotsAre, OverIs
<1>7. \A s \in Chunks : FrameKey \notin ShotsOf(s)
  BY DEF Chunks, ShotsOf, FrameKey
<1> HIDE DEF code
<1>8. ASSUME NEW s \in Segments PROVE MergedOK(s)'
  <2>1. CASE s = FrameKey
    <3>1. DOMAIN code \cap ShotsOf(s) = DOMAIN frame
      BY <1>1, <1>4, <1>5, <1>6, <2>1, StoredShotsAre
    <3>2. Of(code, ShotsOf(s)) = frame
      BY <1>6, <3>1, OfIs, SameCode
    <3> QED  BY <1>3, <2>1, <3>2 DEF MergedOK
  <2>2. CASE s \in Chunks /\ Whole(store[s], s)
    <3>1. /\ ShotsOf(s) \subseteq DOMAIN StoredShots /\ DOMAIN frame \cap ShotsOf(s) = {}
          /\ \A i \in ShotsOf(s) : StoredShots[i] = store[s].code[i]
      BY <1>1, <1>5, <1>7, <2>2, StoredShotsAre
    <3>2. IsCode(store[s].code) /\ DOMAIN store[s].code = ShotsOf(s)
      BY <1>1, <2>2 DEF RowsOK, RowOK, Whole
    <3>3. /\ IsCode(Of(code, ShotsOf(s))) /\ DOMAIN Of(code, ShotsOf(s)) = ShotsOf(s)
          /\ \A i \in ShotsOf(s) : Of(code, ShotsOf(s))[i] = store[s].code[i]
      <4>1. /\ DOMAIN code \cap ShotsOf(s) = ShotsOf(s)
            /\ \A i \in ShotsOf(s) : code[i] = store[s].code[i]
        BY <1>6, <3>1
      <4>2. /\ IsCode(Of(code, ShotsOf(s)))
            /\ DOMAIN Of(code, ShotsOf(s)) = DOMAIN code \cap ShotsOf(s)
            /\ \A i \in DOMAIN code \cap ShotsOf(s) : Of(code, ShotsOf(s))[i] = code[i]
        <5>1. IsCode(Of(code, ShotsOf(s)))
              /\ DOMAIN Of(code, ShotsOf(s)) = DOMAIN code \cap ShotsOf(s)
          BY <1>6, OfIs
        <5>2. \A i \in DOMAIN code \cap ShotsOf(s) : Of(code, ShotsOf(s))[i] = code[i]
          BY DEF Of
        <5> QED  BY <5>1, <5>2
      <4> QED  BY <4>1, <4>2
    <3>4. store[s].code = Of(code, ShotsOf(s))
      BY <3>2, <3>3, SameCode
    <3> QED  BY <1>3, <2>2, <3>4 DEF MergedOK
  <2>3. CASE s \in Chunks /\ ~Whole(store[s], s)
    BY <1>1, <1>3, <1>5, <1>6, <1>7, <2>3, StoredShotsAre DEF MergedOK
  <2> QED  BY <1>4, <2>1, <2>2, <2>3
<1>9. task' = ChunkTasks /\ DOMAIN task' \subseteq {c \in Chunks : ~Whole(store[c], c)}
      /\ task' = [s \in DOMAIN task' |-> task'[s]]
  BY DEF ToChunks, ChunkTasks
<1>10. ASSUME NEW s \in DOMAIN task'
       PROVE  s \in Chunks /\ TaskOK(s, task[s])' /\ DOMAIN run'.code \cap ShotsOf(s) = {}
  <2>1. s \in Chunks /\ ~Whole(store[s], s)
        /\ task'[s] = Task("write", <<ShotsOf(s) \ DOMAIN store[s].code>>, store[s].code, 0)
    BY <1>9 DEF ChunkTasks
  <2>2. TaskOK(s, task'[s])
    BY <1>1, <1>4, <2>1, ChunkTaskIs
  <2>3. TaskOK(s, task[s])'
    BY <1>3, <2>2 DEF TaskOK, Holds
  <2>4. DOMAIN run'.code \cap ShotsOf(s) = {}
    BY <1>1, <1>3, <1>5, <1>6, <1>7, <2>1, StoredShotsAre
  <2> QED  BY <2>1, <2>3, <2>4
<1>11. RunOK'
  <2>1. \A s \in Segments : store'[s].fp = run'.plan[s] /\ store'[s].status # "running"
    BY <1>3
  <2>2. DOMAIN task' \subseteq Chunks
    BY <1>9
  <2> QED  BY <1>3, <1>6, <1>8, <1>9, <1>10, <2>1, <2>2 DEF RunOK
<1>12. ResultOK' /\ CountsOK'
  BY <1>3 DEF Inv, ResultOK, CountsOK
<1> QED  BY <1>11, <1>12 DEF Inv

LEMMA FrameKeeps ==
    ASSUME Inv, Frame
    PROVE  Inv'
<1>1. /\ run.phase = "frame" /\ UNCHANGED <<input, counts>> /\ RowsOK
      /\ run.code = store[FrameKey].code
      /\ \A s \in Segments : RowOK(s, store[s]) /\ store[s].status # "running"
                             /\ store[s].fp = run.plan[s]
  BY DEF Frame, Inv, RunOK, RowsOK
<1>2. FrameKey \in Segments /\ FrameKey \notin Chunks /\ Chunks \subseteq Segments
      /\ ShotsOf(FrameKey) = {FrameKey}
  BY DEF Segments, Chunks, FrameKey, ShotsOf
<1>3. CASE ToChunks(run.code) /\ UNCHANGED <<store, result>>
  <2>1. RowsOK' /\ IsCode(run.code)
    BY <1>1, <1>2, <1>3 DEF RowsOK, RowOK
  <2> QED  BY <1>1, <1>2, <1>3, <2>1, ToChunksKeeps
<1>4. ASSUME NEW good \in BOOLEAN, NEW code,
             code = [i \in {FrameKey} |-> Code(run.plan[FrameKey], good)],
             Puts(FrameKey, SegmentDone(run.plan[FrameKey], code)), ToChunks(code),
             UNCHANGED result
      PROVE  Inv'
  <2>1. IsCode(code) /\ DOMAIN code = ShotsOf(FrameKey)
        /\ \A i \in DOMAIN code : code[i].fp = run.plan[FrameKey]
    BY <1>2, <1>4 DEF IsCode, Code
  <2>2. PICK row : row = Row("done", run.plan[FrameKey], code)
    OBVIOUS
  <2>3. RowOK(FrameKey, row) /\ row.fp = run.plan[FrameKey] /\ row.code = code /\ row.status = "done"
    <3>1. \A i \in DOMAIN code : code[i].fp = run.plan[FrameKey]
      BY <2>1
    <3>2. RowOK(FrameKey, row)
      BY <1>2, <2>1, <2>2, <3>1, RowIs
    <3> QED  BY <2>2, <3>2 DEF Row
  <2>4. store' = [store EXCEPT ![FrameKey] = row]
    BY <1>4, <2>2 DEF Puts, SegmentDone
  <2>5. RowsOK' /\ store'[FrameKey] = row
        /\ \A s \in Segments \ {FrameKey} : store'[s] = store[s]
    BY <1>1, <1>2, <2>3, <2>4 DEF RowsOK
  <2> QED  BY <1>1, <1>2, <1>4, <2>1, <2>3, <2>5, ToChunksKeeps
<1>5. CASE /\ Puts(FrameKey, SegmentFailed(store[FrameKey], FrameKey, run.plan[FrameKey],
                                           NoCode, {}))
           /\ Ends("incomplete", FALSE, NoCode)
  <2>1. PICK row : row = SegmentFailed(store[FrameKey], FrameKey, run.plan[FrameKey], NoCode, {})
    OBVIOUS
  <2>2. RowOK(FrameKey, row) /\ row.status = "failed"
    BY <1>1, <1>2, <2>1, NoCodeIs, FailedIs
  <2>3. store' = [store EXCEPT ![FrameKey] = row]
    BY <1>5, <2>1 DEF Puts
  <2>4. RowsOK' /\ \A s \in Segments : store'[s].status # "running"
    BY <1>1, <2>2, <2>3 DEF RowsOK
  <2> QED  BY <1>1, <1>5, <2>4, EndsKeeps
<1>6. CASE Stops
  BY <1>1, <1>6, StopsKeeps DEF Stops
<1>7. CASE Ends("incomplete", FALSE, NoCode) /\ UNCHANGED store
  BY <1>1, <1>7, EndsKeeps DEF RowsOK
<1> QED  BY <1>3, <1>4, <1>5, <1>6, <1>7 DEF Frame

-----------------------------------------------------------------------------
(* The chunks.                                                             *)

\* The task of a chunk goes on, and its row with it: either nothing is merged, or
\* the task is over and its script is both stored and merged.
LEMMA ChunkKeeps ==
    ASSUME Inv, run.phase = "chunks", NEW s \in DOMAIN task, task[s].at # "end",
           NEW t, TaskOK(s, t), task' = [task EXCEPT ![s] = t],
           NEW row, RowOK(s, row), row.fp = run.plan[s],
           row.status = "running" => t.at # "end", store' = [store EXCEPT ![s] = row],
           UNCHANGED <<input, result, counts>>,
           \/ UNCHANGED run
           \/ /\ run' = [run EXCEPT !.code = Over(t.code, @)]
              /\ t.at = "end" /\ row.code = t.code /\ DOMAIN t.code = ShotsOf(s)
    PROVE  Inv'
<1>1. /\ run = [phase |-> run.phase, plan |-> run.plan, wanted |-> run.wanted, code |-> run.code]
      /\ RowsOK /\ \A u \in Segments : store[u].fp = run.plan[u]
      /\ DOMAIN task \subseteq Chunks /\ IsCode(run.code) /\ task = [u \in DOMAIN task |-> task[u]]
      /\ \A u \in DOMAIN task : /\ TaskOK(u, task[u])
                                /\ task[u].at # "end" => DOMAIN run.code \cap ShotsOf(u) = {}
      /\ \A u \in Segments :
            /\ MergedOK(u)
            /\ store[u].status = "running" => u \in DOMAIN task /\ task[u].at # "end"
  BY DEF Inv, RunOK
<1>2. s \in Segments /\ Chunks \subseteq Segments
  BY <1>1 DEF Segments
<1>3. /\ DOMAIN task' = DOMAIN task /\ task'[s] = t
      /\ \A u \in DOMAIN task \ {s} : task'[u] = task[u]
      /\ task' = [u \in DOMAIN task' |-> task'[u]]
  BY <1>1
<1>4. RowsOK' /\ store'[s] = row /\ \A u \in Segments \ {s} : store'[u] = store[u]
  BY <1>1, <1>2 DEF RowsOK
<1>5. DOMAIN run.code \cap ShotsOf(s) = {}
  BY <1>1
<1>6. /\ run' = [phase |-> run'.phase, plan |-> run'.plan, wanted |-> run'.wanted,
                 code |-> run'.code]
      /\ run'.phase = "chunks" /\ run'.plan = run.plan
      /\ \/ run'.code = run.code
         \/ /\ run'.code = Over(t.code, run.code)
            /\ t.at = "end" /\ row.code = t.code /\ DOMAIN t.code = ShotsOf(s)
  <2>1. CASE UNCHANGED run
    BY <1>1, <2>1
  <2>2. CASE run' = [run EXCEPT !.code = Over(t.code, @)]
             /\ t.at = "end" /\ row.code = t.code /\ DOMAIN t.code = ShotsOf(s)
    <3>1. run' = [phase |-> run.phase, plan |-> run.plan, wanted |-> run.wanted,
                  code |-> Over(t.code, run.code)]
      BY <1>1, <2>2
    <3> QED  BY <2>2, <3>1
  <2> QED  BY <2>1, <2>2
<1>7. ASSUME NEW u \in Segments, u # s PROVE ShotsOf(u) \cap ShotsOf(s) = {}
  BY <1>2, <1>7, OwnerIs
<1>8. IsCode(t.code) /\ DOMAIN t.code \subseteq ShotsOf(s)
  BY DEF TaskOK, Holds
<1>9. ASSUME run'.code = Over(t.code, run.code)
      PROVE  /\ IsCode(run'.code) /\ DOMAIN run'.code = DOMAIN t.code \cup DOMAIN run.code
             /\ \A i \in DOMAIN t.code : run'.code[i] = t.code[i]
             /\ \A i \in DOMAIN run.code \ DOMAIN t.code : run'.code[i] = run.code[i]
  <2>1. IsCode(Over(t.code, run.code))
    BY <1>1, <1>8, OverIs
  <2>2. DOMAIN run'.code = DOMAIN t.code \cup DOMAIN run.code
    BY <1>9 DEF Over
  <2>3. /\ \A i \in DOMAIN t.code : run'.code[i] = t.code[i]
        /\ \A i \in DOMAIN run.code \ DOMAIN t.code : run'.code[i] = run.code[i]
    BY <1>9 DEF Over
  <2> QED  BY <1>9, <2>2, <2>1, <2>3
<1>10. IsCode(run'.code)
  BY <1>1, <1>6, <1>9
<1>11. ASSUME NEW u \in Segments, u # s
       PROVE  /\ DOMAIN run'.code \cap ShotsOf(u) = DOMAIN run.code \cap ShotsOf(u)
              /\ Of(run'.code, ShotsOf(u)) = Of(run.code, ShotsOf(u))
  <2>1. /\ DOMAIN run'.code \cap ShotsOf(u) = DOMAIN run.code \cap ShotsOf(u)
        /\ \A i \in DOMAIN run.code \cap ShotsOf(u) : run'.code[i] = run.code[i]
    BY <1>6, <1>7, <1>8, <1>9, <1>11
  <2> QED  BY <2>1 DEF Of
<1>12. ASSUME NEW u \in Segments PROVE MergedOK(u)'
  <2>1. CASE u # s
    BY <1>1, <1>4, <1>11, <2>1 DEF MergedOK
  <2>2. CASE u = s /\ run'.code = run.code
    BY <1>5, <2>2 DEF MergedOK
  <2>3. CASE /\ u = s /\ run'.code = Over(t.code, run.code)
             /\ row.code = t.code /\ DOMAIN t.code = ShotsOf(s)
    <3>1. DOMAIN run'.code \cap ShotsOf(s) = DOMAIN t.code
      BY <1>5, <1>9, <2>3
    <3>2. Of(run'.code, ShotsOf(s)) = [i \in DOMAIN t.code |-> t.code[i]]
      BY <1>9, <2>3, <3>1 DEF Of
    <3> QED  BY <1>4, <1>8, <2>3, <3>2 DEF MergedOK, IsCode
  <2> QED  BY <1>6, <2>1, <2>2, <2>3
<1>13. ASSUME NEW u \in DOMAIN task'
       PROVE  /\ TaskOK(u, task[u])'
              /\ task'[u].at # "end" => DOMAIN run'.code \cap ShotsOf(u) = {}
  <2>1. TaskOK(u, task'[u])
    BY <1>1, <1>3
  <2>2. TaskOK(u, task[u])'
    BY <1>6, <2>1 DEF TaskOK, Holds
  <2>3. CASE u = s
    BY <1>3, <1>5, <1>6, <2>2, <2>3
  <2>4. CASE u # s
    BY <1>1, <1>2, <1>3, <1>11, <2>2, <2>4
  <2> QED  BY <2>3, <2>4
<1>14. ASSUME NEW u \in Segments, store'[u].status = "running"
       PROVE  u \in DOMAIN task' /\ task'[u].at # "end"
  BY <1>1, <1>3, <1>4, <1>14
<1>15. \A u \in Segments : store'[u].fp = run'.plan[u]
  BY <1>1, <1>4, <1>6
<1>16. RunOK'
  BY <1>1, <1>3, <1>6, <1>10, <1>12, <1>13, <1>14, <1>15 DEF RunOK
<1>17. ResultOK' /\ CountsOK'
  BY <1>6 DEF Inv, ResultOK, CountsOK
<1> QED  BY <1>4, <1>16, <1>17 DEF Inv

\* Only the chunks have tasks that are written.
LEMMA ChunkTasksAre ==
    ASSUME Inv, NEW s \in DOMAIN task, s # FrameKey \/ task[s].at \notin {"check", "repair"}
    PROVE  /\ run.phase = "chunks" /\ TaskOK(s, task[s]) /\ s \in Segments
           /\ RowOK(s, store[s]) /\ store[s].fp = run.plan[s]
<1>1. RunOK /\ \A u \in Segments : RowOK(u, store[u])
  BY DEF Inv, RowsOK
<1>2. run.phase # "final"
  <2> SUFFICES ASSUME run.phase = "final" PROVE FALSE
    OBVIOUS
  <2>1. DOMAIN task = {FrameKey} /\ FinalOK(task[FrameKey])
    BY <1>1 DEF RunOK
  <2> QED  BY <2>1 DEF FinalOK
<1>3. run.phase = "chunks" /\ DOMAIN task \subseteq Chunks
  BY <1>1, <1>2 DEF RunOK
<1> QED  BY <1>1, <1>3 DEF RunOK, Segments

\* A task that moves on, its script and row as they were.
LEMMA MovesKeeps ==
    ASSUME Inv, NEW s \in DOMAIN task, run.phase = "chunks", task[s].at # "end",
           NEW t, TaskOK(s, t), t.at # "end", Becomes(s, t),
           UNCHANGED <<input, store, run, result, counts>>
    PROVE  Inv'
<1>1. s \in Segments /\ RowOK(s, store[s]) /\ store[s].fp = run.plan[s]
      /\ store = [u \in Segments |-> store[u]]
  BY DEF Inv, RunOK, RowsOK, Segments
<1>2. store' = [store EXCEPT ![s] = store[s]]
  BY <1>1
<1> QED  BY <1>1, <1>2, ChunkKeeps DEF Becomes

LEMMA AskShotsKeeps ==
    ASSUME Inv, NEW s \in Segments, AskShots(s)
    PROVE  Inv'
<1>1. s \in DOMAIN task /\ task[s].at = "write" /\ UNCHANGED <<input, run, result, counts>>
  BY DEF AskShots
<1>2. /\ run.phase = "chunks" /\ TaskOK(s, task[s])
      /\ RowOK(s, store[s]) /\ store[s].fp = run.plan[s]
  BY <1>1, ChunkTasksAre
<1>3. PICK t : t = [task[s] EXCEPT !.at = "asking"]
  OBVIOUS
<1>4. TaskOK(s, t) /\ t.at = "asking"
  <2>1. t = [at |-> "asking", todo |-> task[s].todo, code |-> task[s].code,
             failed |-> task[s].failed, rounds |-> task[s].rounds,
             applied |-> task[s].applied, targets |-> task[s].targets,
             asks |-> task[s].asks, fixed |-> task[s].fixed]
    BY <1>2, <1>3 DEF TaskOK, TaskShape
  <2>2. /\ TaskShape(t) /\ t.at = "asking" /\ t.todo = task[s].todo /\ t.code = task[s].code
        /\ t.failed = task[s].failed
    BY <2>1 DEF TaskShape
  <2> QED  BY <1>1, <1>2, <2>2 DEF TaskOK, Holds, Accounts
<1>5. Becomes(s, t)
  BY <1>3 DEF AskShots
<1>6. CASE UNCHANGED store
  BY <1>1, <1>2, <1>4, <1>5, <1>6, MovesKeeps
<1>7. CASE Puts(s, SegmentRunning(store[s]))
  <2>1. PICK row : row = SegmentRunning(store[s])
    OBVIOUS
  <2>2. RowOK(s, row) /\ row.fp = run.plan[s]
    BY <1>2, <2>1, RunningIs
  <2>3. store' = [store EXCEPT ![s] = row]
    BY <1>7, <2>1 DEF Puts
  <2> QED  BY <1>1, <1>2, <1>4, <1>5, <2>2, <2>3, ChunkKeeps DEF Becomes
<1> QED  BY <1>6, <1>7 DEF AskShots

\* The task of a chunk whose shots are all written ends, and the chunk is done.
LEMMA ChunkDoneKeeps ==
    ASSUME Inv, NEW s \in Segments, s \in DOMAIN task, run.phase = "chunks",
           task[s].at # "end", NEW t, TaskShape(t), Holds(s, t), DOMAIN t.code = ShotsOf(s),
           ChunkDone(s, t), UNCHANGED <<input, result, counts>>
    PROVE  Inv'
<1>1. PICK row : row = Row("done", run.plan[s], t.code)
  OBVIOUS
<1>2. RowOK(s, row) /\ row.fp = run.plan[s] /\ row.code = t.code /\ row.status = "done"
  <2>1. RowOK(s, row)
    BY <1>1, RowIs DEF Holds
  <2> QED  BY <1>1, <2>1 DEF Row
<1>3. PICK e : e = [t EXCEPT !.at = "end"]
  OBVIOUS
<1>4. TaskOK(s, e) /\ e.at = "end" /\ e.code = t.code
  <2>1. e = [at |-> "end", todo |-> t.todo, code |-> t.code, failed |-> t.failed,
             rounds |-> t.rounds, applied |-> t.applied, targets |-> t.targets,
             asks |-> t.asks, fixed |-> t.fixed]
    BY <1>3 DEF TaskShape
  <2>2. /\ TaskShape(e) /\ e.at = "end" /\ e.todo = t.todo /\ e.code = t.code
        /\ e.failed = t.failed
    BY <2>1 DEF TaskShape
  <2> QED  BY <2>2 DEF TaskOK, Holds
<1>5. /\ task' = [task EXCEPT ![s] = e] /\ store' = [store EXCEPT ![s] = row]
      /\ run' = [run EXCEPT !.code = Over(e.code, @)]
  BY <1>1, <1>3, <1>4 DEF ChunkDone, Becomes, Puts, SegmentDone
<1> QED  BY <1>2, <1>4, <1>5, ChunkKeeps

\* Every group of a chunk is answered, or the next one is asked for.
LEMMA GoesKeeps ==
    ASSUME Inv, NEW s \in Segments, s \in DOMAIN task, run.phase = "chunks",
           task[s].at # "end", NEW t, TaskShape(t), Holds(s, t), Accounts(s, t),
           Goes(s, t), UNCHANGED <<input, result, counts>>
    PROVE  Inv'
<1>1. RowOK(s, store[s]) /\ store[s].fp = run.plan[s]
  BY DEF Inv, RunOK, RowsOK
<1>2. ASSUME NEW at \in {"write", "check", "end"}, NEW e, e = [t EXCEPT !.at = at]
      PROVE  TaskShape(e) /\ Holds(s, e) /\ Accounts(s, e)
             /\ e.at = at /\ e.todo = t.todo /\ e.code = t.code /\ e.failed = t.failed
  <2>1. e = [at |-> at, todo |-> t.todo, code |-> t.code, failed |-> t.failed,
             rounds |-> t.rounds, applied |-> t.applied, targets |-> t.targets,
             asks |-> t.asks, fixed |-> t.fixed]
    BY <1>2 DEF TaskShape
  <2>2. /\ TaskShape(e) /\ e.at = at /\ e.todo = t.todo /\ e.code = t.code
        /\ e.failed = t.failed
    BY <2>1 DEF TaskShape
  <2> QED  BY <2>2 DEF Holds, Accounts
<1>3. t.todo = <<>> => DOMAIN t.code \cup t.failed = ShotsOf(s)
  <2>1. Left(<<>>) = {}
    BY DEF Left
  <2> QED  BY <2>1 DEF Accounts
<1>4. CASE t.todo = <<>> /\ t.failed # {}
  <2>1. PICK row : row = SegmentFailed(store[s], s, run.plan[s], t.code, t.failed)
    OBVIOUS
  <2>2. RowOK(s, row) /\ row.fp = run.plan[s] /\ row.status = "failed"
    BY <1>1, <1>3, <1>4, <2>1, FailedIs DEF Holds
  <2>3. PICK e : e = [t EXCEPT !.at = "end"]
    OBVIOUS
  <2>4. TaskOK(s, e) /\ e.at = "end"
    BY <1>2, <2>3 DEF TaskOK
  <2>5. /\ task' = [task EXCEPT ![s] = e] /\ store' = [store EXCEPT ![s] = row]
        /\ UNCHANGED run
    BY <1>4, <2>1, <2>3 DEF Goes, ChunkFails, Becomes, Puts
  <2> QED  BY <2>2, <2>4, <2>5, ChunkKeeps
<1>5. CASE t.todo = <<>> /\ t.failed = {} /\ Cardinality(Chunks) = 1
  BY <1>3, <1>5, ChunkDoneKeeps DEF Goes
<1>6. CASE /\ ~(t.todo = <<>> /\ t.failed # {})
           /\ ~(t.todo = <<>> /\ Cardinality(Chunks) = 1)
  <2>1. PICK at : at = IF t.todo = <<>> THEN "check" ELSE "write"
    OBVIOUS
  <2>2. PICK e : e = [t EXCEPT !.at = at]
    OBVIOUS
  <2>3. TaskOK(s, e) /\ e.at # "end"
    BY <1>2, <1>3, <1>6, <2>1, <2>2 DEF TaskOK
  <2>4. Becomes(s, e) /\ UNCHANGED <<store, run>>
    BY <1>6, <2>1, <2>2 DEF Goes
  <2> QED  BY <2>3, <2>4, MovesKeeps
<1> QED  BY <1>4, <1>5, <1>6

\* An answer, or none of use: every shot of the group is written, given up or left.
LEMMA OnShotsKeeps ==
    ASSUME Inv, NEW s \in Segments, OnShots(s)
    PROVE  Inv'
<1> DEFINE t == task[s]
           ids == Head(t.todo)
           S == ShotsOf(s)
<1>1. s \in DOMAIN task /\ t.at = "asking" /\ UNCHANGED <<input, counts>>
  BY DEF OnShots
<1>2. run.phase = "chunks" /\ TaskOK(s, t)
  BY <1>1, ChunkTasksAre
<1>3. /\ TaskShape(t) /\ Holds(s, t) /\ Accounts(s, t) /\ t.todo # <<>>
      /\ t.todo \in Seq(SUBSET S) /\ t.failed \subseteq S
  BY <1>1, <1>2 DEF TaskOK, Holds
<1>4. ids \subseteq S /\ Tail(t.todo) \in Seq(SUBSET S) /\ Left(t.todo) = ids \cup Left(Tail(t.todo))
  BY <1>3, LeftTail
<1>5. DOMAIN t.code \cup t.failed \cup ids \cup Left(Tail(t.todo)) = S
  BY <1>3, <1>4 DEF Accounts
<1>6. ASSUME NEW got \in ParseShots(ids, s), NEW e,
             e = [t EXCEPT !.todo = Tail(t.todo), !.code = Over(got, t.code)],
             Goes(s, e), UNCHANGED result
      PROVE  Inv'
  <2>1. PICK good : got = [i \in ids |-> Code(run.plan[s], i \in good)]
    BY DEF ParseShots
  <2>2. IsCode(got) /\ DOMAIN got = ids /\ \A i \in ids : got[i].fp = run.plan[s]
    BY <2>1, ReplyIs
  <2>3. e = [at |-> t.at, todo |-> Tail(t.todo), code |-> Over(got, t.code), failed |-> t.failed,
             rounds |-> t.rounds, applied |-> t.applied, targets |-> t.targets,
             asks |-> t.asks, fixed |-> t.fixed]
    BY <1>3, <1>6 DEF TaskShape
  <2>4. /\ TaskShape(e) /\ e.at = "asking" /\ e.todo = Tail(t.todo)
        /\ e.code = Over(got, t.code) /\ e.failed = t.failed
    BY <1>1, <2>3 DEF TaskShape
  <2>5. IsCode(t.code) /\ DOMAIN t.code \subseteq S /\ \A i \in DOMAIN t.code : t.code[i].fp = run.plan[s]
    BY <1>3 DEF Holds
  <2>6. IsCode(Over(got, t.code))
    BY <2>2, <2>5, OverIs
  <2>7. DOMAIN e.code = ids \cup DOMAIN t.code /\ \A i \in DOMAIN e.code : e.code[i].fp = run.plan[s]
    BY <2>2, <2>4, <2>5 DEF Over
  <2>8. Holds(s, e)
    BY <1>3, <1>4, <2>4, <2>5, <2>6, <2>7 DEF Holds
  <2>9. Accounts(s, e)
    BY <1>5, <2>4, <2>7 DEF Accounts
  <2> QED  BY <1>1, <1>2, <1>6, <2>4, <2>8, <2>9, GoesKeeps
<1>7. ASSUME NEW cutOff, Goes(s, Refused(t, cutOff)), UNCHANGED result
      PROVE  Inv'
  <2>1. PICK e : e = Refused(t, cutOff)
    OBVIOUS
  <2>2. CASE cutOff /\ Cardinality(ids) > 1
    <3> DEFINE all == Halves(ids) \o Tail(t.todo)
    <3>1. all \in Seq(SUBSET S) /\ Left(all) = ids \cup Left(Tail(t.todo))
      BY <1>4, LeftHalves
    <3>2. e = [t EXCEPT !.todo = all]
      BY <2>1, <2>2 DEF Refused
    <3> HIDE DEF all
    <3>3. e = [at |-> t.at, todo |-> all, code |-> t.code, failed |-> t.failed,
               rounds |-> t.rounds, applied |-> t.applied, targets |-> t.targets,
               asks |-> t.asks, fixed |-> t.fixed]
      BY <1>3, <3>2 DEF TaskShape
    <3>4. TaskShape(e) /\ e.todo = all /\ e.code = t.code /\ e.failed = t.failed
      BY <3>3 DEF TaskShape
    <3>5. Holds(s, e) /\ Accounts(s, e)
      BY <1>3, <1>5, <3>1, <3>4 DEF Holds, Accounts
    <3> QED  BY <1>1, <1>2, <1>7, <2>1, <3>4, <3>5, GoesKeeps
  <2>3. CASE ~(cutOff /\ Cardinality(ids) > 1)
    <3>1. e = [t EXCEPT !.todo = Tail(t.todo), !.failed = t.failed \cup ids]
      BY <2>1, <2>3 DEF Refused
    <3>2. e = [at |-> t.at, todo |-> Tail(t.todo), code |-> t.code, failed |-> t.failed \cup ids,
               rounds |-> t.rounds, applied |-> t.applied, targets |-> t.targets,
               asks |-> t.asks, fixed |-> t.fixed]
      BY <1>3, <3>1 DEF TaskShape
    <3>3. /\ TaskShape(e) /\ e.todo = Tail(t.todo) /\ e.code = t.code
          /\ e.failed = t.failed \cup ids
      BY <3>2 DEF TaskShape
    <3>4. Holds(s, e) /\ Accounts(s, e)
      BY <1>3, <1>4, <1>5, <3>3 DEF Holds, Accounts
    <3> QED  BY <1>1, <1>2, <1>7, <2>1, <3>3, <3>4, GoesKeeps
  <2> QED  BY <2>2, <2>3
<1>8. CASE Stops
  BY <1>1, <1>8, StopsKeeps DEF Stops
<1> QED  BY <1>6, <1>7, <1>8 DEF OnShots

-----------------------------------------------------------------------------
(* Checks and repairs.                                                     *)

\* A suggestion, or a repair, changes whether a section is good, not what it was
\* written from.
Suggested(code, ids, good) ==
    [i \in DOMAIN code |-> IF i \in ids THEN Code(code[i].fp, i \in good) ELSE code[i]]

Fixed(code, fixed) == [i \in DOMAIN code |-> Code(code[i].fp, code[i].good \/ i \in fixed)]

LEMMA SuggestedIs ==
    ASSUME NEW code, IsCode(code), NEW ids, NEW good,
           NEW new, new = Suggested(code, ids, good)
    PROVE  /\ IsCode(new) /\ DOMAIN new = DOMAIN code
           /\ \A i \in DOMAIN code : new[i].fp = code[i].fp /\ (i \notin ids => new[i] = code[i])
<1>1. DOMAIN new = DOMAIN code /\ new = [i \in DOMAIN new |-> new[i]]
  BY DEF Suggested
<1>2. ASSUME NEW i \in DOMAIN code
      PROVE  /\ new[i] = Code(new[i].fp, new[i].good) /\ new[i].good \in BOOLEAN
             /\ new[i].fp = code[i].fp /\ (i \notin ids => new[i] = code[i])
  <2>1. CASE i \in ids
    <3>1. new[i] = [fp |-> code[i].fp, good |-> i \in good]
      BY <2>1 DEF Code, Suggested
    <3>2. (i \in good) \in BOOLEAN
      OBVIOUS
    <3> QED  BY <2>1, <3>1, <3>2 DEF Code
  <2>2. CASE i \notin ids
    BY <2>2 DEF IsCode, Suggested
  <2> QED  BY <2>1, <2>2
<1> QED  BY <1>1, <1>2 DEF IsCode

LEMMA FixedIs ==
    ASSUME NEW code, IsCode(code), NEW fixed, NEW new, new = Fixed(code, fixed)
    PROVE  /\ IsCode(new) /\ DOMAIN new = DOMAIN code
           /\ \A i \in DOMAIN code : new[i].fp = code[i].fp /\ (i \notin fixed => new[i] = code[i])
<1>1. DOMAIN new = DOMAIN code /\ new = [i \in DOMAIN new |-> new[i]]
  BY DEF Fixed
<1>2. ASSUME NEW i \in DOMAIN code
      PROVE  /\ new[i] = Code(new[i].fp, new[i].good) /\ new[i].good \in BOOLEAN
             /\ new[i].fp = code[i].fp /\ (i \notin fixed => new[i] = code[i])
  <2>1. new[i] = [fp |-> code[i].fp, good |-> code[i].good \/ i \in fixed]
    BY DEF Code, Fixed
  <2>2. (code[i].good \/ i \in fixed) \in BOOLEAN
    OBVIOUS
  <2>3. ASSUME i \notin fixed PROVE new[i] = code[i]
    <3>1. code[i] = [fp |-> code[i].fp, good |-> code[i].good] /\ code[i].good \in BOOLEAN
      BY DEF IsCode, Code
    <3>2. (code[i].good \/ i \in fixed) = code[i].good
      BY <2>3, <3>1
    <3> QED  BY <2>1, <3>1, <3>2
  <2> QED  BY <2>1, <2>2, <2>3 DEF Code
<1> QED  BY <1>1, <1>2 DEF IsCode

\* The check of a chunk settles it, changes it by suggestions or has it repaired.
LEMMA CheckChunkKeeps ==
    ASSUME Inv, NEW s \in Segments, CheckChunk(s)
    PROVE  Inv'
<1> DEFINE t == task[s]
<1>1. /\ s \in DOMAIN task /\ s # FrameKey /\ t.at = "check"
      /\ UNCHANGED <<input, result, counts>>
  BY DEF CheckChunk
<1>2. run.phase = "chunks" /\ TaskOK(s, t)
  BY <1>1, ChunkTasksAre
<1>3. TaskShape(t) /\ Holds(s, t) /\ DOMAIN t.code = ShotsOf(s)
  BY <1>1, <1>2 DEF TaskOK
<1>4. CASE ChunkDone(s, t)
  BY <1>1, <1>2, <1>3, <1>4, ChunkDoneKeeps
<1>5. ASSUME NEW ids, NEW e \in Suggestions(t, ids), Becomes(s, e), UNCHANGED <<store, run>>
      PROVE  Inv'
  <2>1. PICK good : e = [t EXCEPT !.applied = @ \cup ids, !.code = Suggested(t.code, ids, good)]
    BY DEF Suggestions, Suggested
  <2>2. PICK code : code = Suggested(t.code, ids, good)
    OBVIOUS
  <2>3. IsCode(code) /\ DOMAIN code = DOMAIN t.code /\ \A i \in DOMAIN t.code : code[i].fp = t.code[i].fp
    BY <1>3, <2>2, SuggestedIs DEF Holds
  <2>4. e = [at |-> t.at, todo |-> t.todo, code |-> code, failed |-> t.failed,
             rounds |-> t.rounds, applied |-> t.applied \cup ids, targets |-> t.targets,
             asks |-> t.asks, fixed |-> t.fixed]
    BY <1>3, <2>1, <2>2 DEF TaskShape
  <2>5. TaskShape(e) /\ e.at = t.at /\ e.todo = t.todo /\ e.code = code /\ e.failed = t.failed
    BY <2>4 DEF TaskShape
  <2>6. TaskOK(s, e)
    BY <1>1, <1>3, <2>3, <2>5 DEF TaskOK, Holds
  <2> QED  BY <1>1, <1>2, <1>5, <2>5, <2>6, MovesKeeps
<1>6. ASSUME NEW ids, Becomes(s, Repairing(t, ids)), UNCHANGED <<store, run>>
      PROVE  Inv'
  <2>1. PICK e : e = Repairing(t, ids)
    OBVIOUS
  <2>2. e = [at |-> "repair", todo |-> t.todo, code |-> t.code, failed |-> t.failed,
             rounds |-> t.rounds + 1, applied |-> t.applied, targets |-> ids,
             asks |-> Turns(ids), fixed |-> t.fixed]
    BY <1>3, <2>1 DEF Repairing, TaskShape
  <2>3. TaskShape(e) /\ e.at = "repair" /\ e.todo = t.todo /\ e.code = t.code /\ e.failed = t.failed
    BY <2>2 DEF TaskShape
  <2>4. TaskOK(s, e)
    BY <1>3, <2>3 DEF TaskOK, Holds
  <2> QED  BY <1>1, <1>2, <1>6, <2>1, <2>3, <2>4, MovesKeeps
<1> QED  BY <1>4, <1>5, <1>6 DEF CheckChunk

\* The final check has the frame's task, and its script is what the segments hold.
LEMMA FinalTaskIs ==
    ASSUME Inv, run.phase = "final"
    PROVE  /\ DOMAIN task = {FrameKey} /\ FinalOK(task[FrameKey])
           /\ task = [s \in DOMAIN task |-> task[s]]
           /\ \A s \in Segments : RowOK(s, store[s]) /\ store[s].fp = run.plan[s]
                                  /\ store[s].status # "running"
BY DEF Inv, RunOK, RowsOK

\* The final task goes on with its script as it is.
LEMMA FinalMoves ==
    ASSUME Inv, run.phase = "final", NEW e, FinalOK(e), Becomes(FrameKey, e),
           UNCHANGED <<input, store, run, result, counts>>
    PROVE  Inv'
<1>1. DOMAIN task = {FrameKey} /\ task = [s \in DOMAIN task |-> task[s]]
  BY FinalTaskIs
<1>2. task' = [task EXCEPT ![FrameKey] = e]
  BY DEF Becomes
<1>3. DOMAIN task' = {FrameKey} /\ task'[FrameKey] = e /\ task' = [s \in DOMAIN task' |-> task'[s]]
  BY <1>1, <1>2
<1>4. FinalOK(e)'  = FinalOK(e)
  BY DEF FinalOK
<1>5. FinalOK(task[FrameKey])'
  BY <1>3 DEF FinalOK
<1>6. RunOK'
  BY <1>3, <1>5 DEF Inv, RunOK
<1>7. RowsOK' /\ ResultOK' /\ CountsOK'
  BY DEF Inv, RowsOK, ResultOK, CountsOK
<1> QED  BY <1>6, <1>7 DEF Inv

\* Some sections change, and the segments that own them are stored again.
LEMMA RestoredKeeps ==
    ASSUME Inv, run.phase = "final", NEW ids, NEW e, TaskShape(e), e.at = "check",
           e.fixed = {}, IsCode(e.code), DOMAIN e.code = 0..ShotCount,
           \A i \in 0..ShotCount : e.code[i].fp = task[FrameKey].code[i].fp
                                   /\ (i \notin ids => e.code[i] = task[FrameKey].code[i]),
           \A a \in e.asks : a = [ids |-> a.ids, asking |-> a.asking] /\ a.ids \subseteq e.targets,
           Becomes(FrameKey, e), Restored(ids, e.code), UNCHANGED <<input, run, result, counts>>
    PROVE  Inv'
<1> DEFINE old == task[FrameKey].code
           owners == {Owner(i) : i \in ids}
<1>1. /\ DOMAIN task = {FrameKey} /\ task = [s \in DOMAIN task |-> task[s]]
      /\ \A s \in Segments : RowOK(s, store[s]) /\ store[s].fp = run.plan[s]
                             /\ store[s].status # "running"
      /\ IsCode(old) /\ DOMAIN old = 0..ShotCount
      /\ \A s \in Segments : store[s].code = Of(old, ShotsOf(s))
  BY FinalTaskIs DEF FinalOK
<1>2. /\ DOMAIN task' = {FrameKey} /\ task'[FrameKey] = e
      /\ task' = [s \in DOMAIN task' |-> task'[s]]
  BY <1>1 DEF Becomes
<1>3. ASSUME NEW s \in Segments
      PROVE  ShotsOf(s) \subseteq 0..ShotCount /\ \A i \in ShotsOf(s) : Owner(i) = s
  BY OwnerIs
<1>4. ASSUME NEW s \in Segments
      PROVE  /\ IsCode(Of(e.code, ShotsOf(s))) /\ DOMAIN Of(e.code, ShotsOf(s)) = ShotsOf(s)
             /\ \A i \in ShotsOf(s) : Of(e.code, ShotsOf(s))[i] = e.code[i]
  <2>1. IsCode(Of(e.code, ShotsOf(s)))
    BY OfIs
  <2>2. DOMAIN Of(e.code, ShotsOf(s)) = ShotsOf(s)
    BY <1>3 DEF Of
  <2>3. \A i \in ShotsOf(s) : Of(e.code, ShotsOf(s))[i] = e.code[i]
    BY <1>3 DEF Of
  <2> QED  BY <2>1, <2>2, <2>3
<1>5. ASSUME NEW s \in Segments
      PROVE  /\ RowOK(s, store'[s]) /\ store'[s].fp = run.plan[s]
             /\ store'[s].status # "running" /\ store'[s].code = Of(e.code, ShotsOf(s))
  <2>1. CASE s \in owners
    <3> DEFINE code == Of(e.code, ShotsOf(s))
    <3>1. PICK row : row = Row("done", run.plan[s], code)
      OBVIOUS
    <3>2. store'[s] = row
      BY <2>1, <3>1 DEF Restored, SegmentDone
    <3>3. IsCode(code) /\ DOMAIN code = ShotsOf(s) /\ \A i \in DOMAIN code : code[i].fp = run.plan[s]
      <4>1. ASSUME NEW i \in ShotsOf(s) PROVE code[i].fp = run.plan[s]
        <5>1. code[i].fp = old[i].fp
          BY <1>3, <1>4
        <5>2. i \in DOMAIN store[s].code /\ store[s].code[i] = old[i]
          <6>1. store[s].code = [j \in DOMAIN old \cap ShotsOf(s) |-> old[j]]
            BY <1>1 DEF Of
          <6>2. i \in DOMAIN old \cap ShotsOf(s)
            BY <1>1, <1>3
          <6> QED  BY <6>1, <6>2
        <5>3. store[s].code[i].fp = store[s].fp
          BY <1>1, <5>2 DEF RowOK
        <5> QED  BY <1>1, <5>1, <5>2, <5>3
      <4> QED  BY <1>4, <4>1
    <3> HIDE DEF code
    <3>4. RowOK(s, row)
      BY <3>1, <3>3, RowIs
    <3>5. row.fp = run.plan[s] /\ row.status = "done" /\ row.code = code
      BY <3>1 DEF Row
    <3> QED  BY <3>2, <3>4, <3>5 DEF code
  <2>2. CASE s \notin owners
    <3>1. store'[s] = store[s]
      BY <2>2 DEF Restored
    <3>2. \A i \in ShotsOf(s) : e.code[i] = old[i]
      BY <1>3, <2>2
    <3>3. Of(e.code, ShotsOf(s)) = Of(old, ShotsOf(s))
      BY <1>1, <1>3, <3>2 DEF Of
    <3> QED  BY <1>1, <3>1, <3>3
  <2> QED  BY <2>1, <2>2
<1>6. RowsOK'
  BY <1>5 DEF RowsOK, Restored
<1>7. FinalOK(task[FrameKey])'
  BY <1>2, <1>5 DEF FinalOK
<1>8. RunOK'
  BY <1>2, <1>5, <1>7 DEF Inv, RunOK
<1>9. ResultOK' /\ CountsOK'
  BY DEF Inv, ResultOK, CountsOK
<1> QED  BY <1>6, <1>8, <1>9 DEF Inv

\* A repair is of a chunk, or of the whole.
LEMMA RepairIsOf ==
    ASSUME Inv, NEW s \in DOMAIN task, task[s].at = "repair"
    PROVE  /\ TaskShape(task[s]) /\ IsCode(task[s].code)
           /\ \/ s # FrameKey /\ run.phase = "chunks" /\ TaskOK(s, task[s])
              \/ s = FrameKey /\ run.phase = "final" /\ FinalOK(task[s])
<1>1. CASE s = FrameKey
  <2>1. run.phase = "final"
    BY <1>1 DEF Inv, RunOK, Chunks, FrameKey
  <2> QED  BY <1>1, <2>1, FinalTaskIs DEF FinalOK
<1>2. CASE s # FrameKey
  BY <1>2, ChunkTasksAre DEF TaskOK, Holds
<1> QED  BY <1>1, <1>2

\* A repair that goes on: its calls change, and what they fixed, never the script.
LEMMA RepairMoves ==
    ASSUME Inv, NEW s \in DOMAIN task, task[s].at = "repair", NEW e, TaskShape(e),
           e.at = "repair", e.todo = task[s].todo, e.code = task[s].code,
           e.failed = task[s].failed, e.targets = task[s].targets,
           s = FrameKey =>
              /\ e.fixed \subseteq e.targets
              /\ \A a \in e.asks : a = [ids |-> a.ids, asking |-> a.asking] /\ a.ids \subseteq e.targets,
           Becomes(s, e), UNCHANGED <<input, store, run, result, counts>>
    PROVE  Inv'
<1>1. CASE s # FrameKey /\ run.phase = "chunks" /\ TaskOK(s, task[s])
  <2>1. TaskOK(s, e)
    BY <1>1 DEF TaskOK, Holds, Accounts
  <2> QED  BY <1>1, <2>1, MovesKeeps
<1>2. CASE s = FrameKey /\ run.phase = "final" /\ FinalOK(task[s])
  <2>1. FinalOK(e)
    BY <1>2 DEF FinalOK
  <2> QED  BY <1>2, <2>1, FinalMoves
<1> QED  BY <1>1, <1>2, RepairIsOf

LEMMA AskRepairKeeps ==
    ASSUME Inv, NEW s \in Segments, AskRepair(s)
    PROVE  Inv'
<1> DEFINE t == task[s]
<1>1. /\ s \in DOMAIN task /\ t.at = "repair"
      /\ UNCHANGED <<input, store, run, result, counts>> /\ TaskShape(t)
      /\ s = FrameKey => FinalOK(t)
  BY RepairIsOf DEF AskRepair
<1>2. PICK a \in t.asks :
          Becomes(s, [t EXCEPT !.asks = (@ \ {a}) \cup {[a EXCEPT !.asking = TRUE]}])
  BY DEF AskRepair
<1>3. PICK asks : asks = (t.asks \ {a}) \cup {[a EXCEPT !.asking = TRUE]}
  OBVIOUS
<1>4. PICK e : e = [t EXCEPT !.asks = asks]
  OBVIOUS
<1>5. e = [at |-> t.at, todo |-> t.todo, code |-> t.code, failed |-> t.failed,
           rounds |-> t.rounds, applied |-> t.applied, targets |-> t.targets,
           asks |-> asks, fixed |-> t.fixed]
  BY <1>1, <1>4 DEF TaskShape
<1>6. /\ TaskShape(e) /\ e.at = "repair" /\ e.todo = t.todo /\ e.code = t.code
      /\ e.failed = t.failed /\ e.targets = t.targets /\ e.asks = asks /\ e.fixed = t.fixed
  BY <1>1, <1>5 DEF TaskShape
<1>7. ASSUME s = FrameKey, NEW b \in asks
      PROVE  b = [ids |-> b.ids, asking |-> b.asking] /\ b.ids \subseteq t.targets
  <2>1. CASE b \in t.asks
    BY <1>1, <1>7, <2>1 DEF FinalOK
  <2>2. CASE b = [a EXCEPT !.asking = TRUE]
    <3>1. a = [ids |-> a.ids, asking |-> a.asking] /\ a.ids \subseteq t.targets
      BY <1>1, <1>2, <1>7 DEF FinalOK
    <3>2. b = [ids |-> a.ids, asking |-> TRUE]
      BY <2>2, <3>1
    <3> QED  BY <3>1, <3>2
  <2> QED  BY <1>3, <2>1, <2>2
<1>8. Becomes(s, e)
  BY <1>2, <1>3, <1>4
<1> QED  BY <1>1, <1>6, <1>7, <1>8, RepairMoves DEF FinalOK

\* A turn is answered: the repair goes on, or the fixes replace the script.
LEMMA RepairedKeeps ==
    ASSUME Inv, NEW s \in Segments, s \in DOMAIN task, task[s].at = "repair",
           NEW e, TaskShape(e),
           e.at = "repair", e.todo = task[s].todo, e.code = task[s].code,
           e.failed = task[s].failed, e.targets = task[s].targets,
           s = FrameKey =>
              /\ e.fixed \subseteq e.targets
              /\ \A a \in e.asks : a = [ids |-> a.ids, asking |-> a.asking] /\ a.ids \subseteq e.targets,
           Repaired(s, e), UNCHANGED <<input, run, result, counts>>
    PROVE  Inv'
<1>1. CASE e.asks # {}
  BY <1>1, RepairMoves DEF Repaired
<1>2. CASE e.asks = {}
  <2>1. PICK code : code = Fixed(e.code, e.fixed)
    OBVIOUS
  <2>2. PICK f : f = [e EXCEPT !.at = "check", !.code = code, !.fixed = {}, !.targets = {}]
    OBVIOUS
  <2>3. /\ Becomes(s, f)
        /\ IF s = FrameKey THEN Restored(e.targets, code) ELSE UNCHANGED store
    BY <1>2, <2>1, <2>2 DEF Repaired, Fixed
  <2>4. f = [at |-> "check", todo |-> e.todo, code |-> code, failed |-> e.failed,
             rounds |-> e.rounds, applied |-> e.applied, targets |-> {},
             asks |-> e.asks, fixed |-> {}]
    BY <2>2 DEF TaskShape
  <2>5. /\ TaskShape(f) /\ f.at = "check" /\ f.todo = e.todo /\ f.code = code
        /\ f.failed = e.failed /\ f.targets = {} /\ f.asks = {} /\ f.fixed = {}
    BY <1>2, <2>4 DEF TaskShape
  <2>6. /\ IsCode(code) /\ DOMAIN code = DOMAIN e.code
        /\ \A i \in DOMAIN e.code : code[i].fp = e.code[i].fp
                                    /\ (i \notin e.fixed => code[i] = e.code[i])
    BY <2>1, RepairIsOf, FixedIs
  <2>7. CASE s # FrameKey /\ run.phase = "chunks" /\ TaskOK(s, task[s])
    <3>1. TaskOK(s, f)
      BY <2>5, <2>6, <2>7 DEF TaskOK, Holds
    <3> QED  BY <2>3, <2>5, <2>7, <3>1, MovesKeeps
  <2>8. CASE s = FrameKey /\ run.phase = "final" /\ FinalOK(task[s])
    <3>1. DOMAIN f.code = 0..ShotCount /\ DOMAIN e.code = 0..ShotCount /\ IsCode(f.code)
      BY <2>5, <2>6, <2>8 DEF FinalOK
    <3>2. e.fixed \subseteq e.targets
      BY <2>8
    <3>3. \A i \in 0..ShotCount :
              f.code[i].fp = task[FrameKey].code[i].fp
              /\ (i \notin e.targets => f.code[i] = task[FrameKey].code[i])
      BY <2>5, <2>6, <2>8, <3>1, <3>2
    <3>4. Becomes(FrameKey, f) /\ Restored(e.targets, f.code)
      BY <2>3, <2>5, <2>8
    <3> QED  BY <2>5, <2>8, <3>1, <3>3, <3>4, RestoredKeeps
  <2> QED  BY <2>7, <2>8, RepairIsOf
<1> QED  BY <1>1, <1>2

\* The task with other calls and fixes.
Turned(t, asks, fixed) ==
    [at |-> t.at, todo |-> t.todo, code |-> t.code, failed |-> t.failed,
     rounds |-> t.rounds, applied |-> t.applied, targets |-> t.targets,
     asks |-> asks, fixed |-> fixed]

\* An answer to a repair, of use or of none, one cut off, or a stop.
LEMMA OnRepairKeeps ==
    ASSUME Inv, NEW s \in Segments, OnRepair(s)
    PROVE  Inv'
<1> DEFINE old == task[s]
<1>1. /\ s \in DOMAIN task /\ old.at = "repair" /\ UNCHANGED <<input, counts>>
      /\ TaskShape(old)
      /\ s = FrameKey => FinalOK(old)
  BY RepairIsOf DEF OnRepair
<1>2. PICK a \in old.asks :
        LET t == [old EXCEPT !.asks = @ \ {a}]
        IN  \/ /\ \E got \in ParseRepairedShots(a.ids) : \E good \in SUBSET got :
                     Repaired(s, [t EXCEPT !.fixed = @ \cup good])
               /\ UNCHANGED <<run, result>>
            \/ Repaired(s, t) /\ UNCHANGED <<run, result>>
            \/ /\ Becomes(s, [t EXCEPT !.asks = @ \cup {Ask(Halves(a.ids)[1]),
                                                        Ask(Halves(a.ids)[2])}])
               /\ UNCHANGED <<store, run, result>>
            \/ Stops
  BY DEF OnRepair
<1>3. s = FrameKey =>
         /\ old.fixed \subseteq old.targets /\ a.ids \subseteq old.targets
         /\ \A b \in old.asks : b = [ids |-> b.ids, asking |-> b.asking] /\ b.ids \subseteq old.targets
  BY <1>1, <1>2 DEF FinalOK
<1>4. PICK t : t = [old EXCEPT !.asks = @ \ {a}]
  OBVIOUS
<1>5. ASSUME NEW asks, NEW fixed, NEW e, e = Turned(old, asks, fixed)
      PROVE  /\ TaskShape(e) /\ e.at = "repair" /\ e.todo = old.todo /\ e.code = old.code
             /\ e.failed = old.failed /\ e.targets = old.targets
             /\ e.asks = asks /\ e.fixed = fixed
  BY <1>1, <1>5 DEF TaskShape, Turned
<1>6. ASSUME NEW got \in ParseRepairedShots(a.ids), NEW good \in SUBSET got, NEW e,
             e = [t EXCEPT !.fixed = @ \cup good], Repaired(s, e), UNCHANGED <<run, result>>
      PROVE  Inv'
  <2>1. good \subseteq a.ids
    BY DEF ParseRepairedShots
  <2>2. PICK asks, fixed : asks = old.asks \ {a} /\ fixed = old.fixed \cup good
    OBVIOUS
  <2>3. e = Turned(old, asks, fixed)
    BY <1>1, <1>4, <1>6, <2>2 DEF TaskShape, Turned
  <2>4. /\ TaskShape(e) /\ e.at = "repair" /\ e.todo = old.todo /\ e.code = old.code
        /\ e.failed = old.failed /\ e.targets = old.targets
        /\ e.asks = asks /\ e.fixed = fixed
    BY <1>5, <2>3
  <2>5. s = FrameKey =>
           /\ e.fixed \subseteq e.targets
           /\ \A b \in e.asks : b = [ids |-> b.ids, asking |-> b.asking] /\ b.ids \subseteq e.targets
    BY <1>3, <2>1, <2>2, <2>4
  <2> QED  BY <1>1, <1>6, <2>4, <2>5, RepairedKeeps
<1>7. CASE Repaired(s, t) /\ UNCHANGED <<run, result>>
  <2>1. PICK asks : asks = old.asks \ {a}
    OBVIOUS
  <2>2. t = Turned(old, asks, old.fixed)
    BY <1>1, <1>4, <2>1 DEF TaskShape, Turned
  <2>3. /\ TaskShape(t) /\ t.at = "repair" /\ t.todo = old.todo /\ t.code = old.code
        /\ t.failed = old.failed /\ t.targets = old.targets
        /\ t.asks = asks /\ t.fixed = old.fixed
    BY <1>5, <2>2
  <2>4. s = FrameKey =>
           /\ t.fixed \subseteq t.targets
           /\ \A b \in t.asks : b = [ids |-> b.ids, asking |-> b.asking] /\ b.ids \subseteq t.targets
    BY <1>3, <2>1, <2>3
  <2> QED  BY <1>1, <1>7, <2>3, <2>4, RepairedKeeps
<1>8. CASE /\ Becomes(s, [t EXCEPT !.asks = @ \cup {Ask(Halves(a.ids)[1]), Ask(Halves(a.ids)[2])}])
           /\ UNCHANGED <<store, run, result>>
  <2>1. PICK asks : asks = (old.asks \ {a}) \cup {Ask(Halves(a.ids)[1]), Ask(Halves(a.ids)[2])}
    OBVIOUS
  <2>2. PICK e : e = [t EXCEPT !.asks = @ \cup {Ask(Halves(a.ids)[1]), Ask(Halves(a.ids)[2])}]
    OBVIOUS
  <2>3. e = Turned(old, asks, old.fixed)
    BY <1>1, <1>4, <2>1, <2>2 DEF TaskShape, Turned
  <2>4. /\ TaskShape(e) /\ e.at = "repair" /\ e.todo = old.todo /\ e.code = old.code
        /\ e.failed = old.failed /\ e.targets = old.targets
        /\ e.asks = asks /\ e.fixed = old.fixed
    BY <1>5, <2>3
  <2>5. Halves(a.ids)[1] \subseteq a.ids /\ Halves(a.ids)[2] \subseteq a.ids
    BY DEF Halves, FirstHalf
  <2>6. \A b \in {Ask(Halves(a.ids)[1]), Ask(Halves(a.ids)[2])} :
            b = [ids |-> b.ids, asking |-> b.asking] /\ b.ids \subseteq a.ids
    BY <2>5 DEF Ask
  <2>7. s = FrameKey =>
           /\ e.fixed \subseteq e.targets
           /\ \A b \in e.asks : b = [ids |-> b.ids, asking |-> b.asking] /\ b.ids \subseteq e.targets
    BY <1>3, <2>1, <2>4, <2>6
  <2> QED  BY <1>1, <1>8, <2>2, <2>4, <2>7, RepairMoves
<1>9. CASE Stops
  BY <1>1, <1>9, StopsKeeps DEF Stops
<1> QED  BY <1>2, <1>4, <1>6, <1>7, <1>8, <1>9

\* The chunks are settled: the script of the final check is what the segments hold.
LEMMA MergeKeeps ==
    ASSUME Inv, Merge
    PROVE  Inv'
<1>1. /\ run.phase = "chunks" /\ UNCHANGED <<input, store, counts>>
      /\ \A s \in DOMAIN task : task[s].at = "end"
  BY DEF Merge
<1>2. /\ run = [phase |-> run.phase, plan |-> run.plan, wanted |-> run.wanted, code |-> run.code]
      /\ IsCode(run.code)
      /\ \A s \in Segments : RowOK(s, store[s]) /\ store[s].fp = run.plan[s] /\ MergedOK(s)
                             /\ store[s].status # "running"
  BY <1>1 DEF Inv, RowsOK, RunOK
<1>3. RowsOK'
  BY <1>1 DEF Inv, RowsOK
<1>4. CASE DOMAIN run.code = 0..ShotCount
  <2>1. MergeRemotion(run.code) = run.code
    <3>1. MergeRemotion(run.code) = [i \in 0..ShotCount |-> run.code[i]]
      BY <1>4 DEF MergeRemotion
    <3> QED  BY <1>2, <1>4, <3>1 DEF IsCode
  <2>2. PICK most :
            /\ run' = [run EXCEPT !.phase = "final"]
            /\ task' = [s \in {FrameKey} |-> Task("check", <<>>, run.code, most)]
            /\ UNCHANGED result
    <3> DEFINE spent == {task[s].rounds : s \in DOMAIN task} \cup {0}
               rounds == CHOOSE r \in spent : \A other \in spent : other <= r
    <3>1. /\ run' = [run EXCEPT !.phase = "final"]
          /\ task' = [s \in {FrameKey} |-> Task("check", <<>>, MergeRemotion(run.code), rounds)]
          /\ UNCHANGED result
      BY <1>4 DEF Merge
    <3> HIDE DEF rounds
    <3> QED  BY <2>1, <3>1
  <2>3. PICK e : e = Task("check", <<>>, run.code, most)
    OBVIOUS
  <2>4. /\ DOMAIN task' = {FrameKey} /\ task'[FrameKey] = e
        /\ task' = [s \in DOMAIN task' |-> task'[s]]
    BY <2>2, <2>3
  <2>5. /\ TaskShape(e) /\ e.at = "check" /\ e.code = run.code
        /\ e.fixed = {} /\ e.targets = {} /\ e.asks = {}
    BY <2>3 DEF Task, TaskShape
  <2>6. run' = [phase |-> "final", plan |-> run.plan, wanted |-> run.wanted, code |-> run.code]
    BY <1>2, <2>2
  <2>7. /\ run'.phase = "final" /\ run'.plan = run.plan
        /\ run' = [phase |-> run'.phase, plan |-> run'.plan, wanted |-> run'.wanted,
                   code |-> run'.code]
    BY <2>6
  <2>8. ASSUME NEW s \in Segments PROVE store[s].code = Of(run.code, ShotsOf(s))
    <3>1. CASE DOMAIN run.code \cap ShotsOf(s) = {}
      <4>1. IsCode(Of(run.code, ShotsOf(s))) /\ DOMAIN Of(run.code, ShotsOf(s)) = {}
        BY <1>2, <3>1, OfIs
      <4>2. ShotsOf(s) = {}
        BY <1>4, <3>1, OwnerIs
      <4>3. IsCode(store[s].code) /\ DOMAIN store[s].code = {}
        BY <1>2, <4>2 DEF RowOK
      <4> QED  BY <4>1, <4>3, SameCode
    <3>2. CASE DOMAIN run.code \cap ShotsOf(s) # {}
      BY <1>2, <3>2 DEF MergedOK
    <3> QED  BY <3>1, <3>2
  <2>9. FinalOK(task[FrameKey])'
    BY <1>1, <1>2, <1>4, <2>4, <2>5, <2>8 DEF FinalOK
  <2>10. RunOK'
    BY <1>1, <1>2, <2>4, <2>7, <2>9 DEF RunOK
  <2>11. ResultOK' /\ CountsOK'
    BY <1>1, <2>2, <2>7 DEF Inv, ResultOK, CountsOK
  <2> QED  BY <1>3, <2>10, <2>11 DEF Inv
<1>5. CASE DOMAIN run.code # 0..ShotCount
  <2>1. Ends("incomplete", FALSE, NoCode)
    BY <1>5 DEF Merge
  <2> QED  BY <1>1, <1>2, <1>3, <2>1, EndsKeeps
<1> QED  BY <1>4, <1>5

\* The final check stops, changes its script by suggestions, has it repaired or ends
\* the run with it.
LEMMA FinalCheckKeeps ==
    ASSUME Inv, FinalCheck
    PROVE  Inv'
<1> DEFINE t == task[FrameKey]
<1>1. run.phase = "final" /\ t.at = "check" /\ UNCHANGED <<input, counts>>
  BY DEF FinalCheck
<1>2. /\ TaskShape(t) /\ IsCode(t.code) /\ DOMAIN t.code = 0..ShotCount /\ t.fixed = {}
      /\ \A s \in Segments : store[s].code = Of(t.code, ShotsOf(s))
                             /\ store[s].status # "running"
      /\ \A a \in t.asks : a = [ids |-> a.ids, asking |-> a.asking] /\ a.ids \subseteq t.targets
  BY <1>1, FinalTaskIs DEF FinalOK
<1>3. ASSUME UNCHANGED store PROVE RowsOK'
  BY <1>3 DEF Inv, RowsOK
<1>4. CASE Ends("stopped", FALSE, NoCode) /\ UNCHANGED store
  BY <1>1, <1>2, <1>3, <1>4, EndsKeeps
<1>5. ASSUME NEW ids, NEW e \in Suggestions(t, ids), Becomes(FrameKey, e),
             Restored(ids, e.code), UNCHANGED <<run, result>>
      PROVE  Inv'
  <2>1. PICK good : e = [t EXCEPT !.applied = @ \cup ids, !.code = Suggested(t.code, ids, good)]
    BY <1>5 DEF Suggestions, Suggested
  <2>2. PICK code : code = Suggested(t.code, ids, good)
    OBVIOUS
  <2>3. /\ IsCode(code) /\ DOMAIN code = DOMAIN t.code
        /\ \A i \in DOMAIN t.code : code[i].fp = t.code[i].fp /\ (i \notin ids => code[i] = t.code[i])
    <3>1. IsCode(t.code)
      BY <1>2
    <3> HIDE DEF t
    <3> QED  BY <2>2, <3>1, SuggestedIs
  <2>4. e = [at |-> t.at, todo |-> t.todo, code |-> code, failed |-> t.failed,
             rounds |-> t.rounds, applied |-> t.applied \cup ids, targets |-> t.targets,
             asks |-> t.asks, fixed |-> t.fixed]
    BY <1>2, <2>1, <2>2 DEF TaskShape
  <2>5. /\ TaskShape(e) /\ e.at = t.at /\ e.code = code /\ e.targets = t.targets
        /\ e.asks = t.asks /\ e.fixed = t.fixed
    BY <2>4 DEF TaskShape
  <2>6. /\ e.at = "check" /\ e.fixed = {} /\ IsCode(e.code) /\ DOMAIN e.code = 0..ShotCount
        /\ \A i \in 0..ShotCount : e.code[i].fp = t.code[i].fp
                                   /\ (i \notin ids => e.code[i] = t.code[i])
        /\ \A a \in e.asks : a = [ids |-> a.ids, asking |-> a.asking] /\ a.ids \subseteq e.targets
    BY <1>1, <1>2, <2>3, <2>5
  <2>7. TaskShape(e)
    BY <2>5
  <2> QED  BY <1>1, <1>5, <2>6, <2>7, RestoredKeeps
<1>6. ASSUME NEW ids, Becomes(FrameKey, Repairing(t, ids)), UNCHANGED <<store, run, result>>
      PROVE  Inv'
  <2>1. PICK e : e = Repairing(t, ids)
    OBVIOUS
  <2>2. e = [at |-> "repair", todo |-> t.todo, code |-> t.code, failed |-> t.failed,
             rounds |-> t.rounds + 1, applied |-> t.applied, targets |-> ids,
             asks |-> Turns(ids), fixed |-> t.fixed]
    BY <1>2, <2>1 DEF Repairing, TaskShape
  <2>3. /\ TaskShape(e) /\ e.at = "repair" /\ e.code = t.code /\ e.targets = ids
        /\ e.asks = Turns(ids) /\ e.fixed = {}
    BY <1>2, <2>2 DEF TaskShape
  <2>4. ASSUME NEW a \in Turns(ids)
        PROVE  a = [ids |-> a.ids, asking |-> a.asking] /\ a.ids \subseteq ids
    <3>1. PICK s : a = Ask({i \in ids : Owner(i) = s})
      BY <2>4 DEF Turns
    <3>2. a = [ids |-> {i \in ids : Owner(i) = s}, asking |-> FALSE]
      BY <3>1 DEF Ask
    <3> QED  BY <3>2
  <2>5. FinalOK(e)
    BY <1>2, <2>3, <2>4 DEF FinalOK
  <2> QED  BY <1>1, <1>6, <2>1, <2>5, FinalMoves
<1>7. ASSUME NEW unmapped, Ends("done", Bad(t.code) = {} /\ ~unmapped, t.code), UNCHANGED store
      PROVE  Inv'
  BY <1>1, <1>2, <1>3, <1>7, EndsKeeps
<1> QED  BY <1>4, <1>5, <1>6, <1>7 DEF FinalCheck

-----------------------------------------------------------------------------
(* The theorems.                                                           *)

LEMMA InvStep == Inv /\ [Next]_vars => Inv'
<1> SUFFICES ASSUME Inv, [Next]_vars PROVE Inv'
  OBVIOUS
<1>1. CASE UNCHANGED vars
  <2>1. UNCHANGED <<input, store, run, task, result, counts>>
    BY <1>1 DEF vars
  <2>2. \A s : MergedOK(s)' = MergedOK(s) /\ \A t : TaskOK(s, t)' = TaskOK(s, t)
    BY <2>1 DEF MergedOK, TaskOK, Holds
  <2>3. \A t : FinalOK(t)' = FinalOK(t)
    BY <2>1 DEF FinalOK
  <2> QED  BY <2>1, <2>2, <2>3 DEF Inv, RowsOK, RunOK, ResultOK, CountsOK
<1>2. CASE StartRun \/ Frame \/ Merge \/ FinalCheck \/ Cut
  BY <1>2, StartKeeps, FrameKeeps, MergeKeeps, FinalCheckKeeps, CutKeeps
<1>3. CASE EditInput \/ Paste
  BY <1>3, EditKeeps, PasteKeeps
<1>4. ASSUME NEW s \in Segments, Works(s) PROVE Inv'
  BY <1>4, AskShotsKeeps, OnShotsKeeps, CheckChunkKeeps, AskRepairKeeps, OnRepairKeeps DEF Works
<1> QED  BY <1>1, <1>2, <1>3, <1>4 DEF Next

\* What the theorems rest on: the rows, the run, its tasks and its result agree.
THEOREM InvAlways == Spec => []Inv
<1>1. Init => Inv
  BY InitInv
<1>2. Inv /\ [Next]_vars => Inv'
  BY InvStep
<1> QED  BY <1>1, <1>2, PTL DEF Spec

\* Every variable keeps its shape, whatever is edited, pasted, answered or cut.
THEOREM TypeCorrect == Spec => []TypeOK
<1>1. Inv => TypeOK
  <2> SUFFICES ASSUME Inv PROVE TypeOK
    OBVIOUS
  <2>1. input \in [Segments -> 0..MaxEdits]
    <3>1. counts.edits \in 0..MaxEdits /\ input \in [Segments -> 0..counts.edits]
      BY DEF Inv, CountsOK
    <3>2. 0..counts.edits \subseteq 0..MaxEdits
      BY <3>1, BoundsAssumption
    <3> QED  BY <3>1, <3>2
  <2>2. /\ DOMAIN store = Segments
        /\ \A s \in Segments : RowOK(s, store[s])
    BY DEF Inv, RowsOK
  <2>3. FrameKey \in Segments /\ Chunks \subseteq Segments
    BY DEF Segments
  <2>4. run.phase \in {"none", "frame", "chunks", "final"} /\ DOMAIN task \subseteq Segments
    BY <2>3 DEF Inv, RunOK
  <2>5. result.status \in {"none", "incomplete", "done", "stopped", "cut"}
    BY DEF Inv, ResultOK
  <2> QED  BY <2>1, <2>2, <2>4, <2>5 DEF TypeOK, RowOK
<1> QED  BY <1>1, InvAlways, PTL

\* A stored shot was written from the inputs whose fingerprint it is stored under,
\* however edits, runs, failures and pastes follow one another: what a run that
\* outlives an edit stores is stored under the plan the run was given.
THEOREM CodeStands == Spec => []CodeIsOfFingerprint
<1>1. Inv => CodeIsOfFingerprint
  BY DEF Inv, RowsOK, RowOK, CodeIsOfFingerprint
<1> QED  BY <1>1, InvAlways, PTL

\* A run that ended without being stopped accounts for every shot it was to write,
\* and the script it returns is the one the segments hold, good if it passed.
THEOREM ShotsAccounted == Spec => []EveryShotAccounted
<1>1. Inv => EveryShotAccounted
  <2> SUFFICES ASSUME Inv, run.phase = "none", result.status \in {"incomplete", "done"}
               PROVE  EveryShotAccounted
    BY DEF EveryShotAccounted
  <2>1. \A s \in Segments : RowOK(s, store[s]) /\ store[s].status # "running"
    BY DEF Inv, RowsOK, RunOK
  <2>2. result.status = "done" =>
          /\ \A s \in Segments : store[s].code = Of(result.code, ShotsOf(s))
          /\ result.ok => Bad(result.code) = {}
    BY DEF Inv, ResultOK
  <2> QED  BY <2>1, <2>2 DEF EveryShotAccounted, RowOK
<1> QED  BY <1>1, InvAlways, PTL

=============================================================================
