------------------------------ MODULE BeatSheet ------------------------------
(***************************************************************************)
(* The beat sheet of one project (authoring-service, beat_desk.go,         *)
(* beat_writer.go, beat_edit.go).  Every request reads the whole sheet,    *)
(* works on its copy, for minutes when a language model writes, and saves  *)
(* the whole sheet back.  What the words of a beat say is abstracted to    *)
(* who wrote them; the story is a version number.                          *)
(***************************************************************************)
EXTENDS Integers, Sequences, FiniteSets, SequencesExt, BeatLengths

CONSTANTS
    Threads,        \* goroutines that may serve a request at one time
    ChainSteps,     \* lines of the story's narrative arc
    TargetSeconds,  \* the length the approved brief asks for
    ReplySeconds,   \* lengths a model may answer, in range or not
    EditSeconds,    \* lengths the Creator may type
    MaxBeats,
    MaxStories,     \* bound: versions of the story
    MaxRequests     \* bound: requests on the beat sheet

\* The lengths an approved brief may ask for, of a short or of a long video.
ShortMinSeconds == 60
LongMaxSeconds == 1800

ThreadsAssumption == IsFiniteSet(Threads) /\ Threads # {}
LengthsAssumption ==
    /\ TargetSeconds \in ShortMinSeconds .. LongMaxSeconds
    /\ ChainSteps \in Nat /\ MaxBeats \in Nat
    /\ ReplySeconds \cup EditSeconds \subseteq Nat
BoundsAssumption == MaxStories \in Nat \ {0} /\ MaxRequests \in Nat

VARIABLES
    story,     \* the project's story: its version and its status
    editable,  \* the project is a draft or failed, so its inputs may change
    sheet,     \* the stored sheet: beats in order, next key, skeleton approved
    job,       \* thread |-> the request it serves and the sheet it has read
    requests

vars == <<story, editable, sheet, job, requests>>

-----------------------------------------------------------------------------
(* Beats.  key numbers b1, b2, ...; words is who wrote the goal and the    *)
(* content, none while the beat is only planned; mineDur tells that the    *)
(* length is the Creator's; storyHash is the story version the row records, *)
(* 0 for none.                                                             *)

Words == {"none", "ai", "creator"}

Beat == [key : Nat \ {0}, hook : BOOLEAN, words : Words, mineDur : BOOLEAN, dur : Nat,
         status : {"pending", "approved"}, storyHash : 0 .. MaxStories]

Sheet == [beats : Seq(Beat), nextSeq : Nat \ {0}, skeletonApproved : BOOLEAN]

Idle == [op |-> "none"]

Written(b) == b.words # "none"

AllWritten(beats) == \A i \in DOMAIN beats : Written(beats[i])

Keys(beats) == {beats[i].key : i \in DOMAIN beats}

indexOfBeat(beats, key) == CHOOSE i \in DOMAIN beats : beats[i].key = key

Durs(beats) == [i \in 1 .. Len(beats) |-> beats[i].dur]

Hooked(beats) == Len(beats) > 0 /\ beats[1].hook

target == NewTargetLength(TargetSeconds)

\* What a reply and a hand edit must both satisfy.
Validate(seconds) == seconds \in MinBeatSeconds .. MaxBeatSeconds

\* The lengths a reply of use gives; of another nothing is stored (GiveUp).
ParseBeatsReply == {seconds \in ReplySeconds : Validate(seconds)}

newBeatSlot(key, hash) ==
    [key |-> key, hook |-> FALSE, words |-> "none", mineDur |-> FALSE, dur |-> blankSeconds,
     status |-> "pending", storyHash |-> hash]

-----------------------------------------------------------------------------
Init ==
    /\ story = [version |-> 1, approved |-> TRUE]
    /\ editable = TRUE
    /\ sheet = [beats |-> <<>>, nextSeq |-> 1, skeletonApproved |-> FALSE]
    /\ job = [t \in Threads |-> Idle]
    /\ requests = 0

(* The story step and the render saga, which the sheet only reads.         *)

EditStory ==
    /\ editable /\ story.version < MaxStories
    /\ story' = [version |-> story.version + 1, approved |-> FALSE]
    /\ UNCHANGED <<editable, sheet, job, requests>>

ApproveStory ==
    /\ editable /\ ~story.approved
    /\ story' = [story EXCEPT !.approved = TRUE]
    /\ UNCHANGED <<editable, sheet, job, requests>>

RenderStarts ==
    /\ editable /\ editable' = FALSE
    /\ UNCHANGED <<story, sheet, job, requests>>

RenderFails ==
    /\ ~editable /\ editable' = TRUE
    /\ UNCHANGED <<story, sheet, job, requests>>

-----------------------------------------------------------------------------
(* The first half of a request: the checks, the sheet and the story read.  *)

Serve(t, request) ==
    /\ job[t] = Idle /\ editable /\ requests < MaxRequests
    /\ job' = [job EXCEPT ![t] =
                  [op |-> request[1], key |-> request[2],
                   read |-> sheet]]
    /\ requests' = requests + 1
    /\ UNCHANGED <<story, editable, sheet>>

BuildSkeleton(t) ==
    /\ story.approved
    /\ ~(sheet.skeletonApproved /\ sheet.beats # <<>>)
    /\ Serve(t, <<"BuildSkeleton", 0>>)

ApproveSkeleton(t) ==
    /\ sheet.beats # <<>>
    /\ Serve(t, <<"ApproveSkeleton", 0>>)

Generate(t, onlyUnwritten) ==
    /\ story.approved /\ sheet.skeletonApproved /\ sheet.beats # <<>>
    /\ Serve(t, <<IF onlyUnwritten THEN "GenerateUnwritten" ELSE "GenerateAll", 0>>)

Redo(t, key) ==
    /\ story.approved /\ sheet.skeletonApproved /\ key \in Keys(sheet.beats)
    /\ Serve(t, <<"Redo", key>>)

\* after is the key of the beat before the new one, 0 on an empty sheet.
Add(t, after, blank) ==
    /\ Len(sheet.beats) < MaxBeats
    /\ IF after = 0 THEN sheet.beats = <<>> ELSE after \in Keys(sheet.beats)
    /\ blank \/ (sheet.skeletonApproved /\ story.approved)
    /\ Serve(t, <<IF blank THEN "AddBlank" ELSE "AddWritten", after>>)

Touch(t, op, key) ==
    /\ key \in Keys(sheet.beats)
    /\ op = "Approve" => Written(sheet.beats[indexOfBeat(sheet.beats, key)])
    /\ Serve(t, <<op, key>>)

Reorder(t) == Len(sheet.beats) > 1 /\ Serve(t, <<"Reorder", 0>>)

-----------------------------------------------------------------------------
(* The second half: the sheet each request saves, from the copy r it read. *)

saveSheet(t, new) ==
    /\ sheet' = new
    /\ job' = [job EXCEPT ![t] = Idle]
    /\ UNCHANGED <<story, editable, requests>>

Skeleton(r, hash) ==
    LET n == ChainSteps + 2
    IN  [beats |-> [i \in 1 .. n |->
                       [newBeatSlot(r.nextSeq + i - 1, hash) EXCEPT
                           !.hook = i = 1,
                           !.dur = IF i = 1 THEN provisionalHookSeconds
                                            ELSE SkeletonShare(n, target)]],
         nextSeq |-> r.nextSeq + n,
         skeletonApproved |-> FALSE]

EndBuildSkeleton(t) ==
    /\ job[t].op = "BuildSkeleton" /\ story.approved
    /\ saveSheet(t, Skeleton(job[t].read, story.version))

EndApproveSkeleton(t) ==
    /\ job[t].op = "ApproveSkeleton"
    /\ saveSheet(t, [job[t].read EXCEPT !.skeletonApproved = TRUE])

\* The beats a content run writes again.
Rewritten(j) ==
    {i \in DOMAIN j.read.beats :
        \/ j.op = "GenerateAll"
        \/ j.op = "GenerateUnwritten" /\ ~Written(j.read.beats[i])
        \/ j.op = "Redo" /\ j.read.beats[i].key = j.key}

\* writeOne: the parts the Creator wrote are kept, but a Redo releases the words.
writeOne(j, b, seconds) ==
    [b EXCEPT !.words = IF @ = "creator" /\ j.op # "Redo" THEN @ ELSE "ai",
              !.dur = IF b.mineDur THEN @ ELSE seconds]

\* Mutant: a beat already approved is resized with the others.
fixedApprovedToo(beats, rewritten) == {i \in DOMAIN beats : beats[i].mineDur}

\* The lengths that stay: the Creator's and those of beats approved before.
fixedIn(beats, rewritten) ==
    {i \in DOMAIN beats :
        beats[i].mineDur \/ (i \notin rewritten /\ beats[i].status = "approved")}

\* Mutant: the lengths are left as the model gave them.
BalancedNever(beats, rewritten) == {Durs(beats)}

Balanced(beats, rewritten) ==
    IF AllWritten(beats)
    THEN BalanceSeconds(Durs(beats), fixedIn(beats, rewritten), Hooked(beats), target)
    ELSE {Durs(beats)}

saveContent(t, work, rewritten) ==
    \E durs \in Balanced(work, rewritten) :
        saveSheet(t, [job[t].read EXCEPT !.beats =
            [i \in 1 .. Len(work) |->
                IF i \in rewritten
                THEN [work[i] EXCEPT !.dur = durs[i], !.status = "pending",
                                     !.storyHash = story.version]
                ELSE [work[i] EXCEPT !.dur = durs[i]]]])

EndContent(t) ==
    /\ job[t].op \in {"GenerateAll", "GenerateUnwritten", "Redo"}
    /\ story.approved
    /\ LET j == job[t]
           beats == j.read.beats
           rewritten == Rewritten(j)
       IN  \E reply \in [rewritten -> ParseBeatsReply] :
               saveContent(t,
                   [i \in 1 .. Len(beats) |->
                       IF i \in rewritten THEN writeOne(j, beats[i], reply[i]) ELSE beats[i]],
                   rewritten)

Inserted(r, after, beat) ==
    [r EXCEPT !.beats = InsertAt(@, after + 1, beat), !.nextSeq = @ + 1]

EndAdd(t) ==
    /\ job[t].op \in {"AddBlank", "AddWritten"}
    /\ LET r == job[t].read
           after == IF job[t].key = 0 THEN 0 ELSE indexOfBeat(r.beats, job[t].key)
           blank == newBeatSlot(r.nextSeq, 0)
       IN  \/ /\ job[t].op = "AddBlank"
              /\ saveSheet(t, Inserted(r, after, blank))
           \/ /\ job[t].op = "AddWritten" /\ story.approved
              /\ \E seconds \in ParseBeatsReply :
                    saveSheet(t, Inserted(r, after,
                        [blank EXCEPT !.words = "ai", !.dur = seconds,
                                      !.storyHash = story.version]))

\* A hand edit of the words, of the length or of another field, and the status
\* buttons.  Words emptied go back to the AI.
Touched(b, op) ==
    CASE op = "EditWords"  -> {[b EXCEPT !.words = "creator", !.status = "pending"]}
      [] op = "EmptyWords" -> {[b EXCEPT !.words = "none", !.status = "pending"]}
      [] op = "EditDur"    -> {[b EXCEPT !.dur = s, !.status = "pending",
                                         !.mineDur = @ \/ s # b.dur] :
                                s \in {typed \in EditSeconds : Validate(typed)}}
      [] op = "EditOther"  -> {[b EXCEPT !.status = "pending"]}
      [] op = "Approve"    -> {[b EXCEPT !.status = "approved"]}
      [] op = "Unapprove"  -> {[b EXCEPT !.status = "pending"]}

Touches == {"EditWords", "EmptyWords", "EditDur", "EditOther", "Approve", "Unapprove"}

EndTouch(t) ==
    /\ job[t].op \in Touches
    /\ LET r == job[t].read
           at == indexOfBeat(r.beats, job[t].key)
       IN  \E b \in Touched(r.beats[at], job[t].op) :
               saveSheet(t, [r EXCEPT !.beats[at] = b])

EndDelete(t) ==
    /\ job[t].op = "Delete"
    /\ LET r == job[t].read
           left == RemoveAt(r.beats, indexOfBeat(r.beats, job[t].key))
       IN  saveSheet(t, [r EXCEPT !.beats = left,
                                  !.skeletonApproved = @ /\ left # <<>>])

EndReorder(t) ==
    /\ job[t].op = "Reorder"
    /\ \E order \in SetToSeqs(ToSet(job[t].read.beats)) :
           saveSheet(t, [job[t].read EXCEPT !.beats = order])

\* An unusable reply, a cancelled call, a failed query or a restart: nothing
\* of the request is stored.
GiveUp(t) ==
    /\ job[t] # Idle
    /\ job' = [job EXCEPT ![t] = Idle]
    /\ UNCHANGED <<story, editable, sheet, requests>>

Request(t) ==
    \/ BuildSkeleton(t) \/ ApproveSkeleton(t) \/ Reorder(t)
    \/ \E only \in BOOLEAN : Generate(t, only)
    \/ \E key \in Keys(sheet.beats) :
          \/ Redo(t, key)
          \/ \E op \in Touches \cup {"Delete"} : Touch(t, op, key)
    \/ \E after \in Keys(sheet.beats) \cup {0}, blank \in BOOLEAN : Add(t, after, blank)

End(t) ==
    \/ EndBuildSkeleton(t) \/ EndApproveSkeleton(t) \/ EndContent(t) \/ EndAdd(t)
    \/ EndTouch(t) \/ EndDelete(t) \/ EndReorder(t) \/ GiveUp(t)

Next ==
    \/ EditStory \/ ApproveStory \/ RenderStarts \/ RenderFails
    \/ \E t \in Threads : Request(t) \/ End(t)

Spec == Init /\ [][Next]_vars

-----------------------------------------------------------------------------
\* The stored sheet has the shape of its rows, each key stands once and below
\* the counter, and a thread holds one request (StoredBeatSheet, BeatSheetGate).
TypeOK ==
    /\ story \in [version : 1 .. MaxStories, approved : BOOLEAN]
    /\ editable \in BOOLEAN
    /\ sheet \in Sheet
    /\ Cardinality(Keys(sheet.beats)) = Len(sheet.beats)
    /\ \A key \in Keys(sheet.beats) : key < sheet.nextSeq
    /\ \A t \in Threads : job[t] = Idle \/ job[t].read \in Sheet
    /\ requests \in 0 .. MaxRequests

\* A run of the model that leaves no beat unwritten leaves the whole sheet
\* inside the target, whatever lengths the model gave, the Creator's and the
\* approved lengths included (saveContent, BalanceSeconds).
ContentRunFitsTarget ==
    [][(\E t \in Threads : EndContent(t)) /\ AllWritten(sheet'.beats)
          => Total(Durs(sheet'.beats)) \in target.lo .. target.hi]_vars

\* A beat the Creator approved is not changed behind the approval: while it
\* stays approved its words and its length stay (saveContent, Generate, Redo).
ApprovedBeatsStand ==
    [][\A i \in DOMAIN sheet.beats, k \in DOMAIN sheet'.beats :
          LET b == sheet.beats[i]
              c == sheet'.beats[k]
          IN  (b.key = c.key /\ b.status = "approved" /\ c.status = "approved")
                  => (b.words = c.words /\ b.dur = c.dur)]_vars

\* Words and lengths of the Creator's are lost only to the Creator: to an edit
\* of that beat or to a redo asked for by name, which keeps the length (Generate,
\* Redo, BalanceSeconds).
CreatorPartsStand ==
    [][\A i \in DOMAIN sheet.beats, k \in DOMAIN sheet'.beats :
          LET b == sheet.beats[i]
              c == sheet'.beats[k]
              Asked(op) == \E t \in Threads : job[t].op = op /\ job[t].key = b.key
          IN  b.key = c.key =>
                  /\ b.words = "creator" /\ c.words # "creator"
                         => Asked("EmptyWords") \/ Asked("Redo")
                  /\ b.mineDur /\ c.dur # b.dur => Asked("EditDur")]_vars

\* A run of the model over the sheet spares both: what the Creator approved and
\* what the Creator wrote.
RunsSpareTheCreators == ApprovedBeatsStand /\ CreatorPartsStand

=============================================================================
