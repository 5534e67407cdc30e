----------------------------- MODULE VideoFiles -----------------------------
(***************************************************************************)
(* What goes into one project's video: the lines its script speaks, their  *)
(* audio, the moments the render gives them, the cut with its subtitles,   *)
(* and the channel's intro with the versions its uploads register.  Files  *)
(* on the shared volume outlive runs: the workers reuse what they find.    *)
(* The saga that drives it is RenderSaga; here it is a step in progress.   *)
(***************************************************************************)
EXTENDS Integers, FiniteSets, TLC, SequencesExt

CONSTANTS
    Scripts,      \* [lines : Seq(Nat), shots : Seq(Nat)]: line n takes n seconds to say
    Rewordings,   \* what the Creator may put in a line's place
    Configs,      \* [review, tts, intro : BOOLEAN, subtitles : a set of deliveries]
    Uploads,      \* [role : {"video", "music"}, source : Nat, seconds : Nat]
    Estimate,     \* seconds of a line when nothing is synthesized
    ShotGap, LineGap, LeadIn, LeadOut,
    MaxMoves      \* bound: requests of the Creator, uploads included, and workers that
                  \* die between their work and their answer

ScriptsAssumption ==
    Scripts # {} /\ Scripts \subseteq [lines : Seq(Nat \ {0}), shots : Seq(Nat \ {0})]
ConfigsAssumption ==
    Configs # {} /\ \A c \in Configs : c.subtitles \subseteq {"track", "burn_in"}
UploadsAssumption ==
    \A u \in Uploads : u.seconds \in Nat
BoundsAssumption ==
    /\ \A n \in {Estimate, ShotGap, LineGap, LeadIn, LeadOut, MaxMoves} : n \in Nat
    /\ Estimate > 0 /\ Rewordings \subseteq Nat \ {0}

VARIABLES
    project,   \* the projects row, with the step its saga is at
    cmds,      \* commands of the saga no worker is done with
    events,    \* events the orchestrator has not acknowledged
    audio,     \* /shared/{project}/audio: path |-> the line it speaks
    rendered,  \* rendered.mp4 and timing.json
    final,     \* final.mp4, with its subtitles
    assets,    \* the rows of channel_assets, of one kind and quality
    pointer,   \* the row of channel_asset_pointers for it
    uploads,   \* normalize_channel_asset commands not done with
    jobs,      \* normalizations at work, in no particular order
    requests, crashes

vars == <<project, cmds, events, audio, rendered, final, assets, pointer,
          uploads, jobs, requests, crashes>>

None == [none |-> TRUE]

project0 == [saga |-> 0, step |-> "none", state |-> "resting",
             script |-> CHOOSE s \in Scripts : TRUE, config |-> CHOOSE c \in Configs : TRUE,
             scenes |-> <<>>, offsets |-> <<>>, seconds |-> 0, intro |-> 0, caption |-> FALSE]

Init ==
    /\ project = project0
    /\ cmds = {} /\ events = {} /\ audio = << >>
    /\ rendered = None /\ final = None
    /\ assets = {} /\ pointer = [id |-> 0, version |-> 0]
    /\ uploads = {} /\ jobs = {}
    /\ requests = 0 /\ crashes = 0

Ask == requests + crashes < MaxMoves /\ requests' = requests + 1

Crash == requests + crashes < MaxMoves /\ crashes' = crashes + 1

productionVars == <<project, cmds, audio, rendered, final>>
assetVars == <<assets, pointer, uploads, jobs>>

-----------------------------------------------------------------------------
(* Lines and moments.                                                      *)

\* Mutant: the text is not part of the name.
audioPathOfScene(i, text) == <<i, 0>>

compute_audio_path(i, text) == <<i, text>>

longer(a, b) == IF a >= b THEN a ELSE b

Total(seq) == FoldLeft(+, 0, seq)

\* The shot that line k belongs to: without shotLineCounts every line is a shot.
ShotOf(shots, k) ==
    IF shots = <<>> THEN k
    ELSE CHOOSE j \in DOMAIN shots :
            Total(SubSeq(shots, 1, j - 1)) < k /\ k <= Total(SubSeq(shots, 1, j))

\* The second each line starts at: lines end to end, with the gap of a shot or of a line.
segmentsFrom(seconds, shots) ==
    LET gap(k) == IF ShotOf(shots, k) = ShotOf(shots, k + 1) THEN LineGap ELSE ShotGap
        offset[k \in DOMAIN seconds] ==
            IF k = 1 THEN 0
            ELSE offset[k - 1] + longer(1, seconds[k - 1]) + gap(k - 1)
    IN  offset

startTime(p, i) == IF i \in DOMAIN p.offsets THEN p.offsets[i] ELSE 0

\* The scenes that have audio, one after another.
narrationSegments(p) ==
    LET segments[i \in 0 .. Len(p.scenes)] ==
            IF i = 0 THEN <<>>
            ELSE IF p.scenes[i].path = <<>> THEN segments[i - 1]
            ELSE Append(segments[i - 1], [path |-> p.scenes[i].path, at |-> startTime(p, i)])
    IN  segments[Len(p.scenes)]

subtitleCues(p) ==
    [i \in DOMAIN p.scenes |-> [text |-> p.scenes[i].text, at |-> startTime(p, i)]]

assembleVideoPayload(p) ==
    [segments |-> narrationSegments(p), seconds |-> p.seconds, intro |-> p.intro,
     subtitles |-> p.config.subtitles,
     cues |-> IF p.config.subtitles = {} THEN <<>> ELSE subtitleCues(p)]

-----------------------------------------------------------------------------
(* The orchestrator.                                                       *)

Outstanding == {c \in cmds : c.saga = project.saga}

dispatch(step, payload) == cmds' = cmds \cup {[saga |-> project.saga, step |-> step, payload |-> payload]}

At(p, step) == [p EXCEPT !.step = step, !.state = "in_progress"]

Failed(p, step) == [p EXCEPT !.step = step, !.state = "failed"]

validatePayload(p) == p.script

\* Synthesis is sent the scenes; rendering the scenes and the script.
renderPayload(p) ==
    [seconds |-> [i \in DOMAIN p.scenes |-> p.scenes[i].seconds], shots |-> p.script.shots]

Move(p, step, payload) == project' = At(p, step) /\ dispatch(step, payload)

startRenderScenes(p) ==
    \/ Move(p, "render", renderPayload(p))
    \/ project' = Failed(p, "render") /\ UNCHANGED cmds   \* no pinned language

startSynthesizeSpeech(p) == Move(p, "synthesize", p.scenes)

skipSynthesizeSpeech(p) ==
    startRenderScenes([p EXCEPT !.scenes =
        [i \in DOMAIN @ |-> [@[i] EXCEPT !.path = <<>>, !.seconds = Estimate]]])

ResumeAfterReview(p) ==
    IF p.config.tts THEN startSynthesizeSpeech(p) ELSE skipSynthesizeSpeech(p)

\* The button is there only while the project rests.
StartRender ==
    /\ Ask /\ project.state # "in_progress"
    /\ \E s \in Scripts, c \in Configs :
          LET p == [project0 EXCEPT !.saga = project.saga + 1, !.script = s, !.config = c,
                                    !.step = "validate", !.state = "in_progress"]
          IN  /\ project' = p
              /\ cmds' = cmds \cup {[saga |-> p.saga, step |-> "validate", payload |-> s]}
    /\ UNCHANGED <<events, audio, rendered, final, crashes, assetVars>>

AwaitingReview == project.step = "validate" /\ project.state = "review"

Approve ==
    /\ Ask /\ AwaitingReview
    /\ ResumeAfterReview(project)
    /\ UNCHANGED <<events, audio, rendered, final, crashes, assetVars>>

EditNarration ==
    /\ Ask /\ AwaitingReview
    /\ \E i \in DOMAIN project.script.lines, t \in Rewordings :
          LET p == [project EXCEPT !.script.lines[i] = t]
          IN  Move(p, "validate", validatePayload(p))
    /\ UNCHANGED <<events, audio, rendered, final, crashes, assetVars>>

Reject ==
    /\ Ask /\ AwaitingReview
    /\ project' = [project EXCEPT !.state = "resting"]
    /\ UNCHANGED <<cmds, events, audio, rendered, final, crashes, assetVars>>

rebuildPayload(p) ==
    CASE p.step = "validate"   -> validatePayload(p)
      [] p.step = "synthesize" -> p.scenes
      [] p.step = "render"     -> renderPayload(p)
      [] p.step = "assemble"   -> assembleVideoPayload(p)

Retry ==
    /\ Ask /\ project.state = "failed"
    /\ Move(project, project.step, rebuildPayload(project))
    /\ UNCHANGED <<events, audio, rendered, final, crashes, assetVars>>

\* A cancel drops the commands of the project and kills what works on one: the
\* readings done stay, and so does what ffmpeg had written of the video.
Cancel ==
    /\ Ask /\ project.state = "in_progress"
    /\ project' = Failed(project, project.step)
    /\ cmds' = {}
    /\ \/ UNCHANGED final
       \/ /\ final = None /\ \E c \in Outstanding : c.step = "assemble"
          /\ final' = [state |-> "part"]
    /\ UNCHANGED <<events, audio, rendered, crashes, assetVars>>

Current(e) == e.saga = project.saga /\ e.step = project.step /\ project.state = "in_progress"

parseInitialScenes(e) ==
    [i \in DOMAIN e.result.lines |-> [text |-> e.result.lines[i], path |-> <<>>, seconds |-> 0]]

onScriptValidated(e) ==
    LET p == [project EXCEPT !.scenes = parseInitialScenes(e)]
    IN  \/ project' = Failed(p, "validate") /\ UNCHANGED cmds   \* a beat the format requires
        \/ /\ p.config.review
           /\ project' = [p EXCEPT !.state = "review"] /\ UNCHANGED cmds
        \/ ~p.config.review /\ ResumeAfterReview(p)

validateSceneIndexSets(e) == DOMAIN e.result.scenes = DOMAIN project.scenes

parseSynthesizedScenes(e, scenes) ==
    [i \in DOMAIN scenes |->
        [scenes[i] EXCEPT !.path = e.result.scenes[i].path,
                          !.seconds = e.result.scenes[i].seconds]]

onSpeechSynthesized(e) ==
    IF validateSceneIndexSets(e)
    THEN startRenderScenes([project EXCEPT !.scenes = parseSynthesizedScenes(e, @)])
    ELSE project' = Failed(project, "render") /\ UNCHANGED cmds

resolveChannelAssets(p) ==
    IF p.config.intro /\ pointer.id # 0
    THEN {p, [p EXCEPT !.intro = pointer.id]}   \* a lookup that fails leaves it as it is
    ELSE {p}

onRenderingCompleted(e) ==
    IF Len(e.result.offsets) = Len(project.scenes)
    THEN \E p \in resolveChannelAssets(
                    [project EXCEPT !.offsets = e.result.offsets, !.seconds = e.result.seconds]) :
            Move(p, "assemble", assembleVideoPayload(p))
    ELSE project' = Failed(project, "render") /\ UNCHANGED cmds

\* An answer without a caption leaves the one an earlier answer brought.
onVideoAssembled(e) ==
    /\ project' = [project EXCEPT !.state = "resting", !.caption = @ \/ e.result.caption]
    /\ UNCHANGED cmds

handleSuccess(e) ==
    CASE e.step = "validate"   -> onScriptValidated(e)
      [] e.step = "synthesize" -> onSpeechSynthesized(e)
      [] e.step = "render"     -> onRenderingCompleted(e)
      [] e.step = "assemble"   -> onVideoAssembled(e)

\* Events of the saga come in any order; one that is not current is dropped.
HandleEvent ==
    \E e \in {x \in events : x.step # "asset"} :
        /\ events' = events \ {e}
        /\ IF ~Current(e) THEN UNCHANGED <<project, cmds>>
           ELSE IF e.ok THEN handleSuccess(e)
           ELSE project' = Failed(project, e.step) /\ UNCHANGED cmds
        /\ UNCHANGED <<audio, rendered, final, requests, crashes, assetVars>>

-----------------------------------------------------------------------------
(* The workers.  A command is answered once; a worker that dies before its *)
(* answer leaves its files, and the command comes again.                   *)

answer(c, ok, result) == [saga |-> c.saga, step |-> c.step, ok |-> ok, result |-> result]

Answered(c, e) ==
    /\ cmds' = cmds \ {c} /\ events' = events \cup {e}
    /\ UNCHANGED <<project, requests, crashes, assetVars>>

Fails(c) == Answered(c, answer(c, FALSE, None))

Dies == Crash /\ UNCHANGED <<project, cmds, events, requests, assetVars>>

\* The dry run reads the lines off the script, and wants at least one.
ValidateScript(c) ==
    /\ c.step = "validate"
    /\ \/ Fails(c)
       \/ /\ c.payload.lines # <<>>
          /\ Answered(c, answer(c, TRUE, [lines |-> c.payload.lines]))
    /\ UNCHANGED <<audio, rendered, final>>

\* Every scene in turn: what has been spoken under the name is taken as it is.
Spoken(scenes, n) ==
    [x \in {compute_audio_path(i, scenes[i].text) : i \in 1 .. n} \cup DOMAIN audio |->
        IF x \in DOMAIN audio THEN audio[x]
        ELSE LET first == CHOOSE i \in 1 .. n : compute_audio_path(i, scenes[i].text) = x
             IN  scenes[first].text]

SynthesizeSpeechBatch(c) ==
    /\ c.step = "synthesize"
    /\ \E n \in 0 .. Len(c.payload) :
          /\ audio' = Spoken(c.payload, n)
          /\ \/ n < Len(c.payload) /\ Fails(c)
             \/ Dies
             \/ /\ n = Len(c.payload)
                /\ Answered(c, answer(c, TRUE, [scenes |-> [i \in 1 .. n |->
                       LET path == compute_audio_path(i, c.payload[i].text)
                       IN  [path |-> path, seconds |-> audio'[path]]]]))
    /\ UNCHANGED <<rendered, final>>

\* What a render is refused without: lines, each of some length.
_validate(p) == p.seconds # <<>> /\ \A k \in DOMAIN p.seconds : p.seconds[k] > 0

\* A finished render is taken as it is, provided its timing can be read.
RenderScript(c) ==
    /\ c.step = "render"
    /\ LET p == c.payload
           offsets == segmentsFrom(p.seconds, p.shots)
           fresh == [timed   |-> TRUE, offsets |-> offsets,
                     seconds |-> offsets[Len(offsets)] + longer(1, p.seconds[Len(offsets)])]
           result(r) == answer(c, TRUE, [offsets |-> r.offsets, seconds |-> r.seconds])
       IN  IF ~_validate(p) THEN Fails(c) /\ UNCHANGED rendered
           ELSE IF rendered # None /\ rendered.timed
           THEN Answered(c, result(rendered)) /\ UNCHANGED rendered
           ELSE \/ Fails(c) /\ UNCHANGED rendered
                \/ /\ p.shots = <<>> \/ Total(p.shots) = Len(p.seconds)
                   /\ \/ Answered(c, result(fresh)) /\ rendered' = fresh
                      \/ Dies /\ rendered' \in {fresh, [fresh EXCEPT !.timed = FALSE]}
    /\ UNCHANGED <<audio, final>>

Shifted(cues, by) == [i \in DOMAIN cues |-> [cues[i] EXCEPT !.at = @ + by]]

\* The longer of the picture and the end of the last line.
target_duration(payload, heard) ==
    LET end[i \in 0 .. Len(heard)] ==
            IF i = 0 THEN payload.seconds
            ELSE longer(end[i - 1], heard[i].at + heard[i].text)
    IN  end[Len(heard)]

\* get_by_id, best effort: the seconds of the intro, or none.
resolve_channel_asset(id) ==
    {0} \cup {a.seconds : a \in {r \in assets : r.id = id}}

\* The intro is spliced before the main pass.
concat_channel_assets(cut, intro) ==
    [cut EXCEPT !.heard = Shifted(@, intro), !.burned = Shifted(@, intro),
                !.length = @ + intro]

\* The main pass begins after a lead-in as long as the intro, which it fills with its
\* first frame; every moment is on the timeline of the finished video.
Cut(payload, intro) ==
    LET lead  == LeadIn + intro
        spoken == [i \in DOMAIN payload.segments |->
                     [text |-> audio[payload.segments[i].path], at |-> payload.segments[i].at]]
        cues == Shifted(payload.cues, lead)
        main ==
            [state  |-> "whole", intro |-> intro,
             heard  |-> Shifted(spoken, lead),
             length |-> target_duration(payload, spoken) + lead + LeadOut,
             burned |-> IF "burn_in" \in payload.subtitles THEN cues ELSE <<>>,
             track  |-> IF "track" \in payload.subtitles THEN cues ELSE <<>>]
    IN  concat_channel_assets(main, intro)

\* A video that is there is the answer, whole or not, and then without a caption: the
\* caption is looked for under another name than it was written under.
AssembleVideo(c) ==
    /\ c.step = "assemble"
    /\ IF final # None
       THEN /\ Answered(c, answer(c, TRUE, [caption |-> FALSE]))
            /\ UNCHANGED final
       ELSE \E intro \in resolve_channel_asset(c.payload.intro) :
               LET cut == Cut(c.payload, intro) IN
               \/ /\ Answered(c, answer(c, TRUE, [caption |-> cut.track # <<>>]))
                  /\ final' = cut
               \/ Fails(c) /\ final' \in {None, [state |-> "part"]}
               \/ Dies /\ final' \in {cut, [state |-> "part"]}
    /\ UNCHANGED <<audio, rendered>>

Work == \E c \in cmds :
    ValidateScript(c) \/ SynthesizeSpeechBatch(c) \/ RenderScript(c) \/ AssembleVideo(c)

-----------------------------------------------------------------------------
(* The channel's intro: uploads are normalized side by side.               *)

Normalize ==
    /\ Ask
    /\ \E u \in Uploads : uploads' = uploads \cup {[id |-> requests, upload |-> u]}
    /\ UNCHANGED <<productionVars, events, assets, pointer, jobs, crashes>>

Active == {a \in assets : ~a.superseded}

NoAsset == [id |-> 0, version |-> 0, clip |-> 0, music |-> 0, seconds |-> 0, superseded |-> FALSE]

\* get_active: a row of those not superseded.
get_active == IF Active = {} THEN {NoAsset} ELSE Active

UpToDate(u, active) ==
    /\ active # NoAsset
    /\ \/ u.role = "video" /\ active.clip = u.source
       \/ u.role = "music" /\ active.music = u.source

\* Before the work the active row is looked at: nothing is done for what it has
\* already, nor for music without a clip.
TakeUpload ==
    /\ \E c \in {x \in uploads : \A j \in jobs : j.cmd # x} : \E active \in get_active :
          IF UpToDate(c.upload, active) \/ (c.upload.role = "music" /\ active = NoAsset)
          THEN uploads' = uploads \ {c} /\ UNCHANGED jobs
          ELSE /\ jobs' = jobs \cup {[cmd |-> c, active |-> active, previous |-> None]}
               /\ UNCHANGED uploads
    /\ UNCHANGED <<productionVars, events, assets, pointer, requests, crashes>>

NormalizationFails ==
    /\ \E j \in jobs :
          /\ j.previous = None
          /\ jobs' = jobs \ {j} /\ uploads' = uploads \ {j.cmd}
    /\ UNCHANGED <<productionVars, events, assets, pointer, requests, crashes>>

\* register_new_version looks at the active row, and then supersedes it: the row is
\* not locked between the two.
ReadPrevious ==
    /\ \E j \in jobs, previous \in get_active :
          /\ j.previous = None
          /\ jobs' = (jobs \ {j}) \cup {[j EXCEPT !.previous = previous]}
    /\ UNCHANGED <<productionVars, events, assets, pointer, uploads, requests, crashes>>

\* Music is laid over the clip that was active when the work began.
NewVersion(j) ==
    LET u == j.cmd.upload
    IN  [id |-> Cardinality(assets) + 1, version |-> j.previous.version + 1,
         clip    |-> IF u.role = "video" THEN u.source ELSE j.active.clip,
         music   |-> IF u.role = "video" THEN 0 ELSE u.source,
         seconds |-> IF u.role = "video" THEN u.seconds ELSE j.active.seconds,
         superseded |-> FALSE]

register_new_version ==
    /\ \E j \in jobs :
          /\ j.previous # None
          /\ LET a == NewVersion(j) IN
             /\ assets' = {IF r.id = j.previous.id THEN [r EXCEPT !.superseded = TRUE] ELSE r :
                              r \in assets} \cup {a}
             /\ events' = events \cup {[step |-> "asset", id |-> a.id, version |-> a.version,
                                        handled |-> FALSE]}
          /\ jobs' = jobs \ {j} /\ uploads' = uploads \ {j.cmd}
    /\ UNCHANGED <<productionVars, pointer, requests, crashes>>

\* The worker starts again: what was not committed comes again.
AssemblyWorkerDies ==
    /\ Crash /\ jobs # {}
    /\ jobs' = {}
    /\ UNCHANGED <<productionVars, events, assets, pointer, uploads, requests>>

\* Mutant: the pointer takes every version it hears of.
UpsertUnguarded(e) == pointer' = [id |-> e.id, version |-> e.version]

UpsertChannelAssetPointer(e) ==
    pointer' = IF pointer.version <= e.version THEN [id |-> e.id, version |-> e.version]
               ELSE pointer

\* Delivered in any order, and perhaps once more after it was handled.
handleChannelAssetProjection ==
    /\ \E e \in {x \in events : x.step = "asset"} :
          /\ UpsertChannelAssetPointer(e)
          /\ events' = (events \ {e}) \cup (IF e.handled THEN {} ELSE {[e EXCEPT !.handled = TRUE]})
    /\ UNCHANGED <<productionVars, assets, uploads, jobs, requests, crashes>>

-----------------------------------------------------------------------------
Next ==
    \/ StartRender \/ Approve \/ EditNarration \/ Reject \/ Retry \/ Cancel
    \/ HandleEvent \/ Work
    \/ Normalize \/ TakeUpload \/ NormalizationFails \/ ReadPrevious
    \/ register_new_version \/ AssemblyWorkerDies \/ handleChannelAssetProjection

Spec == Init /\ [][Next]_vars

-----------------------------------------------------------------------------
TypeOK ==
    /\ project.step \in {"none", "validate", "synthesize", "render", "assemble"}
    /\ project.state \in {"resting", "in_progress", "review", "failed"}
    /\ \A c \in cmds : c.saga \in 1 .. project.saga
    /\ \A a \in assets : a.id \in 1 .. Cardinality(assets) /\ a.version \in 1 .. a.id
    /\ \A j \in jobs : j.cmd \in uploads
    /\ requests + crashes \in 0 .. MaxMoves

Whole == final # None /\ final.state = "whole"

\* In a finished video every subtitle shows the words being said at that moment,
\* whatever was reworded, tried again, cancelled and taken over from earlier runs
\* (artifact_paths.py of tts: the text is in the name of the audio so the video does
\* not say the previous sentence under the new subtitle; SubtitleCue.shifted_by).
\* Of a caption track this holds for a video without an intro.
SubtitlesAreSaid ==
    Whole /\ final.heard # <<>> =>
        /\ final.burned \in {<<>>, final.heard}
        /\ final.intro = 0 => final.track \in {<<>>, final.heard}

\* In a finished video the lines are said one after another, in the order of the
\* script, and the last is not cut off (onRenderingCompleted on offsets that do not
\* match the scenes, _target_duration on a narration that outlasts the picture).
LinesInOrder ==
    Whole =>
        /\ \A i, k \in DOMAIN final.heard : i < k => final.heard[i].at < final.heard[k].at
        /\ \A i \in DOMAIN final.heard : final.heard[i].at + final.heard[i].text <= final.length

\* A finished video plays as its script was written: what is said is what is read,
\* in the order of the lines and to the end.
PlaysAsWritten == SubtitlesAreSaid /\ LinesInOrder

\* Once every announcement has arrived, in whatever order and however often, the
\* orchestrator points at a version that no other is newer than
\* (UpsertChannelAssetPointer, register_new_version and its outbox).
PointerIsNewest ==
    (\A e \in events : e.step = "asset" => e.handled) =>
        \A a \in assets : a.version <= pointer.version
=============================================================================
