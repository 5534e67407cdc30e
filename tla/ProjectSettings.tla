-------------------------- MODULE ProjectSettings --------------------------
(***************************************************************************)
(* The settings of one project (orchestrator): the wizard stores them one  *)
(* by one in the row of the project, the render saga reads each at some    *)
(* step, and a video format is pinned at the version the script was        *)
(* validated against.                                                      *)
(*                                                                         *)
(* A patch is checked against the row and then stored, in two calls.       *)
(* PatchOverlaps says whether anything else may run between the two; the   *)
(* handlers of the saga are one step each (SagaHandlers takes them apart). *)
(*                                                                         *)
(* The settings are taken in groups, as the code's rules do: mode and      *)
(* format (authoring), quality and font (render), subtitles and music      *)
(* (merge).  A script stands for the beats it declares.  Workers may       *)
(* answer or fail as they like; TTS and the review gate may be on or off.  *)
(***************************************************************************)
EXTENDS Naturals, Sequences, SequencesExt, FiniteSets

CONSTANTS Default, Short,         \* format ids: the default and the vertical short
          LongScript, ShortScript,\* scripts with the beats of either
          Renders,                \* values of the render settings
          Track, BurnIn,          \* values of the merge settings
          MaxSaves,               \* bound: format versions the Creator saves
          PatchOverlaps,          \* whether a step may run inside a patch
          None

ASSUME OverlapAssumption == PatchOverlaps \in BOOLEAN /\ MaxSaves \in Nat
ASSUME NamesAssumption ==
    /\ Default # Short /\ LongScript # ShortScript /\ Track # BurnIn
    /\ None \notin {Default, Short, Track, BurnIn} \cup Renders

VARIABLES formats,  \* video_formats: the versions of each format
          row,      \* the project's row
          checked,  \* the format version the script was last validated against
          asked,    \* the settings the last render and merge commands carried
          patch     \* a patch that was allowed and is not stored yet, or None

vars == <<formats, row, checked, asked, patch>>

FormatIds == {Default, Short}
Scripts == {LongScript, ShortScript}
Modes == {"video", "short"}
Merges == {Track, BurnIn}

(* A format: whether it is a short one, and the scripts with its beats.    *)
Content == [short : BOOLEAN, passes : SUBSET Scripts]

BuiltinFormats ==
    [f \in FormatIds |-> IF f = Short THEN [short |-> TRUE, passes |-> {ShortScript}]
                         ELSE [short |-> FALSE, passes |-> {LongScript}]]

InFlight == {"validating_script", "synthesizing_speech", "rendering", "assembling_video",
             "publishing"}
Failed == {"failed_at_validate_script", "failed_at_synthesize_speech",
           "failed_at_render_scenes", "failed_at_assemble_video", "failed_at_publish_video"}
Status == InFlight \cup Failed
            \cup {"draft", "awaiting_review", "ready_to_publish", "published"}

Settings == [mode : Modes, format : FormatIds, render : Renders, merge : Merges]
Row == [status : Status, wizard_step : 2..3, script : Scripts, mode : Modes,
        format : FormatIds, version : 0..(1 + MaxSaves), render : Renders, merge : Merges]
Patch == [mode : Modes \cup {None}, format : FormatIds \cup {None},
          render : Renders \cup {None}, merge : Merges \cup {None}, confirm : BOOLEAN]

Versions == UNION {{<<f, v>> : v \in DOMAIN formats[f]} : f \in FormatIds}
Free == PatchOverlaps \/ patch = None

-----------------------------------------------------------------------------
(* Mutant: saving a format rewrites its newest version.                    *)
SaveOverwrites(stored, f, content) ==
    [stored EXCEPT ![f] = [@ EXCEPT ![Len(stored[f])] = content]]

(* Video formats: a version is added, never rewritten.                     *)
SaveVideoFormat(stored, f, content) == [stored EXCEPT ![f] = Append(@, content)]

handleSaveFormat(f, content) ==
    /\ Free
    /\ Cardinality(Versions) < Cardinality(FormatIds) + MaxSaves
    /\ formats' = SaveVideoFormat(formats, f, content)
    /\ UNCHANGED <<row, checked, asked, patch>>

(* Version 0 means the newest; what is not stored is the default format.   *)
GetVideoFormat(f, version) ==
    IF version = 0
    THEN [id |-> f, version |-> Len(formats[f]), content |-> Last(formats[f])]
    ELSE IF <<f, version>> \in Versions
    THEN [id |-> f, version |-> version, content |-> formats[f][version]]
    ELSE [id |-> Default, version |-> 1, content |-> BuiltinFormats[Default]]

-----------------------------------------------------------------------------
(* The wizard: a patch is completed, allowed by status, checked when it    *)
(* confirms the step, and stored field by field.                           *)
ApplyShortDefaults(p) ==
    IF p.mode # "short" THEN p
    ELSE [p EXCEPT !.format = IF @ = None THEN Short ELSE @,
                   !.merge = IF @ = None THEN BurnIn ELSE @]

IsAuthoringEditable(status) == status = "draft" \/ status \in Failed

failedStageOrder ==
    [failed_at_validate_script |-> 1, failed_at_synthesize_speech |-> 2,
     failed_at_render_scenes |-> 3, failed_at_assemble_video |-> 4]

(* Mutant: one step past the one that reads the setting is let through.    *)
editableUntilPast(status, stage) ==
    \/ status \in {"draft", "awaiting_review"}
    \/ status \in DOMAIN failedStageOrder /\ failedStageOrder[status] <= stage + 1

editableUntil(status, stage) ==
    \/ status \in {"draft", "awaiting_review"}
    \/ status \in DOMAIN failedStageOrder /\ failedStageOrder[status] <= stage

touchesAuthoring(p) == p.mode # None \/ p.format # None \/ p.confirm

WizardPatchAllowed(status, p) ==
    /\ touchesAuthoring(p) => IsAuthoringEditable(status)
    /\ p.render # None => editableUntil(status, 3)
    /\ p.merge # None => editableUntil(status, 4)

Over(value, stored) == IF value = None THEN stored ELSE value

CheckOutputSettings(mode, content) == (mode = "short") = content.short

(* Mutant: the confirmation is judged by the mode stored, not the one sent.*)
checkOutputStored(p) ==
    CheckOutputSettings(row.mode, GetVideoFormat(Over(p.format, row.format), 0).content)

checkOutput(p) ==
    CheckOutputSettings(Over(p.mode, row.mode),
                        GetVideoFormat(Over(p.format, row.format), 0).content)

handlePatchWizardSettings(sent) ==
    LET p == ApplyShortDefaults(sent)
    IN  /\ patch = None
        /\ WizardPatchAllowed(row.status, p)
        /\ p.confirm => checkOutput(p)
        /\ patch' = p
        /\ UNCHANGED <<formats, row, checked, asked>>

PatchWizardSettings ==
    /\ patch # None
    /\ row' = [row EXCEPT !.mode = Over(patch.mode, @), !.format = Over(patch.format, @),
                          !.render = Over(patch.render, @), !.merge = Over(patch.merge, @),
                          !.wizard_step = IF patch.confirm THEN 3 ELSE @]
    /\ patch' = None
    /\ UNCHANGED <<formats, checked, asked>>

-----------------------------------------------------------------------------
(* The saga.  StartRender writes the row anew from the request's body.     *)
NothingAsked == [render |-> None, merge |-> None]

StartRender(settings, script) ==
    /\ Free
    /\ row.status \notin InFlight
    /\ row' = [status |-> "validating_script", wizard_step |-> row.wizard_step,
               script |-> script, mode |-> settings.mode, format |-> settings.format,
               version |-> 0, render |-> settings.render, merge |-> settings.merge]
    /\ checked' = None
    /\ asked' = NothingAsked
    /\ UNCHANGED <<formats, patch>>

UpdateStatus(status) == row' = [row EXCEPT !.status = status]

startRenderScenes(r) ==
    \/ row' = [r EXCEPT !.status = "failed_at_render_scenes"] /\ UNCHANGED asked
    \/ /\ row' = [r EXCEPT !.status = "rendering"]
       /\ asked' = [asked EXCEPT !.render = r.render]

ResumeAfterReview(r) ==
    \/ row' = [r EXCEPT !.status = "synthesizing_speech"] /\ UNCHANGED asked
    \/ startRenderScenes(r)

(* The format is pinned as it was found, and the beats are held to it.     *)
Pinned(r, format) == [r EXCEPT !.format = format.id, !.version = format.version]

ValidateBeats(script, content) == script \in content.passes

onScriptValidated ==
    /\ Free
    /\ row.status = "validating_script"
    /\ LET format == GetVideoFormat(row.format, row.version)
           r == Pinned(row, format)
       IN  /\ checked' = format
           /\ IF ValidateBeats(row.script, format.content)
              THEN \/ row' = [r EXCEPT !.status = "awaiting_review"] /\ UNCHANGED asked
                   \/ ResumeAfterReview(r)
              ELSE row' = [r EXCEPT !.status = "failed_at_validate_script"] /\ UNCHANGED asked
    /\ UNCHANGED <<formats, patch>>

Approve ==
    /\ Free
    /\ row.status = "awaiting_review"
    /\ ResumeAfterReview(row)
    /\ UNCHANGED <<formats, checked, patch>>

EditNarration ==
    /\ Free
    /\ row.status = "awaiting_review"
    /\ UpdateStatus("validating_script")
    /\ UNCHANGED <<formats, checked, asked, patch>>

Reject ==
    /\ Free
    /\ row.status = "awaiting_review"
    /\ UpdateStatus("draft")
    /\ UNCHANGED <<formats, checked, asked, patch>>

onSpeechSynthesized ==
    /\ Free
    /\ row.status = "synthesizing_speech"
    /\ startRenderScenes(row)
    /\ UNCHANGED <<formats, checked, patch>>

onRenderingCompleted ==
    /\ Free
    /\ row.status = "rendering"
    /\ UpdateStatus("assembling_video")
    /\ asked' = [asked EXCEPT !.merge = row.merge]
    /\ UNCHANGED <<formats, checked, patch>>

onVideoAssembled ==
    /\ Free
    /\ row.status = "assembling_video"
    /\ UpdateStatus("ready_to_publish")
    /\ UNCHANGED <<formats, checked, asked, patch>>

StartPublish ==
    /\ Free
    /\ row.status = "ready_to_publish"
    /\ UpdateStatus("publishing")
    /\ UNCHANGED <<formats, checked, asked, patch>>

onVideoPublished ==
    /\ Free
    /\ row.status = "publishing"
    /\ UpdateStatus("published")
    /\ UNCHANGED <<formats, checked, asked, patch>>

FailedStatus ==
    [validating_script |-> "failed_at_validate_script",
     synthesizing_speech |-> "failed_at_synthesize_speech",
     rendering |-> "failed_at_render_scenes",
     assembling_video |-> "failed_at_assemble_video",
     publishing |-> "failed_at_publish_video"]

(* A step fails by its worker's answer, by a cancel or as a dead letter.   *)
handleFailure ==
    /\ Free
    /\ row.status \in InFlight
    /\ UpdateStatus(FailedStatus[row.status])
    /\ UNCHANGED <<formats, checked, asked, patch>>

(* What a retried command carries of the settings.                         *)
rebuildPayload(status) ==
    CASE status = "rendering" -> [asked EXCEPT !.render = None]
      [] status = "assembling_video" -> [asked EXCEPT !.merge = row.merge]
      [] OTHER -> asked

RetryStep ==
    /\ Free
    /\ \E status \in InFlight :
          /\ row.status = FailedStatus[status]
          /\ UpdateStatus(status)
          /\ asked' = rebuildPayload(status)
    /\ UNCHANGED <<formats, checked, patch>>

-----------------------------------------------------------------------------
Init ==
    /\ formats = [f \in FormatIds |-> <<BuiltinFormats[f]>>]
    /\ \E r \in Renders :
          row = [status |-> "draft", wizard_step |-> 2, script |-> LongScript,
                 mode |-> "video", format |-> Default, version |-> 0, render |-> r,
                 merge |-> Track]
    /\ checked = None
    /\ asked = NothingAsked
    /\ patch = None

(* Bound: the page sends one change at a time, or a confirmation, which    *)
(* may name the mode.                                                      *)
Sent ==
    {p \in Patch : /\ Cardinality({f \in DOMAIN p \ {"confirm"} : p[f] # None}) <= 1
                   /\ p.confirm => p.format = None /\ p.render = None /\ p.merge = None}

Next ==
    \/ \E f \in FormatIds, content \in Content : handleSaveFormat(f, content)
    \/ \E p \in Sent : handlePatchWizardSettings(p)
    \/ PatchWizardSettings
    \/ \E settings \in Settings, script \in Scripts : StartRender(settings, script)
    \/ onScriptValidated
    \/ Approve
    \/ EditNarration
    \/ Reject
    \/ onSpeechSynthesized
    \/ onRenderingCompleted
    \/ onVideoAssembled
    \/ StartPublish
    \/ onVideoPublished
    \/ handleFailure
    \/ RetryStep

Spec == Init /\ [][Next]_vars

-----------------------------------------------------------------------------
(* Formats, row, commands and the patch under way keep their shape.        *)
TypeOK ==
    /\ formats \in [FormatIds -> Seq(Content)]
    /\ row \in Row
    /\ checked \in [id : FormatIds, version : 1..(1 + MaxSaves), content : Content] \cup {None}
    /\ asked \in [render : Renders \cup {None}, merge : Merges \cup {None}]
    /\ patch \in Patch \cup {None}

(* A setting reads in the row as the step that used it was told: once the  *)
(* step that reads it has run, no sequence of patches, failures, retries   *)
(* and reviews relabels what was made with another value.                  *)
SettingsStand ==
    /\ /\ row.status \in {"rendering", "assembling_video", "failed_at_assemble_video",
                          "ready_to_publish", "publishing", "published",
                          "failed_at_publish_video"}
       /\ asked.render # None
       => row.render = asked.render
    /\ row.status \in {"assembling_video", "ready_to_publish", "publishing", "published",
                       "failed_at_publish_video"}
       => row.merge = asked.merge

(* The version a project is pinned to is the one its script was validated  *)
(* against, and still holds what it held then, whatever versions the       *)
(* Creator saves and however often validation is run again.                *)
ValidatedAgainst ==
    checked # None /\ row.format = checked.id =>
        /\ row.version = checked.version
        /\ <<checked.id, checked.version>> \in Versions
        /\ formats[checked.id][checked.version] = checked.content

(* The Creator passes the settings only with a mode and a format that go   *)
(* together.                                                               *)
ConfirmedFits ==
    [][row'.wizard_step > row.wizard_step =>
          CheckOutputSettings(row'.mode, GetVideoFormat(row'.format, 0).content)]_vars

(* wizard.go: after a failure "a retry of the failed step, and every step  *)
(* after it, reads the new value".                                         *)
RetryReadsSettings ==
    [][row.status = "failed_at_render_scenes" /\ row'.status = "rendering" =>
          asked'.render = row.render]_vars
=============================================================================
