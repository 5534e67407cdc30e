--------------------------- MODULE MCProjects_proofs ---------------------------
(***************************************************************************)
(* Theorems about what is kept of projects, with their proofs: the         *)
(* settings of one (ProjectSettings), the dialogue of its beats            *)
(* (ScriptDesk), the rows of all of them (ProjectRows) and the sheet of    *)
(* the beats of one (BeatSheet, BeatLengths).                              *)
(***************************************************************************)
EXTENDS MCProjects, FiniteSetTheorems, WellFoundedInduction, TLAPS

-----------------------------------------------------------------------------
(* The settings: the invariant.                                            *)

Found == [id : FormatIds, version : 1..(1 + MaxSaves), content : Content]

\* Versions are numbered from the one built in, and bounded.
FormatsOK ==
    /\ formats \in [FormatIds -> Seq(Content)]
    /\ \A f \in FormatIds : Len(formats[f]) >= 1
    /\ Len(formats[Default]) + Len(formats[Short]) <= 2 + MaxSaves
    /\ formats[Default][1] = BuiltinFormats[Default]

\* A format version that is stored, and what it holds.
IsStored(found) ==
    /\ found.version \in 1..Len(formats[found.id])
    /\ formats[found.id][found.version] = found.content

\* A patch on its way was allowed by the row it is about to change.
PatchOK ==
    /\ WizardPatchAllowed(row.status, patch)
    /\ patch.confirm => checkOutput(patch)

ShapeOK ==
    /\ row \in Row
    /\ checked \in Found \cup {None}
    /\ asked \in [render : Renders \cup {None}, merge : Merges \cup {None}]
    /\ patch \in Patch \cup {None}

SettingsInv ==
    /\ FormatsOK /\ ShapeOK
    /\ checked # None => row.version = checked.version /\ IsStored(checked)
    /\ SettingsStand
    /\ patch # None => PatchOK

-----------------------------------------------------------------------------
(* Formats and patches.                                                    *)

\* The versions of the two formats, counted.
LEMMA VersionsCounted ==
    ASSUME formats \in [FormatIds -> Seq(Content)]
    PROVE  Cardinality(Versions) = Len(formats[Default]) + Len(formats[Short])
<1> DEFINE Of(f) == {<<f, v>> : v \in DOMAIN formats[f]}
<1>1. ASSUME NEW f \in FormatIds
      PROVE  IsFiniteSet(Of(f)) /\ Cardinality(Of(f)) = Len(formats[f])
  <2>1. Len(formats[f]) \in Nat /\ DOMAIN formats[f] = 1..Len(formats[f])
    OBVIOUS
  <2> DEFINE n == Len(formats[f])
  <2>2. n \in Int /\ 1 \in Int /\ (1 <= n => n - 1 + 1 = n) /\ (1 > n => n = 0)
    BY <2>1
  <2>3. IsFiniteSet(1..n) /\ Cardinality(1..n) = IF 1 > n THEN 0 ELSE n - 1 + 1
    <3> HIDE DEF n
    <3> QED  BY <2>2, FS_Interval
  <2>4. IsFiniteSet(1..Len(formats[f])) /\ Cardinality(1..Len(formats[f])) = Len(formats[f])
    BY <2>1, <2>2, <2>3
  <2> DEFINE b == [v \in 1..Len(formats[f]) |-> <<f, v>>]
  <2>5. b \in Bijection(1..Len(formats[f]), Of(f))
    BY <2>1 DEF Bijection, Injection, Surjection, IsInjective
  <2>6. ExistsBijection(1..Len(formats[f]), Of(f))
    BY <2>5 DEF ExistsBijection
  <2> QED  BY <2>4, <2>6, FS_Bijection
<1>2. Versions = Of(Default) \cup Of(Short)
  BY DEF Versions, FormatIds
<1>3. Of(Default) \cap Of(Short) = {}
  BY NamesAssumption
<1> HIDE DEF Of
<1>4. /\ IsFiniteSet(Of(Default)) /\ IsFiniteSet(Of(Short))
      /\ Cardinality(Of(Default)) = Len(formats[Default])
      /\ Cardinality(Of(Short)) = Len(formats[Short])
  BY <1>1 DEF FormatIds
<1>5. Cardinality(Of(Default) \cap Of(Short)) = 0
  BY <1>3, FS_EmptySet
<1>6. Len(formats[Default]) \in Nat /\ Len(formats[Short]) \in Nat
  BY DEF FormatIds
<1>7. Cardinality(Of(Default) \cup Of(Short))
        = Cardinality(Of(Default)) + Cardinality(Of(Short)) - Cardinality(Of(Default) \cap Of(Short))
  BY <1>4, FS_Union
<1> QED  BY <1>2, <1>4, <1>5, <1>6, <1>7

\* What is found for a format is stored.
LEMMA FoundIsStored ==
    ASSUME FormatsOK, NEW f \in FormatIds, NEW version \in Nat,
           NEW found, found = GetVideoFormat(f, version)
    PROVE  found \in Found /\ IsStored(found)
<1>1. /\ \A g \in FormatIds : /\ Len(formats[g]) \in 1..(1 + MaxSaves)
                              /\ DOMAIN formats[g] = 1..Len(formats[g])
                              /\ \A v \in 1..Len(formats[g]) : formats[g][v] \in Content
      /\ formats[Default][1] = BuiltinFormats[Default] /\ Default \in FormatIds
  BY OverlapAssumption DEF FormatsOK, FormatIds
<1>2. CASE version = 0
  <2>1. found = [id |-> f, version |-> Len(formats[f]), content |-> Last(formats[f])]
    BY <1>2 DEF GetVideoFormat
  <2> QED  BY <1>1, <2>1 DEF Found, IsStored, Last
<1>3. CASE version # 0 /\ <<f, version>> \in Versions
  <2>1. found = [id |-> f, version |-> version, content |-> formats[f][version]]
    BY <1>3 DEF GetVideoFormat
  <2>2. version \in 1..Len(formats[f])
    BY <1>1, <1>3 DEF Versions
  <2> QED  BY <1>1, <2>1, <2>2, OverlapAssumption DEF Found, IsStored
<1>4. CASE version # 0 /\ <<f, version>> \notin Versions
  <2>1. found = [id |-> Default, version |-> 1, content |-> BuiltinFormats[Default]]
    BY <1>4 DEF GetVideoFormat
  <2> QED  BY <1>1, <2>1, OverlapAssumption DEF Found, IsStored
<1> QED  BY <1>2, <1>3, <1>4

\* A patch, completed, is a patch.
LEMMA PatchIs ==
    ASSUME NEW sent \in Sent
    PROVE  ApplyShortDefaults(sent) \in Patch
<1>1. sent \in Patch
  BY DEF Sent
<1>2. [sent EXCEPT !.format = IF @ = None THEN Short ELSE @,
                   !.merge = IF @ = None THEN BurnIn ELSE @] \in Patch
  BY <1>1 DEF Patch, FormatIds, Merges
<1> QED  BY <1>1, <1>2 DEF ApplyShortDefaults

-----------------------------------------------------------------------------
(* The settings: the steps.                                                *)

LEMMA SettingsInit == Init => SettingsInv
<1> SUFFICES ASSUME Init PROVE SettingsInv
  OBVIOUS
<1>1. formats = [f \in FormatIds |-> <<BuiltinFormats[f]>>]
  BY DEF Init
<1>2. BuiltinFormats \in [FormatIds -> Content]
  BY DEF BuiltinFormats, Content, Scripts
<1>3. FormatsOK
  BY <1>1, <1>2, OverlapAssumption DEF FormatsOK, FormatIds
<1>4. checked = None /\ patch = None /\ asked = NothingAsked /\ row.status = "draft" /\ row \in Row
  BY OverlapAssumption DEF Init, Row, Status, InFlight, Scripts, Modes, FormatIds, Merges
<1> QED  BY <1>3, <1>4 DEF SettingsInv, ShapeOK, SettingsStand, NothingAsked

\* A version is added.
LEMMA SaveKeeps ==
    ASSUME SettingsInv, ~PatchOverlaps, NEW f \in FormatIds, NEW content \in Content,
           handleSaveFormat(f, content)
    PROVE  SettingsInv'
<1>1. /\ patch = None /\ formats' = [formats EXCEPT ![f] = Append(@, content)]
      /\ UNCHANGED <<row, checked, asked, patch>>
      /\ Cardinality(Versions) < Cardinality(FormatIds) + MaxSaves
  BY DEF handleSaveFormat, Free, SaveVideoFormat
<1>2. Cardinality(FormatIds) = 2
  <2>1. IsFiniteSet({Default}) /\ Cardinality({Default}) = 1
    BY FS_Singleton
  <2>2. Cardinality({Default} \cup {Short}) = Cardinality({Default}) + 1
    BY <2>1, NamesAssumption, FS_AddElement
  <2>3. {Default} \cup {Short} = FormatIds
    BY DEF FormatIds
  <2> QED  BY <2>1, <2>2, <2>3
<1>3. /\ formats \in [FormatIds -> Seq(Content)] /\ formats[f] \in Seq(Content)
      /\ \A g \in FormatIds : Len(formats[g]) \in Nat \ {0}
      /\ Default \in FormatIds /\ Short \in FormatIds
  BY DEF SettingsInv, FormatsOK, FormatIds
<1>4. Len(formats[Default]) + Len(formats[Short]) < 2 + MaxSaves
  BY <1>1, <1>2, <1>3, VersionsCounted
<1>5. /\ formats' \in [FormatIds -> Seq(Content)]
      /\ \A g \in FormatIds : /\ Len(formats'[g]) = IF g = f THEN Len(formats[g]) + 1
                                                    ELSE Len(formats[g])
                              /\ \A v \in 1..Len(formats[g]) : formats'[g][v] = formats[g][v]
  <2>1. /\ formats'[f] = Append(formats[f], content)
        /\ \A g \in FormatIds \ {f} : formats'[g] = formats[g]
    BY <1>1, <1>3
  <2>2. /\ Append(formats[f], content) \in Seq(Content)
        /\ Len(Append(formats[f], content)) = Len(formats[f]) + 1
        /\ \A v \in 1..Len(formats[f]) : Append(formats[f], content)[v] = formats[f][v]
    BY <1>3
  <2> QED  BY <1>1, <1>3, <2>1, <2>2
<1>6. FormatsOK'
  <2>1. Len(formats'[Default]) + Len(formats'[Short]) <= 2 + MaxSaves
    BY <1>3, <1>4, <1>5, OverlapAssumption, NamesAssumption DEF FormatIds
  <2>2. formats'[Default][1] = BuiltinFormats[Default]
    BY <1>3, <1>5 DEF SettingsInv, FormatsOK
  <2> QED  BY <1>3, <1>5, <2>1, <2>2 DEF FormatsOK
<1>7. ASSUME checked # None PROVE IsStored(checked)'
  BY <1>1, <1>3, <1>5, <1>7 DEF SettingsInv, ShapeOK, Found, IsStored
<1> QED  BY <1>1, <1>6, <1>7 DEF SettingsInv, ShapeOK, SettingsStand

\* A patch is allowed, and nothing else happens before it is stored.
LEMMA PatchKeeps ==
    ASSUME SettingsInv, NEW sent \in Sent, handlePatchWizardSettings(sent)
    PROVE  SettingsInv'
<1>1. PICK p : p = ApplyShortDefaults(sent)
  OBVIOUS
<1>2. /\ patch' = p /\ UNCHANGED <<formats, row, checked, asked>>
      /\ WizardPatchAllowed(row.status, p) /\ (p.confirm => checkOutput(p))
  BY <1>1 DEF handlePatchWizardSettings
<1>3. p \in Patch
  BY <1>1, PatchIs
<1>4. PatchOK'
  BY <1>2 DEF PatchOK, checkOutput, GetVideoFormat, Versions
<1> QED  BY <1>2, <1>3, <1>4
         DEF SettingsInv, FormatsOK, ShapeOK, SettingsStand, IsStored

\* The patch is stored: it touches no setting that was read already.
LEMMA StoreKeeps ==
    ASSUME SettingsInv, PatchWizardSettings
    PROVE  SettingsInv'
<1>1. /\ patch # None /\ patch' = None /\ UNCHANGED <<formats, checked, asked>>
      /\ patch \in Patch /\ row \in Row /\ PatchOK
  BY DEF PatchWizardSettings, SettingsInv, ShapeOK
<1>2. row' = [status |-> row.status, wizard_step |-> IF patch.confirm THEN 3 ELSE row.wizard_step,
              script |-> row.script, mode |-> Over(patch.mode, row.mode),
              format |-> Over(patch.format, row.format), version |-> row.version,
              render |-> Over(patch.render, row.render), merge |-> Over(patch.merge, row.merge)]
  BY <1>1 DEF PatchWizardSettings, Row
<1>3. row' \in Row
  BY <1>1, <1>2 DEF Row, Patch, Over
<1>4. /\ row'.status = row.status /\ row'.version = row.version
      /\ patch.render = None => row'.render = row.render
      /\ patch.merge = None => row'.merge = row.merge
  BY <1>2 DEF Over
<1>5. /\ patch.render # None => editableUntil(row.status, 3)
      /\ patch.merge # None => editableUntil(row.status, 4)
  BY <1>1 DEF PatchOK, WizardPatchAllowed
<1>6. SettingsStand'
  BY <1>1, <1>4, <1>5 DEF SettingsInv, SettingsStand, editableUntil, failedStageOrder
<1> QED  BY <1>1, <1>3, <1>4, <1>6 DEF SettingsInv, FormatsOK, ShapeOK, IsStored

Asked == [render : Renders \cup {None}, merge : Merges \cup {None}]

\* A step of the saga, which touches neither formats nor a patch.
LEMMA MoveKeeps ==
    ASSUME SettingsInv, patch = None, UNCHANGED <<formats, patch>>,
           row' \in Row, asked' \in Asked, SettingsStand',
           \/ checked' = None
           \/ checked' \in Found /\ IsStored(checked') /\ row'.version = checked'.version
    PROVE  SettingsInv'
<1>1. FormatsOK'
  BY DEF SettingsInv, FormatsOK
<1>2. ShapeOK'
  BY DEF ShapeOK, Asked
<1>3. ASSUME checked' # None PROVE row'.version = checked'.version /\ IsStored(checked)'
  BY <1>3 DEF IsStored
<1> QED  BY <1>1, <1>2, <1>3 DEF SettingsInv

\* The steps that only move the status of the row.
LEMMA StatusKeeps ==
    ASSUME SettingsInv, patch = None, NEW status \in Status, UpdateStatus(status),
           UNCHANGED <<formats, checked, patch>>, asked' \in Asked,
           /\ /\ status \in {"rendering", "assembling_video", "failed_at_assemble_video",
                            "ready_to_publish", "publishing", "published",
                            "failed_at_publish_video"}
              /\ asked'.render # None
              => row.render = asked'.render
           /\ status \in {"assembling_video", "ready_to_publish", "publishing", "published",
                         "failed_at_publish_video"}
              => row.merge = asked'.merge
    PROVE  SettingsInv'
<1>1. row \in Row /\ row' = [row EXCEPT !.status = status]
  BY DEF SettingsInv, ShapeOK, UpdateStatus
<1>2. /\ row' \in Row /\ row'.status = status /\ row'.version = row.version
      /\ row'.render = row.render /\ row'.merge = row.merge
  BY <1>1 DEF Row
<1>3. SettingsStand'
  BY <1>2 DEF SettingsStand
<1>4. \/ checked' = None
      \/ checked' \in Found /\ IsStored(checked') /\ row'.version = checked'.version
  BY <1>2 DEF SettingsInv, ShapeOK
<1> QED  BY <1>2, <1>3, <1>4, MoveKeeps

\* The renderer is given the settings of the row, or the step has failed.
LEMMA RenderGiven ==
    ASSUME SettingsInv, NEW r \in Row, ResumeAfterReview(r)
    PROVE  row' \in Row /\ row'.version = r.version /\ asked' \in Asked /\ SettingsStand'
<1>1. asked \in Asked
  BY DEF SettingsInv, ShapeOK, Asked
<1>2. CASE \E status \in {"synthesizing_speech", "failed_at_render_scenes"} :
              row' = [r EXCEPT !.status = status] /\ asked' = asked
  <2>1. PICK status \in {"synthesizing_speech", "failed_at_render_scenes"} :
               row' = [r EXCEPT !.status = status] /\ asked' = asked
    BY <1>2
  <2>2. row' \in Row /\ row'.version = r.version /\ row'.status = status
    BY <2>1 DEF Row, Status, InFlight, Failed
  <2> QED  BY <1>1, <2>1, <2>2 DEF SettingsStand
<1>3. CASE row' = [r EXCEPT !.status = "rendering"] /\ asked' = [asked EXCEPT !.render = r.render]
  <2>1. /\ row' \in Row /\ row'.version = r.version /\ row'.status = "rendering"
        /\ row'.render = r.render /\ r.render \in Renders
    BY <1>3 DEF Row, Status, InFlight
  <2>2. asked' \in Asked /\ asked'.render = r.render
    BY <1>1, <1>3, <2>1 DEF Asked
  <2> QED  BY <2>1, <2>2 DEF SettingsStand
<1> QED  BY <1>2, <1>3 DEF ResumeAfterReview, startRenderScenes

\* A render begins anew: nothing was validated and nothing was asked.
LEMMA StartKeeps ==
    ASSUME SettingsInv, ~PatchOverlaps, NEW settings \in Settings, NEW text \in Scripts,
           StartRender(settings, text)
    PROVE  SettingsInv'
<1>1. /\ patch = None /\ checked' = None /\ asked' = NothingAsked
      /\ UNCHANGED <<formats, patch>> /\ row \in Row
  BY DEF StartRender, Free, SettingsInv, ShapeOK
<1>2. row' \in Row /\ row'.status = "validating_script"
  BY <1>1, OverlapAssumption DEF StartRender, Row, Settings, Status, InFlight
<1>3. asked' \in Asked /\ SettingsStand'
  BY <1>1, <1>2 DEF NothingAsked, Asked, SettingsStand
<1> QED  BY <1>1, <1>2, <1>3, MoveKeeps

\* The script is validated against the format the row is pinned to.
LEMMA ValidatedKeeps ==
    ASSUME SettingsInv, ~PatchOverlaps, onScriptValidated
    PROVE  SettingsInv'
<1>1. PICK format : format = GetVideoFormat(row.format, row.version)
  OBVIOUS
<1>2. PICK r : r = Pinned(row, format)
  OBVIOUS
<1>3. /\ patch = None /\ UNCHANGED <<formats, patch>> /\ row \in Row /\ asked \in Asked
      /\ checked' = format
  BY <1>1 DEF onScriptValidated, Free, SettingsInv, ShapeOK, Asked
<1>4. format \in Found /\ IsStored(format)
  <2>1. row.format \in FormatIds /\ row.version \in Nat
    BY <1>3, OverlapAssumption DEF Row
  <2> QED  BY <1>1, <2>1, FoundIsStored DEF SettingsInv
<1>5. r \in Row /\ r.version = format.version
  <2>1. format.id \in FormatIds /\ format.version \in 0..(1 + MaxSaves)
    BY <1>4, OverlapAssumption DEF Found
  <2>2. r = [row EXCEPT !.format = format.id, !.version = format.version]
    BY <1>2 DEF Pinned
  <2> QED  BY <1>3, <2>1, <2>2 DEF Row
<1>6. \/ ResumeAfterReview(r)
      \/ \E status \in {"awaiting_review", "failed_at_validate_script"} :
            row' = [r EXCEPT !.status = status] /\ asked' = asked
  BY <1>1, <1>2 DEF onScriptValidated
<1>7. row' \in Row /\ row'.version = r.version /\ asked' \in Asked /\ SettingsStand'
  <2>1. CASE ResumeAfterReview(r)
    BY <1>5, <2>1, RenderGiven
  <2>2. ASSUME NEW status \in {"awaiting_review", "failed_at_validate_script"},
               row' = [r EXCEPT !.status = status], asked' = asked
        PROVE  row' \in Row /\ row'.version = r.version /\ asked' \in Asked /\ SettingsStand'
    <3>1. row' \in Row /\ row'.version = r.version /\ row'.status = status
      BY <1>5, <2>2 DEF Row, Status, Failed
    <3> QED  BY <1>3, <2>2, <3>1 DEF SettingsStand
  <2> QED  BY <1>6, <2>1, <2>2
<1> QED  BY <1>3, <1>4, <1>5, <1>7, MoveKeeps

\* An approval or the answer of the speech worker goes on to the renderer.
LEMMA ResumeKeeps ==
    ASSUME SettingsInv, patch = None, ResumeAfterReview(row), UNCHANGED <<formats, checked, patch>>
    PROVE  SettingsInv'
<1>1. row \in Row
  BY DEF SettingsInv, ShapeOK
<1>2. row' \in Row /\ row'.version = row.version /\ asked' \in Asked /\ SettingsStand'
  BY <1>1, RenderGiven
<1>3. \/ checked' = None
      \/ checked' \in Found /\ IsStored(checked') /\ row'.version = checked'.version
  BY <1>2 DEF SettingsInv, ShapeOK
<1> QED  BY <1>2, <1>3, MoveKeeps

LEMMA RenderedKeeps ==
    ASSUME SettingsInv, ~PatchOverlaps, onRenderingCompleted
    PROVE  SettingsInv'
<1>1. /\ patch = None /\ row.status = "rendering" /\ UpdateStatus("assembling_video")
      /\ asked' = [asked EXCEPT !.merge = row.merge] /\ UNCHANGED <<formats, checked, patch>>
  BY DEF onRenderingCompleted, Free
<1>2. row.merge \in Merges /\ asked \in Asked
  BY DEF SettingsInv, ShapeOK, Row, Asked
<1>3. asked' \in Asked /\ asked'.render = asked.render /\ asked'.merge = row.merge
  BY <1>1, <1>2 DEF Asked
<1>4. asked.render # None => row.render = asked.render
  BY <1>1 DEF SettingsInv, SettingsStand
<1>5. "assembling_video" \in Status
  BY DEF Status, InFlight
<1> QED  BY <1>1, <1>3, <1>4, <1>5, StatusKeeps

LEMMA RetryKeeps ==
    ASSUME SettingsInv, ~PatchOverlaps, RetryStep
    PROVE  SettingsInv'
<1>1. PICK status \in InFlight :
             /\ row.status = FailedStatus[status] /\ UpdateStatus(status)
             /\ asked' = rebuildPayload(status)
  BY DEF RetryStep
<1>2. /\ patch = None /\ UNCHANGED <<formats, checked, patch>> /\ status \in Status
      /\ row.merge \in Merges /\ asked \in Asked
  BY DEF RetryStep, Free, SettingsInv, ShapeOK, Row, Asked, Status
<1>3. CASE status \in {"validating_script", "synthesizing_speech"}
  <2>1. asked' = asked
    BY <1>1, <1>3 DEF rebuildPayload
  <2> QED  BY <1>1, <1>2, <1>3, <2>1, StatusKeeps
<1>4. CASE status = "rendering"
  <2>1. asked' \in Asked /\ asked'.render = None
    BY <1>1, <1>2, <1>4 DEF rebuildPayload, Asked
  <2> QED  BY <1>1, <1>2, <1>4, <2>1, StatusKeeps
<1>5. CASE status = "assembling_video"
  <2>1. asked' \in Asked /\ asked'.render = asked.render /\ asked'.merge = row.merge
    BY <1>1, <1>2, <1>5 DEF rebuildPayload, Asked
  <2>2. row.status = "failed_at_assemble_video"
    BY <1>1, <1>5 DEF FailedStatus
  <2>3. asked'.render # None => row.render = asked'.render
    BY <2>1, <2>2 DEF SettingsInv, SettingsStand
  <2> QED  BY <1>1, <1>2, <1>5, <2>1, <2>3, StatusKeeps
<1>6. CASE status = "publishing"
  <2>1. asked' = asked
    BY <1>1, <1>6 DEF rebuildPayload
  <2>2. row.status = "failed_at_publish_video"
    BY <1>1, <1>6 DEF FailedStatus
  <2>3. /\ asked.render # None => row.render = asked.render
        /\ row.merge = asked.merge
    BY <2>2 DEF SettingsInv, SettingsStand
  <2> QED  BY <1>1, <1>2, <1>6, <2>1, <2>3, StatusKeeps
<1> QED  BY <1>1, <1>3, <1>4, <1>5, <1>6 DEF InFlight

\* The other steps move the status along the saga, back from the review, or
\* to the failure of the step that ran.
LEMMA OtherMovesKeep ==
    ASSUME SettingsInv, ~PatchOverlaps,
           EditNarration \/ Reject \/ onVideoAssembled \/ StartPublish \/ onVideoPublished
             \/ handleFailure
    PROVE  SettingsInv'
<1>1. /\ patch = None /\ UNCHANGED <<formats, checked, asked, patch>> /\ asked \in Asked
  BY DEF EditNarration, Reject, onVideoAssembled, StartPublish, onVideoPublished,
         handleFailure, Free, SettingsInv, ShapeOK, Asked
<1>2. CASE EditNarration \/ Reject
  <2>1. PICK status \in {"validating_script", "draft"} : UpdateStatus(status)
    BY <1>2 DEF EditNarration, Reject
  <2>2. status \in Status
    BY <2>1 DEF Status, InFlight
  <2> QED  BY <1>1, <2>1, <2>2, StatusKeeps
<1>3. CASE onVideoAssembled \/ StartPublish \/ onVideoPublished
  <2>1. PICK status \in {"ready_to_publish", "publishing", "published"} : UpdateStatus(status)
    BY <1>3 DEF onVideoAssembled, StartPublish, onVideoPublished
  <2>2. row.status \in {"assembling_video", "ready_to_publish", "publishing"}
    BY <1>3 DEF onVideoAssembled, StartPublish, onVideoPublished
  <2>3. /\ asked.render # None => row.render = asked.render
        /\ row.merge = asked.merge
    BY <2>2 DEF SettingsInv, SettingsStand
  <2>4. status \in Status
    BY <2>1 DEF Status, InFlight
  <2> QED  BY <1>1, <2>1, <2>3, <2>4, StatusKeeps
<1>4. CASE handleFailure
  <2>1. row.status \in InFlight /\ UpdateStatus(FailedStatus[row.status])
    BY <1>4 DEF handleFailure
  <2>2. CASE row.status \in {"validating_script", "synthesizing_speech", "rendering"}
    <3>1. FailedStatus[row.status] \in {"failed_at_validate_script",
                             "failed_at_synthesize_speech", "failed_at_render_scenes"}
      BY <2>2 DEF FailedStatus
    <3>2. FailedStatus[row.status] \in Status
      BY <3>1 DEF Status, Failed
    <3> QED  BY <1>1, <2>1, <3>1, <3>2, StatusKeeps
  <2>3. CASE row.status = "assembling_video"
    <3>1. FailedStatus[row.status] = "failed_at_assemble_video"
      BY <2>3 DEF FailedStatus
    <3>2. asked.render # None => row.render = asked.render
      BY <2>3 DEF SettingsInv, SettingsStand
    <3>3. FailedStatus[row.status] \in Status
      BY <3>1 DEF Status, Failed
    <3> QED  BY <1>1, <2>1, <3>1, <3>2, <3>3, StatusKeeps
  <2>4. CASE row.status = "publishing"
    <3>1. FailedStatus[row.status] = "failed_at_publish_video"
      BY <2>4 DEF FailedStatus
    <3>2. /\ asked.render # None => row.render = asked.render
          /\ row.merge = asked.merge
      BY <2>4 DEF SettingsInv, SettingsStand
    <3>3. FailedStatus[row.status] \in Status
      BY <3>1 DEF Status, Failed
    <3> QED  BY <1>1, <2>1, <3>1, <3>2, <3>3, StatusKeeps
  <2> QED  BY <2>1, <2>2, <2>3, <2>4 DEF InFlight
<1> QED  BY <1>2, <1>3, <1>4

LEMMA SettingsStep ==
    ASSUME ~PatchOverlaps
    PROVE  SettingsInv /\ [Next]_vars => SettingsInv'
<1> SUFFICES ASSUME SettingsInv, [Next]_vars PROVE SettingsInv'
  OBVIOUS
<1>1. CASE UNCHANGED vars
  BY <1>1 DEF vars, SettingsInv, FormatsOK, ShapeOK, IsStored, SettingsStand, PatchOK,
              checkOutput, GetVideoFormat, Versions
<1>2. CASE \E f \in FormatIds, content \in Content : handleSaveFormat(f, content)
  BY <1>2, SaveKeeps
<1>3. CASE \E p \in Sent : handlePatchWizardSettings(p)
  BY <1>3, PatchKeeps
<1>4. CASE PatchWizardSettings
  BY <1>4, StoreKeeps
<1>5. CASE \E settings \in Settings, text \in Scripts : StartRender(settings, text)
  BY <1>5, StartKeeps
<1>6. CASE onScriptValidated
  BY <1>6, ValidatedKeeps
<1>7. CASE Approve
  BY <1>7, ResumeKeeps DEF Approve, Free
<1>8. CASE onSpeechSynthesized
  <2>1. ResumeAfterReview(row)
    BY <1>8 DEF onSpeechSynthesized, ResumeAfterReview
  <2> QED  BY <1>8, <2>1, ResumeKeeps DEF onSpeechSynthesized, Free
<1>9. CASE onRenderingCompleted
  BY <1>9, RenderedKeeps
<1>10. CASE RetryStep
  BY <1>10, RetryKeeps
<1>11. CASE EditNarration \/ Reject \/ onVideoAssembled \/ StartPublish \/ onVideoPublished
              \/ handleFailure
  BY <1>11, OtherMovesKeep
<1> QED  BY <1>1, <1>2, <1>3, <1>4, <1>5, <1>6, <1>7, <1>8, <1>9, <1>10, <1>11 DEF Next

-----------------------------------------------------------------------------
(* The settings: what always holds, when no step runs inside a patch.      *)

\* The settings keep the invariant, whatever follows one another.
THEOREM SettingsInvAlways ==
    ASSUME ~PatchOverlaps
    PROVE  Spec => []SettingsInv
<1>1. Init => SettingsInv
  BY SettingsInit
<1>2. SettingsInv /\ [Next]_vars => SettingsInv'
  BY SettingsStep
<1> QED  BY <1>1, <1>2, PTL DEF Spec

\* Formats, row, commands and the patch under way keep their shape.
THEOREM SettingsTypeCorrect ==
    ASSUME ~PatchOverlaps
    PROVE  Spec => []TypeOK
<1>1. SettingsInv => TypeOK
  BY DEF SettingsInv, FormatsOK, ShapeOK, Found, TypeOK
<1> QED  BY <1>1, SettingsInvAlways, PTL

\* A setting reads in the row as the step that used it was told, however
\* patches, failures, retries and reviews follow one another.
THEOREM SettingsReadAsUsed ==
    ASSUME ~PatchOverlaps
    PROVE  Spec => []SettingsStand
<1>1. SettingsInv => SettingsStand
  BY DEF SettingsInv
<1> QED  BY <1>1, SettingsInvAlways, PTL

\* The version a project is pinned to is the one its script was validated
\* against, and holds what it held then.
THEOREM PinnedVersionStands ==
    ASSUME ~PatchOverlaps
    PROVE  Spec => []ValidatedAgainst
<1>1. ASSUME SettingsInv, checked # None
      PROVE  /\ row.version = checked.version
             /\ <<checked.id, checked.version>> \in Versions
             /\ formats[checked.id][checked.version] = checked.content
  <2>1. /\ checked.id \in FormatIds /\ row.version = checked.version
        /\ checked.version \in 1..Len(formats[checked.id])
        /\ formats[checked.id][checked.version] = checked.content
        /\ DOMAIN formats[checked.id] = 1..Len(formats[checked.id])
    BY <1>1 DEF SettingsInv, FormatsOK, ShapeOK, Found, IsStored
  <2> QED  BY <2>1 DEF Versions
<1>2. SettingsInv => ValidatedAgainst
  BY <1>1 DEF ValidatedAgainst
<1> QED  BY <1>2, SettingsInvAlways, PTL

\* The Creator passes the settings only with a mode and a format that go
\* together.
THEOREM ConfirmedTogether ==
    ASSUME ~PatchOverlaps
    PROVE  Spec => ConfirmedFits
<1> DEFINE Fits == CheckOutputSettings(row'.mode, GetVideoFormat(row'.format, 0).content)
<1>1. ASSUME SettingsInv, [Next]_vars, row'.wizard_step > row.wizard_step
      PROVE  Fits
  <2>1. row \in Row /\ row.wizard_step \in 2..3
    BY <1>1 DEF SettingsInv, ShapeOK, Row
  <2>2. CASE PatchWizardSettings
    <3>1. /\ patch # None /\ patch \in Patch /\ PatchOK
          /\ row' = [row EXCEPT !.mode = Over(patch.mode, @), !.format = Over(patch.format, @),
                       !.render = Over(patch.render, @), !.merge = Over(patch.merge, @),
                       !.wizard_step = IF patch.confirm THEN 3 ELSE @]
      BY <1>1, <2>2 DEF PatchWizardSettings, SettingsInv, ShapeOK
    <3>2. /\ row'.mode = Over(patch.mode, row.mode) /\ row'.format = Over(patch.format, row.format)
          /\ row'.wizard_step = IF patch.confirm THEN 3 ELSE row.wizard_step
      BY <2>1, <3>1 DEF Row
    <3>3. patch.confirm
      BY <1>1, <2>1, <3>2
    <3> QED  BY <3>1, <3>2, <3>3 DEF PatchOK, checkOutput
  <2>3. ASSUME ~PatchWizardSettings PROVE row'.wizard_step = row.wizard_step
    <3>1. CASE UNCHANGED row
      BY <3>1
    <3>2. ASSUME NEW r, NEW status, row' = [r EXCEPT !.status = status],
                 r = row \/ \E format : r = Pinned(row, format)
          PROVE  row'.wizard_step = row.wizard_step
      BY <2>1, <3>2 DEF Row, Pinned
    <3>3. CASE \E settings \in Settings, text \in Scripts : StartRender(settings, text)
      BY <3>3 DEF StartRender
    <3>4. CASE onScriptValidated
      BY <3>2, <3>4 DEF onScriptValidated, ResumeAfterReview, startRenderScenes
    <3>5. CASE Approve \/ onSpeechSynthesized
      BY <3>2, <3>5 DEF Approve, onSpeechSynthesized, ResumeAfterReview, startRenderScenes
    <3> QED  BY <1>1, <2>3, <3>1, <3>2, <3>3, <3>4, <3>5
             DEF Next, vars, handleSaveFormat, handlePatchWizardSettings, EditNarration, Reject,
                 onRenderingCompleted, onVideoAssembled, StartPublish, onVideoPublished,
                 handleFailure, RetryStep, UpdateStatus
  <2>4. row'.wizard_step # row.wizard_step
    BY <1>1, <2>1
  <2> QED  BY <2>2, <2>3, <2>4
<1>2. SettingsInv /\ [Next]_vars =>
        [row'.wizard_step > row.wizard_step => Fits]_vars
  BY <1>1
<1>3. Spec => [][Next]_vars
  BY PTL DEF Spec
<1> QED  BY <1>2, <1>3, SettingsInvAlways, PTL DEF ConfirmedFits

-----------------------------------------------------------------------------
(* The dialogue: what holds whoever serves the requests, how many at once. *)

\* What a row may hold: lines numbered below the counter, approved only with
\* lines.
Dialogues ==
    {s \in Scripted!Script : /\ \A n \in s.lines : n < s.nextSeq
                             /\ s.approved => s.lines # {}}

ScriptRows == Dialogues \cup {Scripted!NoScript}

OneBeat == {"Edit", "Redo", "Approve", "Unapprove"}

ScriptJobs == [op : OneBeat \cup {"Generate", "Replace"}, todo : SUBSET Beats, stamp : Nat,
               read : [Beats -> ScriptRows], sha : [Beats -> 0 .. MaxVersions]]

\* What a request has checked of the rows it read.
AskedOK(j) ==
    /\ j.op \in OneBeat => \E b \in Beats : j.todo = {b}
    /\ \A b \in j.todo :
          /\ j.op = "Generate" => j.read[b].lines = {}
          /\ j.op = "Replace" => j.read[b] # Scripted!NoScript /\ ~j.read[b].approved
          /\ j.op \in {"Approve", "Unapprove"} => j.read[b] # Scripted!NoScript
          /\ j.op = "Approve" => j.read[b].lines # {}

DialogueInv ==
    /\ beat \in [Beats -> [version : 0 .. MaxVersions, approved : BOOLEAN]]
    /\ scriptEditable \in BOOLEAN
    /\ script \in [Beats -> ScriptRows]
    /\ scriptJob \in [Threads -> ScriptJobs \cup {Scripted!Idle}]
    /\ \A t \in Threads : scriptJob[t] # Scripted!Idle => AskedOK(scriptJob[t])
    /\ changes \in 0 .. MaxChanges /\ scriptRequests \in 0 .. MaxScriptRequests

\* What a request makes of the row of one beat.
Written(j, b, new) ==
    /\ new \in Dialogues
    /\ j.op # "Approve" => ~new.approved
    /\ j.op = "Approve" /\ j.read[b].approved => new = j.read[b]
    /\ j.op \in {"Edit", "Replace"} => new.mine
    /\ j.op \in {"Approve", "Unapprove"} => new.mine = j.read[b].mine
    /\ j.op \notin {"Redo", "Generate"} /\ j.read[b] # Scripted!NoScript
         => new.sha = j.read[b].sha

\* A dialogue is not the missing row, which has no status.
LEMMA DialogueIsRow == Scripted!NoScript \notin Dialogues
<1>1. ASSUME NEW s \in Scripted!Script PROVE DOMAIN s # DOMAIN Scripted!NoScript
  <2>1. "mine" \in DOMAIN s
    BY DEF Scripted!Script
  <2>2. "mine" \notin DOMAIN Scripted!NoScript
    BY DEF Scripted!NoScript
  <2> QED  BY <2>1, <2>2
<1> QED  BY <1>1 DEF Dialogues

LEMMA JobUnderWay ==
    ASSUME DialogueInv, NEW t \in Threads, scriptJob[t].op # "none"
    PROVE  /\ scriptJob[t] # Scripted!Idle /\ scriptJob[t] \in ScriptJobs
           /\ AskedOK(scriptJob[t])
BY DEF DialogueInv, Scripted!Idle

\* What an edit makes of a dialogue.
LEMMA EditedShape ==
    ASSUME NEW old \in Scripted!Script, NEW j \in ScriptJobs, NEW out \in SUBSET old.lines,
           NEW more \in 0 .. 1, NEW new, new = Scripted!EditedTo(j, old, out, more)
    PROVE  new \in Scripted!Script /\ ~new.approved /\ new.mine /\ new.sha = old.sha
<1>1. /\ j.stamp \in Nat /\ old.lines \in SUBSET Nat /\ old.nextSeq \in Nat \ {0}
      /\ old.nextSeq .. old.nextSeq + more - 1 \in SUBSET Nat
  BY DEF ScriptJobs, Scripted!Script
<1>2. PICK lines \in SUBSET Nat :
          lines = (old.lines \ out) \cup (old.nextSeq .. old.nextSeq + more - 1)
  BY <1>1
<1>3. PICK next \in Nat \ {0} : next = old.nextSeq + more
  BY <1>1
<1>4. new = [old EXCEPT !.lines = lines, !.nextSeq = next, !.words = j.stamp, !.mine = TRUE,
                        !.approved = FALSE]
  BY <1>2, <1>3 DEF Scripted!EditedTo
<1> QED  BY <1>1, <1>4 DEF Scripted!Script

\* The row an edit saves.
LEMMA EditWrites ==
    ASSUME DialogueInv, NEW t \in Threads, Scripted!EndEdit(t)
    PROVE  \E b \in scriptJob[t].todo, new \in Dialogues :
              Scripted!saveScript(t, b, new) /\ Written(scriptJob[t], b, new)
<1>1. PICK j : j = scriptJob[t]
  OBVIOUS
<1>2. j.op = "Edit"
  BY <1>1 DEF Scripted!EndEdit
<1>3. PICK b \in j.todo : \E new \in Scripted!Edited(j, b) :
                Scripted!Validate(new) /\ Scripted!saveScript(t, b, new)
  BY <1>1 DEF Scripted!EndEdit
<1>4. PICK new \in Scripted!Edited(j, b) : Scripted!Validate(new) /\ Scripted!saveScript(t, b, new)
  BY <1>3
<1>5. j \in ScriptJobs /\ b \in Beats
  BY <1>1, <1>2, <1>3, JobUnderWay DEF ScriptJobs
<1> DEFINE old == Scripted!Editable(j, b)
<1>6. old \in Scripted!Script /\ (j.read[b] # Scripted!NoScript => old.sha = j.read[b].sha)
  <2>1. j.read[b] \in ScriptRows /\ j.sha[b] \in 0 .. MaxVersions
    BY <1>5 DEF ScriptJobs
  <2>2. CASE j.read[b] # Scripted!NoScript
    BY <2>1, <2>2 DEF Scripted!Editable, ScriptRows, Dialogues
  <2>3. CASE j.read[b] = Scripted!NoScript
    BY <2>1, <2>3 DEF Scripted!Editable, Scripted!Script
  <2> QED  BY <2>2, <2>3
<1>7. PICK out \in SUBSET old.lines, more \in 0 .. 1 :
             new = Scripted!EditedTo(j, old, out, more)
  BY <1>4 DEF Scripted!Edited
<1> HIDE DEF old
<1>8. PICK o \in Scripted!Script : o = old
  BY <1>6
<1>9. /\ new \in Scripted!Script /\ ~new.approved /\ new.mine /\ new.sha = old.sha
  <2>1. out \in SUBSET o.lines /\ new = Scripted!EditedTo(j, o, out, more)
    BY <1>7, <1>8
  <2>2. new \in Scripted!Script /\ ~new.approved /\ new.mine /\ new.sha = o.sha
    BY <1>5, <2>1, EditedShape
  <2> QED  BY <1>8, <2>2
<1>10. Written(j, b, new)
  BY <1>2, <1>4, <1>6, <1>9 DEF Written, Dialogues, Scripted!Validate
<1> QED  BY <1>1, <1>3, <1>4, <1>10 DEF Written

\* The row the model writes.
LEMMA ModelWrites ==
    ASSUME DialogueInv, NEW t \in Threads, Scripted!EndWrite(t)
    PROVE  \E b \in scriptJob[t].todo, new \in Dialogues :
              Scripted!saveScript(t, b, new) /\ Written(scriptJob[t], b, new)
<1>1. PICK j : j = scriptJob[t]
  OBVIOUS
<1>2. j.op \in {"Redo", "Generate"}
  BY <1>1 DEF Scripted!EndWrite
<1>3. PICK b \in j.todo : Scripted!writeBeat(t, b)
  BY <1>1 DEF Scripted!EndWrite
<1>4. j \in ScriptJobs /\ b \in Beats
  BY <1>1, <1>2, <1>3, JobUnderWay DEF ScriptJobs
<1>5. PICK next : next = Scripted!NumberedFrom(j, b)
  OBVIOUS
<1>6. next \in Nat \ {0}
  BY <1>4, <1>5 DEF Scripted!NumberedFrom, ScriptJobs, ScriptRows, Dialogues, Scripted!Script
<1>7. PICK n \in 1 .. MaxLines :
          Scripted!saveScript(t, b,
              [lines |-> next .. next + n - 1, nextSeq |-> next + n, words |-> j.stamp,
               mine |-> FALSE, approved |-> FALSE, sha |-> beat[b].version])
  BY <1>1, <1>3, <1>5 DEF Scripted!writeBeat, Scripted!ParseScriptReply, Scripted!UnitSHA
<1>8. PICK new : new = [lines |-> next .. next + n - 1, nextSeq |-> next + n, words |-> j.stamp,
                        mine |-> FALSE, approved |-> FALSE, sha |-> beat[b].version]
  OBVIOUS
<1>9. MaxLines \in Nat /\ beat[b].version \in 0 .. MaxVersions /\ j.stamp \in Nat
  BY <1>4, ScriptedAssumption DEF DialogueInv, ScriptJobs, Scripted!BoundsAssumption
<1>10. new \in Dialogues
  BY <1>6, <1>7, <1>8, <1>9 DEF Dialogues, Scripted!Script
<1>11. Written(j, b, new)
  BY <1>2, <1>8, <1>10 DEF Written
<1> QED  BY <1>1, <1>3, <1>7, <1>8, <1>10, <1>11

\* The rows a replacement and a status button save.
LEMMA CopyWrites ==
    ASSUME DialogueInv, NEW t \in Threads, Scripted!EndReplace(t) \/ Scripted!EndSetStatus(t)
    PROVE  \E b \in scriptJob[t].todo, new \in Dialogues :
              Scripted!saveScript(t, b, new) /\ Written(scriptJob[t], b, new)
<1>1. PICK j : j = scriptJob[t]
  OBVIOUS
<1>2. j.op \in {"Replace", "Approve", "Unapprove"}
  BY <1>1 DEF Scripted!EndReplace, Scripted!EndSetStatus
<1>3. j \in ScriptJobs /\ AskedOK(j)
  BY <1>1, <1>2, JobUnderWay
<1>4. ASSUME NEW b \in j.todo PROVE j.read[b] \in Dialogues
  BY <1>2, <1>3 DEF AskedOK, ScriptJobs, ScriptRows
<1>5. CASE j.op = "Replace"
  <2>1. PICK b \in j.todo :
               Scripted!saveScript(t, b, [j.read[b] EXCEPT !.words = j.stamp, !.mine = TRUE,
                                                           !.approved = FALSE])
    BY <1>1, <1>2, <1>5 DEF Scripted!EndReplace, Scripted!EndSetStatus
  <2>2. PICK new : new = [j.read[b] EXCEPT !.words = j.stamp, !.mine = TRUE, !.approved = FALSE]
    OBVIOUS
  <2>3. j.read[b] \in Dialogues /\ j.stamp \in Nat
    BY <1>3, <1>4 DEF ScriptJobs
  <2>4. /\ new \in Scripted!Script /\ ~new.approved /\ new.mine /\ new.sha = j.read[b].sha
        /\ new.lines = j.read[b].lines /\ new.nextSeq = j.read[b].nextSeq
    BY <2>2, <2>3 DEF Dialogues, Scripted!Script
  <2>5. Written(j, b, new)
    BY <1>5, <2>3, <2>4 DEF Written, Dialogues
  <2>6. new \in Dialogues
    BY <2>5 DEF Written
  <2> QED  BY <1>1, <2>1, <2>2, <2>5, <2>6
<1>6. CASE j.op \in {"Approve", "Unapprove"}
  <2>1. PICK b \in j.todo :
               Scripted!saveScript(t, b, [j.read[b] EXCEPT !.approved = j.op = "Approve"])
    BY <1>1, <1>2, <1>6 DEF Scripted!EndReplace, Scripted!EndSetStatus
  <2>2. PICK new : new = [j.read[b] EXCEPT !.approved = j.op = "Approve"]
    OBVIOUS
  <2>3. j.read[b] \in Dialogues /\ (j.op = "Approve" => j.read[b].lines # {})
    BY <1>3, <1>4 DEF AskedOK
  <2>4. /\ new \in Scripted!Script /\ (new.approved <=> j.op = "Approve")
        /\ new.mine = j.read[b].mine /\ new.sha = j.read[b].sha
        /\ new.lines = j.read[b].lines /\ new.nextSeq = j.read[b].nextSeq
        /\ j.op = "Approve" /\ j.read[b].approved => new = j.read[b]
    BY <2>2, <2>3 DEF Dialogues, Scripted!Script
  <2>5. Written(j, b, new)
    BY <1>6, <2>3, <2>4 DEF Written, Dialogues
  <2>6. new \in Dialogues
    BY <2>5 DEF Written
  <2> QED  BY <1>1, <2>1, <2>2, <2>5, <2>6
<1> QED  BY <1>2, <1>5, <1>6

\* How far a request is once a row is saved.
LEMMA SavedJob ==
    ASSUME DialogueInv, NEW t \in Threads, scriptJob[t].op # "none",
           NEW b \in scriptJob[t].todo, NEW new, Scripted!saveScript(t, b, new)
    PROVE  \/ scriptJob' = [scriptJob EXCEPT ![t] = Scripted!Idle]
           \/ \E j \in ScriptJobs :
                 /\ scriptJob' = [scriptJob EXCEPT ![t] = j] /\ AskedOK(j)
                 /\ j.read = scriptJob[t].read /\ j.todo = scriptJob[t].todo \ {b}
<1>1. PICK old : old = scriptJob[t]
  OBVIOUS
<1>2. old \in ScriptJobs /\ AskedOK(old)
  BY <1>1, JobUnderWay
<1>3. CASE old.todo \ {b} = {}
  BY <1>1, <1>3 DEF Scripted!saveScript
<1>4. CASE old.todo \ {b} # {}
  <2>1. PICK j : j = [old EXCEPT !.todo = old.todo \ {b}]
    OBVIOUS
  <2>2. /\ j \in ScriptJobs /\ j.op = old.op /\ j.read = old.read /\ j.todo = old.todo \ {b}
    BY <1>2, <2>1 DEF ScriptJobs
  <2>3. AskedOK(j)
    BY <1>1, <1>2, <1>4, <2>2 DEF AskedOK
  <2>4. scriptJob' = [scriptJob EXCEPT ![t] = j]
    BY <1>1, <1>4, <2>1 DEF Scripted!saveScript
  <2> QED  BY <1>1, <2>2, <2>3, <2>4
<1> QED  BY <1>3, <1>4

\* A row of the dialogue is saved by a request under way, or deleted.
ScriptSaved(t) ==
    /\ scriptJob[t].op # "none"
    /\ \E b \in scriptJob[t].todo, new \in Dialogues :
          Scripted!saveScript(t, b, new) /\ Written(scriptJob[t], b, new)

LEMMA EndSaves ==
    ASSUME DialogueInv, NEW t \in Threads, Scripted!End(t)
    PROVE  ScriptSaved(t) \/ Scripted!GiveUp(t)
<1>1. \/ Scripted!EndEdit(t) \/ Scripted!EndWrite(t) \/ Scripted!EndReplace(t)
      \/ Scripted!EndSetStatus(t)
      => scriptJob[t].op # "none"
  BY DEF Scripted!EndEdit, Scripted!EndWrite, Scripted!EndReplace, Scripted!EndSetStatus
<1> QED  BY <1>1, EditWrites, ModelWrites, CopyWrites DEF Scripted!End, ScriptSaved

\* A request is served on the rows as they are.
LEMMA RequestAsks ==
    ASSUME DialogueInv, NEW t \in Threads, Scripted!Request(t)
    PROVE  \E j \in ScriptJobs :
              /\ scriptJob' = [scriptJob EXCEPT ![t] = j] /\ AskedOK(j) /\ j.read = script
              /\ scriptRequests' \in 0 .. MaxScriptRequests
              /\ UNCHANGED <<beat, scriptEditable, script, changes>>
<1> DEFINE Job(op, todo) == [op |-> op, todo |-> todo, stamp |-> scriptRequests + 1, read |-> script,
                             sha |-> [b \in Beats |-> Scripted!UnitSHA(b)]]
<1>1. ASSUME NEW op \in OneBeat \cup {"Generate", "Replace"}, NEW todo \in SUBSET Beats,
             Scripted!Serve(t, op, todo), AskedOK(Job(op, todo))
      PROVE  \E j \in ScriptJobs :
              /\ scriptJob' = [scriptJob EXCEPT ![t] = j] /\ AskedOK(j) /\ j.read = script
              /\ scriptRequests' \in 0 .. MaxScriptRequests
              /\ UNCHANGED <<beat, scriptEditable, script, changes>>
  <2>1. Job(op, todo) \in ScriptJobs
    BY DEF ScriptJobs, DialogueInv, Scripted!UnitSHA
  <2>2. scriptJob' = [scriptJob EXCEPT ![t] = Job(op, todo)] /\ Job(op, todo).read = script
    BY <1>1 DEF Scripted!Serve
  <2>3. /\ scriptRequests' \in 0 .. MaxScriptRequests
        /\ UNCHANGED <<beat, scriptEditable, script, changes>>
    BY <1>1, ScriptedAssumption DEF Scripted!Serve, DialogueInv, Scripted!BoundsAssumption
  <2> HIDE DEF Job
  <2> QED  BY <1>1, <2>1, <2>2, <2>3
<1>2. ASSUME NEW b \in Beats, NEW op \in OneBeat, Scripted!Serve(t, op, {b}),
             op \in {"Approve", "Unapprove"} => Scripted!Stored(b),
             op = "Approve" => script[b].lines # {}
      PROVE  AskedOK(Job(op, {b}))
  BY <1>2 DEF AskedOK, OneBeat, Scripted!Stored
<1>3. CASE \E b \in Beats : Scripted!Edit(t, b) \/ Scripted!Redo(t, b) \/ Scripted!Approve(t, b)
                             \/ Scripted!Unapprove(t, b)
  <2>1. PICK b \in Beats, op \in OneBeat :
               /\ Scripted!Serve(t, op, {b})
               /\ op \in {"Approve", "Unapprove"} => Scripted!Stored(b)
               /\ op = "Approve" => script[b].lines # {}
    BY <1>3 DEF OneBeat, Scripted!Edit, Scripted!Redo, Scripted!Approve, Scripted!Unapprove
  <2> HIDE DEF Job
  <2> QED  BY <1>1, <1>2, <2>1
<1>4. CASE \E wanted \in {Beats} \cup {{b} : b \in Beats} : Scripted!Generate(t, wanted)
  <2>1. PICK wanted : Scripted!Serve(t, "Generate", Scripted!Unwritten(wanted))
    BY <1>4 DEF Scripted!Generate
  <2>2. /\ Scripted!Unwritten(wanted) \in SUBSET Beats
        /\ \A b \in Scripted!Unwritten(wanted) : script[b].lines = {}
    BY DEF Scripted!Unwritten, Scripted!InSheet
  <2>3. AskedOK(Job("Generate", Scripted!Unwritten(wanted)))
    BY <2>2 DEF AskedOK, OneBeat
  <2> HIDE DEF Job
  <2> QED  BY <1>1, <2>1, <2>2, <2>3
<1>5. CASE \E matching \in SUBSET Beats : Scripted!Replace(t, matching)
  <2>1. PICK matching \in SUBSET Beats : Scripted!Serve(t, "Replace", Scripted!Replaceable(matching))
    BY <1>5 DEF Scripted!Replace
  <2>2. /\ Scripted!Replaceable(matching) \in SUBSET Beats
        /\ \A b \in Scripted!Replaceable(matching) :
              script[b] # Scripted!NoScript /\ ~script[b].approved
    BY DEF Scripted!Replaceable, Scripted!Stored
  <2>3. AskedOK(Job("Replace", Scripted!Replaceable(matching)))
    BY <2>2 DEF AskedOK, OneBeat
  <2> HIDE DEF Job
  <2> QED  BY <1>1, <2>1, <2>2, <2>3
<1> QED  BY <1>3, <1>4, <1>5 DEF Scripted!Request

LEMMA DialogueInit == Scripted!Init => DialogueInv
<1>1. 1 \in 0 .. MaxVersions /\ 0 \in 0 .. MaxChanges /\ 0 \in 0 .. MaxScriptRequests
  BY ScriptedAssumption DEF Scripted!BoundsAssumption
<1> QED  BY <1>1 DEF Scripted!Init, DialogueInv, ScriptRows

\* The beats change, or the project is locked.
LEMMA SheetKeeps ==
    ASSUME DialogueInv,
           Scripted!Lock \/ \E b \in Beats : Scripted!ChangeBeat(b) \/ Scripted!ApproveBeat(b)
    PROVE  DialogueInv' /\ UNCHANGED <<script, scriptJob>>
<1>1. UNCHANGED <<script, scriptJob, scriptRequests>>
  BY DEF Scripted!Lock, Scripted!ChangeBeat, Scripted!ApproveBeat
<1>2. scriptEditable' \in BOOLEAN
  BY DEF Scripted!Lock, Scripted!ChangeBeat, Scripted!ApproveBeat, DialogueInv
<1>3. changes' \in 0 .. MaxChanges
  BY ScriptedAssumption DEF Scripted!Lock, Scripted!ChangeBeat, Scripted!ApproveBeat, DialogueInv,
         Scripted!BoundsAssumption
<1>4. beat' \in [Beats -> [version : 0 .. MaxVersions, approved : BOOLEAN]]
  <2>1. CASE Scripted!Lock
    BY <2>1 DEF Scripted!Lock, DialogueInv
  <2>2. ASSUME NEW b \in Beats, Scripted!ChangeBeat(b) \/ Scripted!ApproveBeat(b)
        PROVE  beat' \in [Beats -> [version : 0 .. MaxVersions, approved : BOOLEAN]]
    <3>1. beat \in [Beats -> [version : 0 .. MaxVersions, approved : BOOLEAN]]
      BY DEF DialogueInv
    <3>2. 0 \in 0 .. MaxVersions /\ 1 .. MaxVersions \subseteq 0 .. MaxVersions
      BY ScriptedAssumption DEF Scripted!BoundsAssumption
    <3>3. CASE \E v \in 1 .. MaxVersions : beat' = [beat EXCEPT ![b] = [version |-> v, approved |-> FALSE]]
      BY <3>1, <3>2, <3>3
    <3>4. CASE beat' = [beat EXCEPT ![b].version = 0]
      BY <3>1, <3>2, <3>4
    <3>5. CASE beat' = [beat EXCEPT ![b].approved = TRUE]
      BY <3>1, <3>5
    <3> QED  BY <2>2, <3>3, <3>4, <3>5 DEF Scripted!ChangeBeat, Scripted!ApproveBeat
  <2> QED  BY <2>1, <2>2
<1> QED  BY <1>1, <1>2, <1>3, <1>4 DEF DialogueInv

LEMMA DeleteKeeps ==
    ASSUME DialogueInv, NEW b \in Beats, Scripted!DeleteUnit(b)
    PROVE  DialogueInv'
<1>1. script' = [script EXCEPT ![b] = Scripted!NoScript]
  BY DEF Scripted!DeleteUnit, Scripted!saveScriptUnit
<1>2. script' \in [Beats -> ScriptRows]
  BY <1>1 DEF DialogueInv, ScriptRows
<1> QED  BY <1>2 DEF DialogueInv, Scripted!DeleteUnit

LEMMA RequestKeeps ==
    ASSUME DialogueInv, NEW t \in Threads, Scripted!Request(t) \/ Scripted!GiveUp(t)
    PROVE  DialogueInv'
<1>1. CASE Scripted!Request(t)
  <2>1. PICK j \in ScriptJobs :
               /\ scriptJob' = [scriptJob EXCEPT ![t] = j] /\ AskedOK(j) /\ j.read = script
               /\ scriptRequests' \in 0 .. MaxScriptRequests
               /\ UNCHANGED <<beat, scriptEditable, script, changes>>
    BY <1>1, RequestAsks
  <2> QED  BY <2>1 DEF DialogueInv
<1>2. CASE Scripted!GiveUp(t)
  BY <1>2 DEF Scripted!GiveUp, DialogueInv
<1> QED  BY <1>1, <1>2

LEMMA SavedKeeps ==
    ASSUME DialogueInv, NEW t \in Threads, ScriptSaved(t)
    PROVE  DialogueInv'
<1>1. PICK b \in scriptJob[t].todo, new \in Dialogues :
             Scripted!saveScript(t, b, new) /\ Written(scriptJob[t], b, new)
  BY DEF ScriptSaved
<1>2. /\ script' = [script EXCEPT ![b] = new] /\ new \in ScriptRows
      /\ UNCHANGED <<beat, scriptEditable, changes, scriptRequests>>
  BY <1>1 DEF Scripted!saveScript, Scripted!saveScriptUnit, Written, ScriptRows
<1>3. script' \in [Beats -> ScriptRows]
  BY <1>2 DEF DialogueInv
<1>4. \/ scriptJob' = [scriptJob EXCEPT ![t] = Scripted!Idle]
      \/ \E j \in ScriptJobs : scriptJob' = [scriptJob EXCEPT ![t] = j] /\ AskedOK(j)
  BY <1>1, SavedJob DEF ScriptSaved
<1> QED  BY <1>2, <1>3, <1>4 DEF DialogueInv

LEMMA DialogueStep == DialogueInv /\ [Scripted!Next]_(Scripted!vars) => DialogueInv'
<1> SUFFICES ASSUME DialogueInv, [Scripted!Next]_(Scripted!vars) PROVE DialogueInv'
  OBVIOUS
<1>1. CASE UNCHANGED Scripted!vars
  BY <1>1 DEF Scripted!vars, DialogueInv
<1>2. CASE Scripted!Lock \/ \E b \in Beats : Scripted!ChangeBeat(b) \/ Scripted!ApproveBeat(b)
  BY <1>2, SheetKeeps
<1>3. CASE \E b \in Beats : Scripted!DeleteUnit(b)
  BY <1>3, DeleteKeeps
<1>4. CASE \E t \in Threads : Scripted!Request(t) \/ Scripted!End(t)
  BY <1>4, EndSaves, RequestKeeps, SavedKeeps
<1> QED  BY <1>1, <1>2, <1>3, <1>4 DEF Scripted!Next

\* A dialogue has the shape of a row, its lines are numbered below the counter
\* and it is approved only with lines, however many serve requests at once.
THEOREM DialogueTypeCorrect == Scripted!Spec => []Scripted!TypeOK
<1>1. DialogueInv => Scripted!TypeOK
  <2> SUFFICES ASSUME DialogueInv PROVE Scripted!TypeOK
    OBVIOUS
  <2>1. ASSUME NEW b \in Beats, Scripted!Stored(b)
        PROVE  /\ script[b] \in Scripted!Script
               /\ \A n \in script[b].lines : n < script[b].nextSeq
               /\ script[b].approved => script[b].lines # {}
    BY <2>1 DEF DialogueInv, ScriptRows, Dialogues, Scripted!Stored
  <2>2. ASSUME NEW t \in Threads
        PROVE  scriptJob[t] = Scripted!Idle \/ scriptJob[t].todo \subseteq Beats
    BY DEF DialogueInv, ScriptJobs
  <2> QED  BY <2>1, <2>2 DEF DialogueInv, Scripted!TypeOK
<1> QED  BY <1>1, DialogueInit, DialogueStep, PTL DEF Scripted!Spec

-----------------------------------------------------------------------------
(* The dialogue, when the requests on it come one at a time.               *)

\* What a request read of a beat it has still to save is what is stored, unless
\* the beat was deleted meanwhile.
KeptInv ==
    \A t \in Threads : scriptJob[t] # Scripted!Idle =>
        \A b \in scriptJob[t].todo : script[b] \in {scriptJob[t].read[b], Scripted!NoScript}

LEMMA KeptStep ==
    ASSUME \E t : Threads = {t}, DialogueInv, KeptInv, [Scripted!Next]_(Scripted!vars)
    PROVE  KeptInv'
<1>1. PICK t : Threads = {t}
  OBVIOUS
<1>2. scriptJob \in [Threads -> ScriptJobs \cup {Scripted!Idle}] /\ script \in [Beats -> ScriptRows]
  BY DEF DialogueInv
<1>3. CASE UNCHANGED <<script, scriptJob>>
  BY <1>3 DEF KeptInv
<1>4. CASE \E b \in Beats : Scripted!DeleteUnit(b)
  <2>1. PICK b \in Beats : script' = [script EXCEPT ![b] = Scripted!NoScript] /\ UNCHANGED scriptJob
    BY <1>4 DEF Scripted!DeleteUnit, Scripted!saveScriptUnit
  <2>2. \A c : c \in Beats => script'[c] \in {script[c], Scripted!NoScript}
    BY <1>2, <2>1
  <2>3. ASSUME scriptJob[t] # Scripted!Idle PROVE scriptJob[t].todo \subseteq Beats
    BY <1>1, <1>2, <2>3 DEF ScriptJobs
  <2> QED  BY <1>1, <2>1, <2>2, <2>3 DEF KeptInv
<1>5. CASE Scripted!Request(t)
  <2>1. PICK j \in ScriptJobs :
               scriptJob' = [scriptJob EXCEPT ![t] = j] /\ j.read = script /\ UNCHANGED script
    BY <1>1, <1>5, RequestAsks
  <2> QED  BY <1>1, <1>2, <2>1 DEF KeptInv
<1>6. CASE Scripted!GiveUp(t)
  BY <1>1, <1>2, <1>6 DEF Scripted!GiveUp, KeptInv
<1>7. CASE ScriptSaved(t)
  <2>1. PICK b \in scriptJob[t].todo, new \in Dialogues :
               Scripted!saveScript(t, b, new) /\ Written(scriptJob[t], b, new)
    BY <1>7 DEF ScriptSaved
  <2>2. script' = [script EXCEPT ![b] = new]
    BY <2>1 DEF Scripted!saveScript, Scripted!saveScriptUnit
  <2>3. scriptJob[t] # Scripted!Idle
    BY <1>1, <1>7, JobUnderWay DEF ScriptSaved
  <2>4. CASE scriptJob' = [scriptJob EXCEPT ![t] = Scripted!Idle]
    BY <1>1, <1>2, <2>4 DEF KeptInv
  <2>5. ASSUME NEW j \in ScriptJobs, scriptJob' = [scriptJob EXCEPT ![t] = j],
               j.read = scriptJob[t].read, j.todo = scriptJob[t].todo \ {b}
        PROVE  KeptInv'
    <3>1. scriptJob'[t] = j
      BY <1>1, <1>2, <2>5
    <3>2. ASSUME NEW c \in j.todo PROVE script'[c] \in {j.read[c], Scripted!NoScript}
      BY <1>1, <1>2, <2>2, <2>3, <2>5, <3>2 DEF KeptInv
    <3> QED  BY <1>1, <3>1, <3>2 DEF KeptInv
  <2> QED  BY <1>1, <1>7, <2>1, <2>4, <2>5, SavedJob DEF ScriptSaved
<1> QED  BY <1>1, <1>3, <1>4, <1>5, <1>6, <1>7, SheetKeeps, EndSaves
         DEF Scripted!Next, Scripted!vars

\* One request at a time, and the rows it read still stored.
LEMMA DialogueAlways ==
    ASSUME \E t : Threads = {t}
    PROVE  Scripted!Spec => [](DialogueInv /\ KeptInv)
<1>1. Scripted!Init => KeptInv
  BY DEF Scripted!Init, KeptInv
<1>2. DialogueInv /\ KeptInv /\ [Scripted!Next]_(Scripted!vars) => KeptInv'
  BY KeptStep
<1> QED  BY <1>1, <1>2, DialogueInit, DialogueStep, PTL DEF Scripted!Spec

\* Where the dialogue of a beat changes, it was deleted with its beat, or a
\* request saved what it made of the row it had read, which is the one stored.
LEMMA WhoChanged ==
    ASSUME NEW t, Threads = {t}, DialogueInv, KeptInv, [Scripted!Next]_(Scripted!vars),
           NEW b \in Beats, script'[b] # script[b]
    PROVE  \/ b \notin Scripted!InSheet /\ script'[b] = Scripted!NoScript
           \/ /\ scriptJob[t] \in ScriptJobs /\ AskedOK(scriptJob[t])
              /\ b \in scriptJob[t].todo /\ Written(scriptJob[t], b, script'[b])
              /\ script[b] \in {scriptJob[t].read[b], Scripted!NoScript}
<1>1. script \in [Beats -> ScriptRows]
  BY DEF DialogueInv
<1>2. CASE \E c \in Beats : Scripted!DeleteUnit(c)
  <2>1. PICK c \in Beats : /\ script' = [script EXCEPT ![c] = Scripted!NoScript]
                           /\ c \notin Scripted!InSheet
    BY <1>2 DEF Scripted!DeleteUnit, Scripted!saveScriptUnit
  <2> QED  BY <1>1, <2>1
<1>3. CASE Scripted!Request(t) \/ Scripted!GiveUp(t)
  <2>1. UNCHANGED script
    BY <1>3, RequestAsks DEF Scripted!GiveUp
  <2> QED  BY <2>1
<1>4. CASE ScriptSaved(t)
  <2>1. PICK c \in scriptJob[t].todo, new \in Dialogues :
               Scripted!saveScript(t, c, new) /\ Written(scriptJob[t], c, new)
    BY <1>4 DEF ScriptSaved
  <2>2. script' = [script EXCEPT ![c] = new]
    BY <2>1 DEF Scripted!saveScript, Scripted!saveScriptUnit
  <2>3. c = b /\ script'[b] = new
    BY <1>1, <2>2
  <2>4. /\ scriptJob[t] \in ScriptJobs /\ AskedOK(scriptJob[t])
        /\ scriptJob[t] # Scripted!Idle
    BY <1>4, JobUnderWay DEF ScriptSaved
  <2> QED  BY <2>1, <2>3, <2>4 DEF KeptInv
<1> QED  BY <1>2, <1>3, <1>4, SheetKeeps, EndSaves DEF Scripted!Next, Scripted!vars

\* Nothing happens to approved dialogue but what the Creator asks of that
\* beat, and what the Creator wrote goes only when that beat is written again.
THEOREM DialogueSpared ==
    ASSUME \E t : Threads = {t}
    PROVE  Scripted!Spec => SparedDialogueStands
<1>1. PICK u : Threads = {u}
  OBVIOUS
<1> DEFINE ApprovedSpared(b) ==
              Scripted!Stored(b) /\ script[b].approved /\ script'[b] # script[b] =>
                 /\ \E t \in Threads : scriptJob[t].op \in {"Edit", "Redo", "Unapprove"}
                                        /\ scriptJob[t].todo = {b}
                 /\ ~script'[b].approved
           MineSpared(b) ==
              /\ Scripted!Stored(b) /\ script[b].mine /\ script[b].lines # {}
              /\ script'[b] = Scripted!NoScript \/ ~script'[b].mine
              => \E t \in Threads : scriptJob[t].op = "Redo" /\ scriptJob[t].todo = {b}
<1>2. ASSUME DialogueInv, KeptInv, [Scripted!Next]_(Scripted!vars), NEW b \in Scripted!InSheet
      PROVE  ApprovedSpared(b) /\ MineSpared(b)
  <2>1. b \in Beats
    BY DEF Scripted!InSheet
  <2>2. CASE script'[b] = script[b]
    BY <2>2 DEF Scripted!Stored
  <2>3. CASE script'[b] # script[b] /\ Scripted!Stored(b)
    <3> DEFINE j == scriptJob[u]
    <3>1. /\ j \in ScriptJobs /\ AskedOK(j) /\ b \in j.todo /\ Written(j, b, script'[b])
          /\ script[b] \in {j.read[b], Scripted!NoScript}
      BY <1>1, <1>2, <2>1, <2>3, WhoChanged
    <3>2. script[b] = j.read[b] /\ script[b] # Scripted!NoScript /\ script[b] \in Dialogues
      BY <2>1, <2>3, <3>1, <1>2 DEF Scripted!Stored, DialogueInv, ScriptRows
    <3>3. j.op \in OneBeat => j.todo = {b}
      BY <3>1 DEF AskedOK
    <3>4. script'[b] # Scripted!NoScript
      BY <3>1, DialogueIsRow DEF Written
    <3>5. j.op \in OneBeat \cup {"Generate", "Replace"}
      BY <3>1 DEF ScriptJobs
    <3> HIDE DEF j
    <3>6. j.op = "Generate" => script[b].lines = {}
      BY <3>1, <3>2 DEF AskedOK
    <3>7. j.op = "Replace" => ~script[b].approved
      BY <3>1, <3>2 DEF AskedOK
    <3>8. script[b].approved => script[b].lines # {}
      BY <3>2 DEF Dialogues
    <3>9. /\ j.op # "Approve" => ~script'[b].approved
          /\ j.op \in {"Edit", "Replace"} => script'[b].mine
          /\ j.op \in {"Approve", "Unapprove"} => script'[b].mine = script[b].mine
      BY <3>1, <3>2 DEF Written
    <3>10. j.op = "Approve" => ~script[b].approved
      BY <2>3, <3>1, <3>2 DEF Written
    <3>11. ASSUME script[b].approved PROVE j.op \in {"Edit", "Redo", "Unapprove"}
      BY <3>5, <3>6, <3>7, <3>8, <3>10, <3>11 DEF OneBeat
    <3>12. ASSUME script[b].mine, script[b].lines # {}, ~script'[b].mine PROVE j.op = "Redo"
      BY <3>5, <3>6, <3>9, <3>12 DEF OneBeat
    <3>13. ApprovedSpared(b)
      BY <1>1, <3>3, <3>9, <3>11 DEF OneBeat, j
    <3>14. MineSpared(b)
      BY <1>1, <3>3, <3>4, <3>12 DEF OneBeat, j
    <3> QED  BY <3>13, <3>14
  <2> QED  BY <2>2, <2>3 DEF Scripted!Stored
<1>3. DialogueInv /\ KeptInv /\ [Scripted!Next]_(Scripted!vars) =>
        [\A b \in Scripted!InSheet :
          /\ Scripted!Stored(b) /\ script[b].approved /\ script'[b] # script[b] =>
                /\ \E t \in Threads :
                      scriptJob[t].op \in {"Edit", "Redo", "Unapprove"} /\ scriptJob[t].todo = {b}
                /\ ~script'[b].approved
          /\ /\ Scripted!Stored(b) /\ script[b].mine /\ script[b].lines # {}
             /\ script'[b] = Scripted!NoScript \/ ~script'[b].mine
             => \E t \in Threads : scriptJob[t].op = "Redo" /\ scriptJob[t].todo = {b}]_(Scripted!vars)
  BY <1>2
<1>4. Scripted!Spec => [][Scripted!Next]_(Scripted!vars)
  BY PTL DEF Scripted!Spec
<1>5. Scripted!Spec => [](DialogueInv /\ KeptInv)
  BY DialogueAlways
<1> QED  BY <1>3, <1>4, <1>5, PTL DEF SparedDialogueStands, Scripted!SparedDialogueStands

\* A dialogue that reads as out of date goes on doing so until the model writes
\* it again or the beat gets that content back.
THEOREM DialogueStaleUntilRewritten ==
    ASSUME \E t : Threads = {t}
    PROVE  Scripted!Spec => StaleUntilRewritten
<1>1. PICK u : Threads = {u}
  OBVIOUS
<1> DEFINE StaysStale(b) ==
              Scripted!Stale(b) /\ beat'[b] = beat[b] /\ script'[b] # Scripted!NoScript
              => Scripted!Stale(b)' \/ \E t \in Threads : scriptJob[t].op \in {"Redo", "Generate"}
<1>2. ASSUME DialogueInv, KeptInv, [Scripted!Next]_(Scripted!vars), NEW b \in Beats
      PROVE  StaysStale(b)
  <2>1. CASE script'[b] = script[b]
    BY <2>1 DEF Scripted!Stale, Scripted!Stored, Scripted!UnitSHA
  <2>2. CASE script'[b] # script[b] /\ Scripted!Stale(b) /\ script'[b] # Scripted!NoScript
    <3>1. Written(scriptJob[u], b, script'[b]) /\ script[b] = scriptJob[u].read[b]
      BY <1>1, <1>2, <2>2, WhoChanged DEF Scripted!Stale, Scripted!Stored
    <3>2. CASE scriptJob[u].op \in {"Redo", "Generate"}
      BY <1>1, <3>2
    <3>3. CASE scriptJob[u].op \notin {"Redo", "Generate"}
      <4>1. script'[b].sha = script[b].sha
        BY <2>2, <3>1, <3>3 DEF Written, Scripted!Stale, Scripted!Stored
      <4> QED  BY <2>2, <4>1 DEF Scripted!Stale, Scripted!Stored, Scripted!UnitSHA
    <3> QED  BY <3>2, <3>3
  <2> QED  BY <2>1, <2>2
<1>3. DialogueInv /\ KeptInv /\ [Scripted!Next]_(Scripted!vars) =>
        [\A b \in Beats : StaysStale(b)]_(Scripted!vars)
  BY <1>2
<1>4. Scripted!Spec => [][Scripted!Next]_(Scripted!vars)
  BY PTL DEF Scripted!Spec
<1>5. Scripted!Spec => [](DialogueInv /\ KeptInv)
  BY DialogueAlways
<1> QED  BY <1>3, <1>4, <1>5, PTL DEF StaleUntilRewritten, Scripted!StaleUntilRewritten

-----------------------------------------------------------------------------
(* The rows of the projects, when requests do not overlap: the invariant.  *)

DraftStages == {"link", "save", "topic", "subject"}
CopyStages == {"fork", "forkedFrom", "topic", "models", "settings", "story", "board"}

Calls == [id : ProjectIds, src : ProjectIds \cup {None}, copy : Records!Row \cup {None},
          topic : Topics \cup {None}, from : {0} \cup Records!ForkSteps,
          todo : SUBSET (DraftStages \cup CopyStages)]

\* What a create or a fork under way may be.
CallShape(c) ==
    /\ c \in Calls
    /\ c.from = 0 => c.todo \subseteq DraftStages
    /\ c.from # 0 => /\ c.todo \subseteq CopyStages
                     /\ c.src \in ProjectIds \ {c.id} /\ c.copy \in Records!Row
    /\ "settings" \in c.todo => c.from >= 3
    /\ "story" \in c.todo => c.from >= 4
    /\ "board" \in c.todo => c.from >= 6
    /\ "story" \in c.todo /\ c.from >= 6 => "board" \in c.todo
    /\ "link" \in c.todo => "save" \in c.todo /\ c.src # None

\* Its own row is still to be written.
Unborn(c) == "save" \in c.todo \/ "fork" \in c.todo

At(id) == Records!AuthoredOf(id)

\* A copy is no further than the step it starts again from.
CopyStands(c) ==
    /\ rows[c.id] # None => rows[c.id].status = "draft" /\ (c.from = 2 => rows[c.id].step = 1)
    /\ ~At(c.id).code
    /\ c.from < 6 \/ "board" \in c.todo => At(c.id).board = 0
    /\ c.from < 4 => At(c.id).story = 0

\* What a create or a fork has read is as it read it until it is written.
CallStands(c) ==
    /\ Unborn(c) <=> rows[c.id] = None
    /\ Unborn(c) /\ c.src # None => c.src # c.id /\ rows[c.src] # None
    /\ "link" \in c.todo \/ "fork" \in c.todo => c.copy = rows[c.src]
    /\ "save" \in c.todo /\ "link" \notin c.todo /\ c.src # None => {c.id, c.src} \in linked
    /\ "board" \in c.todo /\ "story" \notin c.todo => At(c.id).story = At(c.src).story
    /\ c.from # 0 => CopyStands(c)

\* What stands in the rows, whatever is under way.
RowsBase ==
    /\ rows \in [ProjectIds -> Records!Row \cup {None}]
    /\ authored \in [ProjectIds -> Records!Authored \cup {None}]
    /\ chosen \in [ProjectIds -> Collected]
    /\ \A id \in ProjectIds : rows[id] = None => authored[id] = None
    /\ Records!SettingsAsChosen /\ Records!CompanionWasLinked
    /\ Records!MusicStays /\ Records!BoardOfStory

RowsInv ==
    /\ RowsBase
    /\ draftCall # None => CallShape(draftCall) /\ CallStands(draftCall)

\* No step is taken back.
StepsKept ==
    \A id \in ProjectIds : Records!There(id) /\ Records!There(id)' => rows'[id].step >= rows[id].step

\* A call goes on, or ends, with what it has read and done still so.
CallGoesOn ==
    \E rest \in Calls : /\ CallShape(rest) /\ CallStands(rest)'
                        /\ rest.id = draftCall.id /\ rest.from = draftCall.from
                        /\ draftCall' \in {None, rest}

-----------------------------------------------------------------------------
(* The rows: what is written.                                              *)

LEMMA RowIsNoNone ==
    None \notin Records!Row /\ None \notin Records!Authored /\ None \notin ProjectIds
BY RecordsAssumption DEF Records!ShapesAssumption, Records!NamesAssumption

\* One row is written.
LEMMA RowWritten ==
    ASSUME RowsBase, NEW id \in ProjectIds, NEW r \in Records!Row, rows' = [rows EXCEPT ![id] = r],
           UNCHANGED authored, chosen' \in [ProjectIds -> Collected],
           \A other \in ProjectIds \ {id} : chosen'[other] = chosen[other],
           r.settings = chosen'[id], linked \subseteq linked',
           r.companion # None => {id, r.companion} \in linked', r.music \in {None, id},
           rows[id] # None => r.step >= rows[id].step
    PROVE  RowsBase' /\ StepsKept
<1>1. /\ rows' \in [ProjectIds -> Records!Row \cup {None}] /\ rows'[id] = r
      /\ \A other \in ProjectIds \ {id} : rows'[other] = rows[other]
      /\ \A any \in ProjectIds : any # id => any \in ProjectIds \ {id}
  BY DEF RowsBase
<1>2. r # None
  BY RowIsNoNone
<1>3. \A any \in ProjectIds : rows'[any] = None => authored'[any] = None
  BY <1>1, <1>2 DEF RowsBase
<1>4. Records!SettingsAsChosen'
  BY <1>1 DEF RowsBase, Records!SettingsAsChosen, Records!There
<1>5. Records!CompanionWasLinked'
  BY <1>1 DEF RowsBase, Records!CompanionWasLinked, Records!There
<1>6. Records!MusicStays'
  BY <1>1 DEF RowsBase, Records!MusicStays, Records!There
<1>7. Records!BoardOfStory'
  BY DEF RowsBase, Records!BoardOfStory
<1>8. StepsKept
  <2>1. ASSUME NEW any \in ProjectIds, any # id, rows[any] # None PROVE rows'[any].step >= rows[any].step
    <3>1. rows'[any] = rows[any] /\ rows[any].step \in 1 .. 3
      BY <1>1, <2>1 DEF RowsBase, Records!Row
    <3> QED  BY <3>1
  <2> QED  BY <1>1, <2>1 DEF StepsKept, Records!There
<1> QED  BY <1>1, <1>3, <1>4, <1>5, <1>6, <1>7, <1>8 DEF RowsBase

\* The rows stay as they are.
LEMMA RowsStayed ==
    ASSUME RowsBase, UNCHANGED <<rows, chosen, linked>>,
           authored' \in [ProjectIds -> Records!Authored \cup {None}],
           \A id \in ProjectIds : rows[id] = None => authored'[id] = None,
           Records!BoardOfStory'
    PROVE  RowsBase' /\ StepsKept
<1>1. StepsKept
  <2>1. ASSUME NEW id \in ProjectIds, rows[id] # None PROVE rows[id].step >= rows[id].step
    <3>1. rows[id].step \in 1 .. 3
      BY <2>1 DEF RowsBase, Records!Row
    <3> QED  BY <3>1
  <2> QED  BY <2>1 DEF StepsKept, Records!There
<1>2. Records!SettingsAsChosen' /\ Records!CompanionWasLinked' /\ Records!MusicStays'
  BY DEF RowsBase, Records!SettingsAsChosen, Records!CompanionWasLinked, Records!MusicStays,
         Records!There
<1> QED  BY <1>1, <1>2 DEF RowsBase

\* What authoring-service holds of one project is written.
LEMMA AuthoredWritten ==
    ASSUME RowsBase, NEW id \in ProjectIds, rows[id] # None, NEW a \in Records!Authored,
           authored' = [authored EXCEPT ![id] = a], UNCHANGED <<rows, chosen, linked>>,
           a.board # 0 => a.board = a.story
    PROVE  RowsBase' /\ StepsKept
<1>1. /\ authored' \in [ProjectIds -> Records!Authored \cup {None}] /\ authored'[id] = a
      /\ \A other \in ProjectIds \ {id} : authored'[other] = authored[other]
      /\ \A any \in ProjectIds : any # id => any \in ProjectIds \ {id}
  BY DEF RowsBase
<1>2. \A any \in ProjectIds : rows[any] = None => authored'[any] = None
  BY <1>1 DEF RowsBase
<1>3. Records!BoardOfStory'
  BY <1>1 DEF RowsBase, Records!BoardOfStory
<1> QED  BY <1>1, <1>2, <1>3, RowsStayed

\* What authoring-service holds of a project, or would insert.
LEMMA AtIs ==
    ASSUME RowsBase, NEW id \in ProjectIds
    PROVE  At(id) \in Records!Authored /\ (At(id).board # 0 => At(id).board = At(id).story)
<1>1. Records!NewAuthored \in Records!Authored /\ Records!NewAuthored.board = 0
  BY RecordsAssumption DEF Records!NewAuthored, Records!Authored, Records!BoundsAssumption
<1> QED  BY <1>1 DEF At, RowsBase, Records!BoardOfStory, Records!AuthoredOf

\* What Save writes.
LEMMA SavedIs ==
    ASSUME RowsBase, NEW id \in ProjectIds, NEW r \in Records!Row
    PROVE  LET new == Records!Saved(id, r)
           IN  /\ new \in Records!Row
               /\ new.status = r.status /\ new.settings = r.settings /\ new.music = r.music
               /\ new.companion = r.companion
               /\ new.step = IF rows[id] # None THEN rows[id].step ELSE 1
<1>1. Records!NewRow(DefaultChoice) \in Records!Row /\ Records!NewRow(DefaultChoice).step = 1
  BY RecordsAssumption DEF Records!NewRow, Records!Row, Records!Statuses, Records!NamesAssumption
<1>2. PICK kept \in Records!Row : kept = IF rows[id] # None THEN rows[id] ELSE Records!NewRow(DefaultChoice)
  BY <1>1 DEF RowsBase
<1>3. Records!Saved(id, r) = [r EXCEPT !.step = kept.step, !.subject = kept.subject, !.forked = kept.forked]
  BY <1>2 DEF Records!Saved, Records!There
<1>4. kept.step = IF rows[id] # None THEN rows[id].step ELSE 1
  BY <1>1, <1>2
<1> QED  BY <1>3, <1>4 DEF Records!Row

-----------------------------------------------------------------------------
(* The rows: the steps that no call is under way for.                      *)

LEMMA PatchesKeep ==
    ASSUME RowsBase, NEW id \in ProjectIds,
           \/ \E settings \in Collected, step \in {1, 3} : Records!PatchSettings(id, settings, step)
           \/ \E music \in ProjectIds \cup {None} : Records!PatchMusic(id, music)
           \/ Records!UpdateStatus(id)
           \/ Records!BeginDelete(id)
    PROVE  RowsBase' /\ StepsKept
<1>1. rows[id] # None
  BY DEF Records!PatchSettings, Records!PatchMusic, Records!UpdateStatus, Records!BeginDelete,
         Records!Editable, Records!There
<1>2. /\ rows[id] \in Records!Row /\ rows[id].settings = chosen[id]
      /\ rows[id].companion # None => {id, rows[id].companion} \in linked
      /\ rows[id].music \in {None, id} /\ rows[id].step \in 1 .. 3
  BY <1>1 DEF RowsBase, Records!SettingsAsChosen, Records!CompanionWasLinked, Records!MusicStays,
              Records!There, Records!Row
<1>3. ASSUME NEW settings \in Collected, NEW step \in {1, 3}, Records!PatchSettings(id, settings, step)
      PROVE  RowsBase' /\ StepsKept
  <2>1. PICK next \in 1 .. 3 : next = IF step > rows[id].step THEN step ELSE rows[id].step
    BY <1>2
  <2>2. PICK r : r = [rows[id] EXCEPT !.settings = settings, !.step = next]
    OBVIOUS
  <2>3. /\ r \in Records!Row /\ r.settings = settings /\ r.step = next
        /\ r.companion = rows[id].companion /\ r.music = rows[id].music
    BY <1>2, <2>2 DEF Records!Row
  <2>4. rows' = [rows EXCEPT ![id] = r]
    BY <1>3, <2>1, <2>2 DEF Records!PatchSettings
  <2>5. next >= rows[id].step
    BY <1>2, <2>1
  <2>6. /\ chosen' = [chosen EXCEPT ![id] = settings] /\ UNCHANGED <<authored, linked>>
        /\ chosen \in [ProjectIds -> Collected]
    BY <1>3 DEF Records!PatchSettings, RowsBase
  <2> QED  BY <1>2, <2>3, <2>4, <2>5, <2>6, RowWritten
<1>4. ASSUME NEW r \in Records!Row, rows' = [rows EXCEPT ![id] = r],
             UNCHANGED <<authored, chosen, linked>>,
             r.settings = rows[id].settings, r.companion = rows[id].companion,
             r.music \in {None, id}, r.step = rows[id].step
      PROVE  RowsBase' /\ StepsKept
  <2>1. chosen' \in [ProjectIds -> Collected]
    BY <1>4 DEF RowsBase
  <2>2. r.step >= rows[id].step
    BY <1>2, <1>4
  <2> QED  BY <1>2, <1>4, <2>1, <2>2, RowWritten
<1>5. ASSUME NEW music \in ProjectIds \cup {None}, Records!PatchMusic(id, music)
      PROVE  RowsBase' /\ StepsKept
  <2>1. PICK r : r = [rows[id] EXCEPT !.music = music]
    OBVIOUS
  <2>2. /\ r \in Records!Row /\ r.settings = rows[id].settings /\ r.step = rows[id].step
        /\ r.companion = rows[id].companion /\ r.music = music
    BY <1>2, <2>1 DEF Records!Row
  <2>3. rows' = [rows EXCEPT ![id] = r] /\ music \in {None, id} /\ UNCHANGED <<authored, chosen, linked>>
    BY <1>5, <2>1 DEF Records!PatchMusic
  <2> QED  BY <1>4, <2>2, <2>3
<1>6. ASSUME NEW status \in Records!Statuses, rows' = [rows EXCEPT ![id].status = status],
             UNCHANGED <<authored, chosen, linked>>
      PROVE  RowsBase' /\ StepsKept
  <2>1. PICK r : r = [rows[id] EXCEPT !.status = status]
    OBVIOUS
  <2>2. /\ r \in Records!Row /\ r.settings = rows[id].settings /\ r.step = rows[id].step
        /\ r.companion = rows[id].companion /\ r.music = rows[id].music
    BY <1>2, <2>1 DEF Records!Row
  <2> QED  BY <1>2, <1>4, <1>6, <2>1, <2>2
<1>7. CASE Records!UpdateStatus(id) \/ Records!BeginDelete(id)
  <2>1. PICK status \in Records!Statuses : /\ rows' = [rows EXCEPT ![id].status = status]
                                          /\ UNCHANGED <<authored, chosen, linked>>
    BY <1>7 DEF Records!UpdateStatus, Records!BeginDelete, Records!Statuses
  <2> QED  BY <1>6, <2>1
<1> QED  BY <1>3, <1>5, <1>7

LEMMA DeletedKeeps ==
    ASSUME RowsBase, NEW id \in ProjectIds, Records!Delete(id)
    PROVE  RowsBase' /\ StepsKept
<1>1. /\ rows' = [rows EXCEPT ![id] = None] /\ authored' = [authored EXCEPT ![id] = None]
      /\ UNCHANGED <<chosen, linked>>
  BY DEF Records!Delete
<1>2. /\ rows' \in [ProjectIds -> Records!Row \cup {None}]
      /\ authored' \in [ProjectIds -> Records!Authored \cup {None}]
      /\ rows'[id] = None /\ authored'[id] = None
      /\ \A any \in ProjectIds : any # id => rows'[any] = rows[any] /\ authored'[any] = authored[any]
  BY <1>1 DEF RowsBase
<1>3. \A any \in ProjectIds : rows'[any] = None => authored'[any] = None
  BY <1>2 DEF RowsBase
<1>4. Records!SettingsAsChosen'
  BY <1>1, <1>2 DEF RowsBase, Records!SettingsAsChosen, Records!There
<1>5. Records!CompanionWasLinked' /\ Records!MusicStays'
  BY <1>1, <1>2 DEF RowsBase, Records!CompanionWasLinked, Records!MusicStays, Records!There
<1>6. Records!BoardOfStory'
  BY <1>2 DEF RowsBase, Records!BoardOfStory
<1>7. StepsKept
  <2>1. ASSUME NEW any \in ProjectIds, rows'[any] # None, rows[any] # None
        PROVE  rows'[any].step >= rows[any].step
    <3>1. rows'[any] = rows[any] /\ rows[any].step \in 1 .. 3
      BY <1>2, <2>1 DEF RowsBase, Records!Row
    <3> QED  BY <3>1
  <2> QED  BY <2>1 DEF StepsKept, Records!There
<1> QED  BY <1>1, <1>2, <1>3, <1>4, <1>5, <1>6, <1>7 DEF RowsBase

\* A start writes its own row, and the link into the one it names.
LEMMA StartedKeeps ==
    ASSUME RowsBase, NEW id \in ProjectIds, NEW settings \in Collected,
           NEW companion \in ProjectIds \cup {None}, Records!StartRender(id, settings, companion)
    PROVE  RowsBase' /\ StepsKept
<1>1. /\ rows[id] # None /\ companion # id /\ (companion # None => rows[companion] # None)
      /\ chosen' = [chosen EXCEPT ![id] = settings] /\ UNCHANGED authored
      /\ linked \subseteq linked' /\ (companion # None => {id, companion} \in linked')
  BY DEF Records!StartRender, Records!There
<1>2. PICK sent : sent = [Records!NewRow(settings) EXCEPT !.status = "in_flight",
                                !.music = rows[id].music, !.companion = companion]
  OBVIOUS
<1>3. rows[id] \in Records!Row /\ rows[id].music \in {None, id} /\ rows[id].step \in 1 .. 3
  BY <1>1 DEF RowsBase, Records!MusicStays, Records!There, Records!Row
<1>4. /\ sent \in Records!Row /\ sent.settings = settings /\ sent.companion = companion
      /\ sent.music = rows[id].music
  <2>1. sent = [status |-> "in_flight", step |-> 1, settings |-> settings, subject |-> None,
                 music |-> rows[id].music, companion |-> companion, forked |-> None]
    BY <1>2 DEF Records!NewRow
  <2>2. rows[id].music \in ProjectIds \cup {None}
    BY <1>3
  <2>3. sent \in Records!Row
    BY <2>1, <2>2 DEF Records!Row, Records!Statuses
  <2> QED  BY <2>1, <2>3
<1>5. PICK new \in Records!Row : /\ new = Records!Saved(id, sent) /\ new.settings = settings
                                /\ new.companion = companion /\ new.music = rows[id].music
                                /\ new.step = rows[id].step
  BY <1>1, <1>4, SavedIs
<1>6. rows' = [i \in ProjectIds |-> IF i = id THEN new
                 ELSE IF i = companion THEN [rows[i] EXCEPT !.companion = id] ELSE rows[i]]
  BY <1>2, <1>5 DEF Records!StartRender
<1>7. ASSUME NEW i \in ProjectIds, i # id, i = companion
      PROVE  /\ rows[i] \in Records!Row /\ rows'[i] \in Records!Row /\ rows'[i].settings = rows[i].settings
             /\ rows'[i].companion = id /\ rows'[i].music = rows[i].music
             /\ rows'[i].step = rows[i].step /\ rows[i].step \in 1 .. 3 /\ rows[i] # None
  <2>1. rows[i] \in Records!Row /\ rows[i] # None
    BY <1>1, <1>7, RowIsNoNone DEF RowsBase
  <2>2. rows'[i] = [rows[i] EXCEPT !.companion = id]
    BY <1>6, <1>7
  <2> QED  BY <2>1, <2>2 DEF Records!Row
<1>8. /\ rows'[id] = new
      /\ \A i \in ProjectIds : i # id /\ i # companion => rows'[i] = rows[i]
  BY <1>6
<1>9. rows' \in [ProjectIds -> Records!Row \cup {None}]
  <2>1. \A i \in ProjectIds : rows'[i] \in Records!Row \cup {None}
    BY <1>7, <1>8 DEF RowsBase
  <2>2. rows' = [i \in ProjectIds |-> rows'[i]]
    BY <1>6
  <2> QED  BY <2>1, <2>2
<1>10. chosen' \in [ProjectIds -> Collected] /\ chosen'[id] = settings
       /\ \A i \in ProjectIds : i # id => chosen'[i] = chosen[i]
  BY <1>1 DEF RowsBase
<1>11. \A i \in ProjectIds : rows'[i] = None => authored'[i] = None
  BY <1>1, <1>5, <1>7, <1>8, RowIsNoNone DEF RowsBase
<1>12. Records!SettingsAsChosen'
  BY <1>5, <1>7, <1>8, <1>10 DEF RowsBase, Records!SettingsAsChosen, Records!There
<1>13. Records!CompanionWasLinked'
  <2>1. ASSUME NEW i \in ProjectIds, rows'[i] # None, rows'[i].companion # None
        PROVE  {i, rows'[i].companion} \in linked'
    <3>1. CASE i = id
      BY <1>1, <1>5, <1>8, <2>1, <3>1
    <3>2. CASE i # id /\ i = companion
      <4>1. rows'[i].companion = id /\ {id, companion} \in linked'
        BY <1>1, <1>7, <3>2, RowIsNoNone
      <4>2. {i, id} = {id, companion}
        BY <3>2
      <4> QED  BY <4>1, <4>2
    <3>3. CASE i # id /\ i # companion
      BY <1>1, <1>8, <2>1, <3>3 DEF RowsBase, Records!CompanionWasLinked, Records!There
    <3> QED  BY <3>1, <3>2, <3>3
  <2> QED  BY <2>1 DEF Records!CompanionWasLinked, Records!There
<1>14. Records!MusicStays'
  BY <1>3, <1>5, <1>7, <1>8 DEF RowsBase, Records!MusicStays, Records!There
<1>15. Records!BoardOfStory'
  BY <1>1 DEF RowsBase, Records!BoardOfStory
<1>16. StepsKept
  <2>1. ASSUME NEW i \in ProjectIds, rows[i] # None PROVE rows'[i].step >= rows[i].step
    <3>1. rows[i].step \in 1 .. 3
      BY <2>1 DEF RowsBase, Records!Row
    <3>2. rows'[i].step = rows[i].step
      BY <1>5, <1>7, <1>8
    <3> QED  BY <3>1, <3>2
  <2> QED  BY <2>1 DEF StepsKept, Records!There
<1> QED  BY <1>1, <1>9, <1>10, <1>11, <1>12, <1>13, <1>14, <1>15, <1>16 DEF RowsBase

\* The steps of the authoring pages.
LEMMA AuthoringKeeps ==
    ASSUME RowsBase, NEW id \in ProjectIds,
           \/ \E telling \in 1 .. MaxVersionsOfStory : Records!SaveAuthoringStory(id, telling)
           \/ \E rewritten \in BOOLEAN : Records!SaveAuthoringStoryboard(id, rewritten)
           \/ Records!SaveAuthoringCode(id)
           \/ Records!Approves(id)
    PROVE  RowsBase' /\ StepsKept
<1> DEFINE a == At(id)
<1>1. a \in Records!Authored /\ (a.board # 0 => a.board = a.story)
  BY AtIs
<1>2. rows[id] # None /\ UNCHANGED <<rows, chosen, linked>>
  BY DEF Records!SaveAuthoringStory, Records!SaveAuthoringStoryboard, Records!SaveAuthoringCode,
         Records!Approves, Records!Editable, Records!There
<1>3. PICK old \in Records!Authored : old = a
  BY <1>1
<1> HIDE DEF a
<1>4. ASSUME NEW new \in Records!Authored, authored' = [authored EXCEPT ![id] = new],
             new.board # 0 => new.board = new.story
      PROVE  RowsBase' /\ StepsKept
  BY <1>2, <1>4, AuthoredWritten
<1>5. ASSUME NEW telling \in 1 .. MaxVersionsOfStory, Records!SaveAuthoringStory(id, telling)
      PROVE  RowsBase' /\ StepsKept
  <2>1. PICK new : new = IF telling = old.story THEN old
                         ELSE [old EXCEPT !.story = telling, !.board = 0, !.code = FALSE]
    OBVIOUS
  <2>2. telling \in 0 .. MaxVersionsOfStory /\ 0 \in 0 .. MaxVersionsOfStory
    BY RecordsAssumption DEF Records!BoundsAssumption
  <2>3. new \in Records!Authored /\ (new.board # 0 => new.board = new.story)
    BY <1>1, <1>3, <2>1, <2>2 DEF Records!Authored
  <2>4. authored' = [authored EXCEPT ![id] = new]
    BY <1>3, <1>5, <2>1 DEF Records!SaveAuthoringStory, Records!SaveAuthored,
                            Records!ClearAfterStory, Records!Authored, a, At
  <2> QED  BY <1>4, <2>3, <2>4
<1>6. ASSUME NEW rewritten \in BOOLEAN, Records!SaveAuthoringStoryboard(id, rewritten)
      PROVE  RowsBase' /\ StepsKept
  <2>1. PICK new : new = [old EXCEPT !.board = old.story,
                                     !.code = old.code /\ old.board = old.story /\ ~rewritten]
    OBVIOUS
  <2>2. new \in Records!Authored /\ new.board = new.story
    BY <2>1 DEF Records!Authored
  <2>3. authored' = [authored EXCEPT ![id] = new]
    BY <1>3, <1>6, <2>1 DEF Records!SaveAuthoringStoryboard, Records!SaveAuthored, a, At
  <2> QED  BY <1>4, <2>2, <2>3
<1>7. CASE Records!SaveAuthoringCode(id)
  <2>1. PICK new : new = [old EXCEPT !.code = TRUE]
    OBVIOUS
  <2>2. new \in Records!Authored /\ new.board = old.board /\ new.story = old.story
    BY <2>1 DEF Records!Authored
  <2>3. authored' = [authored EXCEPT ![id] = new]
    BY <1>3, <1>7, <2>1 DEF Records!SaveAuthoringCode, Records!SaveAuthored, a, At
  <2> QED  BY <1>1, <1>3, <1>4, <2>2, <2>3
<1>8. CASE Records!Approves(id)
  <2>1. authored[id] # None /\ old = authored[id]
    BY <1>3, <1>8 DEF Records!Approves, Records!AuthoredOf, a, At
  <2>2. PICK new : /\ new \in {[old EXCEPT !.drawn = TRUE], [old EXCEPT !.brief = TRUE]}
                   /\ authored' = [authored EXCEPT ![id] = new]
    BY <1>8, <2>1 DEF Records!Approves, Records!SaveAuthored
  <2>3. new \in Records!Authored /\ new.board = old.board /\ new.story = old.story
    BY <2>2 DEF Records!Authored
  <2> QED  BY <1>1, <1>3, <1>4, <2>2, <2>3
<1> QED  BY <1>5, <1>6, <1>7, <1>8

-----------------------------------------------------------------------------
(* The rows: a create or a fork is begun.                                  *)

LEMMA OpensKeep ==
    ASSUME RowsBase, NEW id \in ProjectIds, NEW topic \in Topics \cup {None},
           \/ \E long \in ProjectIds \cup {None} : Records!CreateDraft(id, long, topic)
           \/ Records!UpdateProjectTopic(id, topic)
    PROVE  /\ UNCHANGED <<rows, authored, chosen, linked>>
           /\ CallShape(draftCall') /\ CallStands(draftCall')
<1>1. PICK long \in ProjectIds \cup {None}, todo \in SUBSET DraftStages :
             /\ UNCHANGED <<rows, authored, chosen, linked>>
             /\ draftCall' = [id |-> id, src |-> long,
                              copy |-> IF long = None THEN None ELSE rows[long],
                              topic |-> topic, from |-> 0, todo |-> todo]
             /\ long # None => rows[long] # None
             /\ "save" \in todo <=> rows[id] = None
             /\ "link" \in todo <=> rows[id] = None /\ long # None
  <2>1. /\ Records!topicStages(topic) \subseteq {"topic", "subject"}
        /\ "save" \notin Records!topicStages(topic) /\ "link" \notin Records!topicStages(topic)
    BY DEF Records!topicStages
  <2>2. CASE \E long \in ProjectIds \cup {None} : Records!CreateDraft(id, long, topic)
    <3>1. PICK long \in ProjectIds \cup {None} : Records!CreateDraft(id, long, topic)
      BY <2>2
    <3>2. PICK todo : todo = Records!Stages(id, long, topic)
      OBVIOUS
    <3>3. /\ todo \in SUBSET DraftStages
          /\ "save" \in todo <=> rows[id] = None
          /\ "link" \in todo <=> rows[id] = None /\ long # None
      BY <2>1, <3>2 DEF Records!Stages, Records!There, DraftStages
    <3>4. /\ UNCHANGED <<rows, authored, chosen, linked>>
          /\ draftCall' = [id |-> id, src |-> long,
                           copy |-> IF long = None THEN None ELSE rows[long],
                           topic |-> topic, from |-> 0, todo |-> todo]
          /\ long # None => rows[long] # None
      BY <3>1, <3>2 DEF Records!CreateDraft, Records!Opens, Records!There
    <3> QED  BY <3>3, <3>4
  <2>3. CASE Records!UpdateProjectTopic(id, topic)
    <3>1. /\ UNCHANGED <<rows, authored, chosen, linked>> /\ rows[id] # None
          /\ draftCall' = [id |-> id, src |-> None, copy |-> IF None = None THEN None ELSE rows[None],
                           topic |-> topic, from |-> 0, todo |-> Records!topicStages(topic)]
      BY <2>3 DEF Records!UpdateProjectTopic, Records!Opens, Records!Editable, Records!There
    <3>2. Records!topicStages(topic) \in SUBSET DraftStages
      BY <2>1 DEF DraftStages
    <3> QED  BY <2>1, <3>1, <3>2
  <2> QED  BY <2>2, <2>3
<1>2. (IF long = None THEN None ELSE rows[long]) \in Records!Row \cup {None}
  BY DEF RowsBase
<1>3. todo \in SUBSET (DraftStages \cup CopyStages) /\ 0 \in {0} \cup Records!ForkSteps
  BY <1>1
<1>4. draftCall' \in Calls
  BY <1>1, <1>2, <1>3 DEF Calls
<1>5. CallShape(draftCall')
  BY <1>1, <1>4 DEF CallShape, DraftStages
<1>6. CallStands(draftCall')
  <2>1. "fork" \notin todo /\ "board" \notin todo
    BY <1>1 DEF DraftStages
  <2>2. "save" \in todo /\ long # None => id # long
    BY <1>1
  <2> QED  BY <1>1, <2>1, <2>2 DEF CallStands, Unborn
<1> QED  BY <1>1, <1>5, <1>6

LEMMA ForkKeeps ==
    ASSUME RowsBase, NEW src \in ProjectIds, NEW id \in ProjectIds, NEW from \in Records!ForkSteps,
           Records!Fork(src, id, from)
    PROVE  /\ UNCHANGED <<rows, authored, chosen, linked>>
           /\ CallShape(draftCall') /\ CallStands(draftCall')
<1>1. PICK topic : topic = At(src).topic
  OBVIOUS
<1>2. /\ UNCHANGED <<rows, authored, chosen, linked>> /\ rows[src] # None /\ rows[id] = None
      /\ draftCall' = [id |-> id, src |-> src, copy |-> rows[src], topic |-> topic, from |-> from,
                       todo |-> Records!forkStages(topic, from)]
  BY <1>1 DEF Records!Fork, Records!There, At
<1>3. topic \in Topics \cup {None}
  BY <1>1, AtIs DEF Records!Authored
<1>4. PICK todo : todo = Records!forkStages(topic, from)
  OBVIOUS
<1>5. /\ todo \subseteq CopyStages /\ "fork" \in todo
      /\ "settings" \in todo => from >= 3
      /\ "story" \in todo <=> from >= 4
      /\ "board" \in todo <=> from >= 6
      /\ "link" \notin todo /\ "save" \notin todo
  BY <1>4 DEF Records!forkStages, Records!ForkSteps, CopyStages
<1>6. from # 0 /\ (from >= 6 => from >= 4)
  BY DEF Records!ForkSteps
<1>7. rows[src] \in Records!Row /\ src # id
  BY <1>2 DEF RowsBase
<1>8. CallShape(draftCall')
  BY <1>2, <1>3, <1>4, <1>5, <1>6, <1>7 DEF CallShape, Calls
<1>9. CallStands(draftCall')
  <2>1. At(id) = Records!NewAuthored
    BY <1>2 DEF RowsBase, At, Records!AuthoredOf
  <2>2. CopyStands(draftCall')
    BY <1>2, <2>1 DEF CopyStands, Records!NewAuthored
  <2> QED  BY <1>2, <1>4, <1>5, <1>6, <1>7, <2>2 DEF CallStands, Unborn
<1> QED  BY <1>2, <1>8, <1>9

-----------------------------------------------------------------------------
(* The rows: the stages of a call.                                         *)

\* The stage that comes next is the first of those left.
LEMMA StageFirst ==
    ASSUME NEW name \in DraftStages \cup CopyStages, Records!Stage(name),
           draftCall # None => CallShape(draftCall)
    PROVE  /\ draftCall # None /\ CallShape(draftCall) /\ name \in draftCall.todo
           /\ name # "link" => "link" \notin draftCall.todo
           /\ name \notin {"link", "save"} => "save" \notin draftCall.todo
           /\ name \notin {"link", "save", "fork"} => "fork" \notin draftCall.todo
           /\ name = "board" => "story" \notin draftCall.todo
<1>1. /\ draftCall # None /\ name \in draftCall.todo
      /\ \A other \in draftCall.todo : Records!Order[name] <= Records!Order[other]
  BY DEF Records!Stage
<1> QED  BY <1>1 DEF Records!Order, DraftStages, CopyStages

\* What is left of a call.
LEMMA RestIs ==
    ASSUME NEW name, draftCall # None, CallShape(draftCall), name \in draftCall.todo,
           name = "save" => "link" \notin draftCall.todo,
           name = "board" => "story" \notin draftCall.todo, NEW next, next = Records!Goes(name)
    PROVE  \E rest \in Calls :
              /\ CallShape(rest) /\ next \in {None, rest}
              /\ rest.todo = draftCall.todo \ {name}
              /\ rest.id = draftCall.id /\ rest.src = draftCall.src /\ rest.copy = draftCall.copy
              /\ rest.from = draftCall.from
<1>1. PICK c \in Calls : c = draftCall
  BY DEF CallShape
<1>2. PICK rest : rest = [c EXCEPT !.todo = c.todo \ {name}]
  OBVIOUS
<1>3. /\ rest \in Calls /\ rest.todo = c.todo \ {name} /\ rest.id = c.id /\ rest.src = c.src
      /\ rest.copy = c.copy /\ rest.from = c.from
  BY <1>2 DEF Calls
<1>4. CallShape(rest)
  BY <1>1, <1>3 DEF CallShape
<1>5. next \in {None, rest}
  BY <1>1, <1>2 DEF Records!Goes
<1> QED  BY <1>1, <1>3, <1>4, <1>5

\* A draft's row, or its long video's link, is written.
LEMMA DraftSaved ==
    ASSUME RowsInv, Records!makeShortOf \/ Records!SaveDraft
    PROVE  RowsBase' /\ StepsKept /\ CallGoesOn
<1> DEFINE c == draftCall
<1>1. CASE Records!makeShortOf
  <2>1. /\ c # None /\ CallShape(c) /\ CallStands(c) /\ "link" \in c.todo
    BY <1>1, StageFirst DEF Records!makeShortOf, RowsInv, DraftStages
  <2>2. /\ c.src \in ProjectIds /\ c.id \in ProjectIds /\ "save" \in c.todo /\ c.src # c.id
        /\ rows[c.src] # None /\ c.copy = rows[c.src] /\ rows[c.id] = None /\ c.from = 0
    BY <2>1, RowIsNoNone DEF CallShape, CallStands, Calls, Unborn, CopyStages
  <2>3. c.copy \in Records!Row
    BY <2>2 DEF RowsInv, RowsBase
  <2>4. PICK sent : sent = [c.copy EXCEPT !.companion = c.id]
    OBVIOUS
  <2>5. /\ sent \in Records!Row /\ sent.companion = c.id /\ sent.settings = c.copy.settings
        /\ sent.music = c.copy.music
    BY <2>2, <2>3, <2>4 DEF Records!Row
  <2>6. PICK new \in Records!Row :
               /\ new = Records!Saved(c.src, sent) /\ new.settings = sent.settings
               /\ new.companion = c.id /\ new.music = sent.music /\ new.step = rows[c.src].step
    BY <2>2, <2>5, SavedIs DEF RowsInv
  <2>7. /\ rows' = [rows EXCEPT ![c.src] = new] /\ UNCHANGED <<authored, chosen>>
        /\ linked' = linked \cup {{c.id, c.src}}
    BY <1>1, <2>4, <2>6 DEF Records!makeShortOf, Records!Save
  <2>8. /\ rows[c.src].settings = chosen[c.src] /\ rows[c.src].music \in {None, c.src}
        /\ new.step >= rows[c.src].step /\ {c.src, c.id} \in linked'
    <3>1. rows[c.src].step \in 1 .. 3
      BY <2>2, <2>3 DEF Records!Row
    <3>2. {c.src, c.id} = {c.id, c.src}
      OBVIOUS
    <3> QED  BY <2>2, <2>6, <2>7, <3>1, <3>2
             DEF RowsInv, RowsBase, Records!SettingsAsChosen, Records!MusicStays, Records!There
  <2>9. RowsBase' /\ StepsKept
    <3>1. chosen' \in [ProjectIds -> Collected] /\ chosen'[c.src] = rows[c.src].settings
          /\ \A other \in ProjectIds \ {c.src} : chosen'[other] = chosen[other]
      BY <2>7, <2>8 DEF RowsInv, RowsBase
    <3>2. /\ new.settings = chosen'[c.src] /\ new.music \in {None, c.src}
          /\ {c.src, new.companion} \in linked'
      BY <2>2, <2>5, <2>6, <2>8, <3>1
    <3> QED  BY <2>2, <2>6, <2>7, <2>8, <3>1, <3>2, RowWritten DEF RowsInv
  <2>10. PICK rest \in Calls :
              /\ CallShape(rest) /\ draftCall' \in {None, rest} /\ rest.todo = c.todo \ {"link"}
              /\ rest.id = c.id /\ rest.src = c.src /\ rest.copy = c.copy /\ rest.from = c.from
    BY <1>1, <2>1, RestIs DEF Records!makeShortOf, Records!Done
  <2>11. rows'[c.id] = None /\ rows'[c.src] # None
    BY <2>2, <2>6, <2>7, RowIsNoNone DEF RowsInv, RowsBase
  <2>12. "fork" \notin rest.todo /\ "board" \notin rest.todo /\ "save" \in rest.todo
         /\ "link" \notin rest.todo
    BY <2>1, <2>2, <2>10 DEF CallShape, DraftStages
  <2>13. CallStands(rest)'
    BY <2>2, <2>7, <2>10, <2>11, <2>12 DEF CallStands, Unborn
  <2> QED  BY <2>9, <2>10, <2>13 DEF CallGoesOn
<1>2. CASE Records!SaveDraft
  <2>1. /\ c # None /\ CallShape(c) /\ CallStands(c) /\ "save" \in c.todo /\ "link" \notin c.todo
    BY <1>2, StageFirst DEF Records!SaveDraft, RowsInv, DraftStages
  <2>2. /\ c.id \in ProjectIds /\ c.src \in ProjectIds \cup {None} /\ rows[c.id] = None /\ c.from = 0
        /\ c.src # None => {c.id, c.src} \in linked
    BY <2>1 DEF CallShape, CallStands, Calls, Unborn, CopyStages
  <2>3. PICK settings \in Collected : settings = IF c.src = None THEN DefaultChoice ELSE ShortChoice
    BY RecordsAssumption DEF Records!NamesAssumption
  <2>4. PICK sent : sent = [Records!NewRow(settings) EXCEPT !.companion = c.src]
    OBVIOUS
  <2>5. /\ sent \in Records!Row /\ sent.companion = c.src /\ sent.settings = settings
        /\ sent.music = None
    <3>1. sent = [status |-> "draft", step |-> 1, settings |-> settings, subject |-> None,
                  music |-> None, companion |-> c.src, forked |-> None]
      BY <2>4 DEF Records!NewRow
    <3> QED  BY <2>2, <3>1 DEF Records!Row, Records!Statuses
  <2>6. PICK new \in Records!Row :
               /\ new = Records!Saved(c.id, sent) /\ new.settings = settings
               /\ new.companion = c.src /\ new.music = None
    BY <2>2, <2>5, SavedIs DEF RowsInv
  <2>7. /\ rows' = [rows EXCEPT ![c.id] = new] /\ UNCHANGED <<authored, linked>>
        /\ chosen' = [chosen EXCEPT ![c.id] = settings]
    BY <1>2, <2>2, <2>3, <2>4, <2>6 DEF Records!SaveDraft, Records!Save, Records!There
  <2>8. RowsBase' /\ StepsKept
    <3>1. chosen' \in [ProjectIds -> Collected] /\ chosen'[c.id] = settings
          /\ \A other \in ProjectIds \ {c.id} : chosen'[other] = chosen[other]
      BY <2>2, <2>7 DEF RowsInv, RowsBase
    <3> QED  BY <2>2, <2>6, <2>7, <3>1, RowWritten DEF RowsInv
  <2>9. PICK rest \in Calls :
              /\ CallShape(rest) /\ draftCall' \in {None, rest} /\ rest.todo = c.todo \ {"save"}
              /\ rest.id = c.id /\ rest.src = c.src /\ rest.copy = c.copy /\ rest.from = c.from
    BY <1>2, <2>1, RestIs DEF Records!SaveDraft, Records!Done
  <2>10. rows'[c.id] # None
    BY <2>2, <2>6, <2>7, RowIsNoNone DEF RowsInv, RowsBase
  <2>11. /\ "fork" \notin rest.todo /\ "board" \notin rest.todo /\ "save" \notin rest.todo
         /\ "link" \notin rest.todo
    BY <2>1, <2>2, <2>9 DEF CallShape, DraftStages
  <2>12. CallStands(rest)'
    BY <2>2, <2>9, <2>10, <2>11 DEF CallStands, Unborn
  <2> QED  BY <2>8, <2>9, <2>12 DEF CallGoesOn
<1> QED  BY <1>1, <1>2

\* A copy's row is written, as the one it is a copy of was read.
LEMMA ForkSaved ==
    ASSUME RowsInv, Records!SaveFork
    PROVE  RowsBase' /\ StepsKept /\ CallGoesOn
<1>1. PICK c : c = draftCall
  OBVIOUS
<1>2. /\ c # None /\ CallShape(c) /\ CallStands(c) /\ "fork" \in c.todo /\ "save" \notin c.todo
      /\ "link" \notin c.todo
  BY <1>1, StageFirst DEF Records!SaveFork, RowsInv, CopyStages
<1>3. /\ c.id \in ProjectIds /\ c.src \in ProjectIds \ {c.id} /\ c.copy \in Records!Row
      /\ rows[c.id] = None /\ c.from # 0 /\ rows[c.src] # None
  BY <1>2, RowIsNoNone DEF CallShape, CallStands, Calls, Unborn, DraftStages
<1>4. PICK sent : sent = [c.copy EXCEPT !.status = "draft", !.step = 1, !.music = None,
                                        !.companion = None]
  OBVIOUS
<1>5. /\ sent \in Records!Row /\ sent.status = "draft" /\ sent.companion = None
      /\ sent.settings = c.copy.settings /\ sent.music = None /\ c.copy.settings \in Collected
  <2>1. PICK r \in Records!Row : r = c.copy
    BY <1>3
  <2>2. sent = [status |-> "draft", step |-> 1, settings |-> r.settings, subject |-> r.subject,
                music |-> None, companion |-> None, forked |-> r.forked]
    BY <1>4, <2>1 DEF Records!Row
  <2> QED  BY <2>1, <2>2 DEF Records!Row, Records!Statuses
<1>6. PICK new \in Records!Row :
             /\ new = Records!Saved(c.id, sent) /\ new.settings = c.copy.settings
             /\ new.companion = None /\ new.music = None /\ new.step = 1 /\ new.status = "draft"
  BY <1>3, <1>5, SavedIs DEF RowsInv
<1>7. /\ rows' = [rows EXCEPT ![c.id] = new] /\ UNCHANGED <<authored, linked>>
      /\ chosen' = [chosen EXCEPT ![c.id] = c.copy.settings]
  BY <1>1, <1>4, <1>6 DEF Records!SaveFork, Records!Save, Records!blankFork
<1>8. RowsBase' /\ StepsKept
  <2>1. chosen' \in [ProjectIds -> Collected] /\ chosen'[c.id] = c.copy.settings
        /\ \A other \in ProjectIds \ {c.id} : chosen'[other] = chosen[other]
    BY <1>3, <1>5, <1>7 DEF RowsInv, RowsBase
  <2> QED  BY <1>3, <1>6, <1>7, <2>1, RowWritten DEF RowsInv
<1>9. PICK rest \in Calls :
            /\ CallShape(rest) /\ draftCall' \in {None, rest} /\ rest.todo = c.todo \ {"fork"}
            /\ rest.id = c.id /\ rest.src = c.src /\ rest.copy = c.copy /\ rest.from = c.from
  BY <1>1, <1>2, RestIs DEF Records!SaveFork, Records!Done
<1>10. rows'[c.id] # None /\ rows'[c.id] = new
  BY <1>3, <1>7, RowIsNoNone DEF RowsInv, RowsBase
<1>11. CopyStands(rest)'
  <2>1. CopyStands(c)
    BY <1>2, <1>3 DEF CallStands
  <2>2. At(c.id)' = At(c.id)
    BY <1>7 DEF At, Records!AuthoredOf
  <2> QED  BY <1>6, <1>9, <1>10, <2>1, <2>2 DEF CopyStands
<1>12. "board" \in rest.todo /\ "story" \notin rest.todo => At(c.id)' = At(c.id) /\ At(c.src)' = At(c.src)
                                                         /\ At(c.id).story = At(c.src).story
  BY <1>2, <1>7, <1>9 DEF At, Records!AuthoredOf, CallStands
<1>13. CallStands(rest)'
  BY <1>2, <1>9, <1>10, <1>11, <1>12 DEF CallStands, Unborn
<1> QED  BY <1>1, <1>8, <1>9, <1>13 DEF CallGoesOn

LaterStages == {"forkedFrom", "topic", "subject", "models", "settings", "story", "board"}

\* What the stages find that come once the row is there.
LEMMA LaterFinds ==
    ASSUME RowsInv, NEW name \in LaterStages, Records!Stage(name)
    PROVE  /\ draftCall # None /\ CallShape(draftCall) /\ CallStands(draftCall)
           /\ name \in draftCall.todo /\ draftCall.id \in ProjectIds
           /\ rows[draftCall.id] # None /\ rows[draftCall.id] \in Records!Row
           /\ \E rest \in Calls :
                /\ CallShape(rest) /\ Records!Goes(name) \in {None, rest}
                /\ rest.todo = draftCall.todo \ {name}
                /\ rest.id = draftCall.id /\ rest.src = draftCall.src /\ rest.copy = draftCall.copy
                /\ rest.from = draftCall.from
                /\ "link" \notin rest.todo /\ "save" \notin rest.todo /\ "fork" \notin rest.todo
<1>1. /\ draftCall # None /\ CallShape(draftCall) /\ CallStands(draftCall)
      /\ name \in draftCall.todo /\ "link" \notin draftCall.todo /\ "save" \notin draftCall.todo
      /\ "fork" \notin draftCall.todo /\ (name = "board" => "story" \notin draftCall.todo)
      /\ name # "save"
  <2>1. name \in DraftStages \cup CopyStages /\ name \notin {"link", "save", "fork"}
    BY DEF LaterStages, DraftStages, CopyStages
  <2> QED  BY <2>1, StageFirst DEF RowsInv
<1>2. draftCall.id \in ProjectIds /\ rows[draftCall.id] # None /\ rows[draftCall.id] \in Records!Row
  BY <1>1 DEF CallShape, Calls, CallStands, Unborn, RowsInv, RowsBase
<1>3. PICK rest \in Calls :
            /\ CallShape(rest) /\ Records!Goes(name) \in {None, rest}
            /\ rest.todo = draftCall.todo \ {name}
            /\ rest.id = draftCall.id /\ rest.src = draftCall.src /\ rest.copy = draftCall.copy
            /\ rest.from = draftCall.from
  BY <1>1, RestIs
<1> QED  BY <1>1, <1>2, <1>3

\* The row is written once it is there: its input, its origin, its settings.
LEMMA LaterRow ==
    ASSUME RowsInv, Records!SetForkedFrom \/ Records!SaveIdeaInput \/ Records!SaveWizardSettings
    PROVE  RowsBase' /\ StepsKept /\ CallGoesOn
<1>1. PICK c : c = draftCall
  OBVIOUS
<1>2. PICK name \in {"forkedFrom", "subject", "settings"} :
             /\ Records!Stage(name)
             /\ \/ name = "forkedFrom" /\ Records!SetForkedFrom
                \/ name = "subject" /\ Records!SaveIdeaInput
                \/ name = "settings" /\ Records!SaveWizardSettings
  BY DEF Records!SetForkedFrom, Records!SaveIdeaInput, Records!SaveWizardSettings
<1>3. name \in LaterStages
  BY DEF LaterStages
<1>4. /\ c # None /\ CallShape(c) /\ CallStands(c) /\ name \in c.todo /\ c.id \in ProjectIds
      /\ rows[c.id] # None /\ rows[c.id] \in Records!Row
  BY <1>1, <1>2, <1>3, LaterFinds
<1>5. PICK rest \in Calls :
            /\ CallShape(rest) /\ Records!Goes(name) \in {None, rest} /\ rest.todo = c.todo \ {name}
            /\ rest.id = c.id /\ rest.src = c.src /\ rest.copy = c.copy /\ rest.from = c.from
            /\ "link" \notin rest.todo /\ "save" \notin rest.todo /\ "fork" \notin rest.todo
  BY <1>1, <1>2, <1>3, LaterFinds
<1>6. draftCall' \in {None, rest} /\ UNCHANGED <<authored, linked>>
  BY <1>1, <1>2, <1>4, <1>5 DEF Records!SetForkedFrom, Records!SaveIdeaInput,
                          Records!SaveWizardSettings, Records!Done, Records!There
<1>7. PICK old \in Records!Row : old = rows[c.id]
  BY <1>4
<1>8. /\ old.settings = chosen[c.id] /\ old.music \in {None, c.id} /\ old.step \in 1 .. 3
      /\ old.companion # None => {c.id, old.companion} \in linked
  BY <1>4, <1>7 DEF RowsInv, RowsBase, Records!SettingsAsChosen, Records!MusicStays,
              Records!CompanionWasLinked, Records!There, Records!Row
<1>9. PICK new \in Records!Row :
             /\ rows' = [rows EXCEPT ![c.id] = new]
             /\ new.status = old.status /\ new.companion = old.companion
             /\ new.music \in {None, old.music} /\ new.settings = chosen'[c.id]
             /\ new.step \in 1 .. 3 /\ new.step >= old.step
             /\ name # "settings" => new.step = old.step
             /\ chosen' \in [ProjectIds -> Collected]
             /\ \A other \in ProjectIds \ {c.id} : chosen'[other] = chosen[other]
  <2>1. CASE name = "forkedFrom"
    <3>1. PICK new : new = [old EXCEPT !.forked = c.src]
      OBVIOUS
    <3>2. rows' = [rows EXCEPT ![c.id] = new] /\ chosen' = chosen
      BY <1>1, <1>2, <1>4, <1>7, <2>1, <3>1 DEF Records!SetForkedFrom, Records!There
    <3>3. c.src \in ProjectIds \cup {None}
      BY <1>4 DEF CallShape, Calls
    <3>4. /\ new \in Records!Row /\ new.status = old.status /\ new.companion = old.companion
          /\ new.music = old.music /\ new.settings = old.settings /\ new.step = old.step
      BY <3>1, <3>3 DEF Records!Row
    <3>5. new.step >= old.step
      BY <1>8, <3>4
    <3> QED  BY <1>4, <1>8, <3>2, <3>4, <3>5 DEF RowsInv, RowsBase
  <2>2. CASE name = "subject"
    <3>1. PICK new : new = [old EXCEPT !.subject = c.topic]
      OBVIOUS
    <3>2. rows' = [rows EXCEPT ![c.id] = new] /\ chosen' = chosen
      BY <1>1, <1>2, <1>4, <1>7, <2>2, <3>1 DEF Records!SaveIdeaInput, Records!There
    <3>3. c.topic \in Topics \cup {None}
      BY <1>4 DEF CallShape, Calls
    <3>4. /\ new \in Records!Row /\ new.status = old.status /\ new.companion = old.companion
          /\ new.music = old.music /\ new.settings = old.settings /\ new.step = old.step
      BY <3>1, <3>3 DEF Records!Row
    <3>5. new.step >= old.step
      BY <1>8, <3>4
    <3> QED  BY <1>4, <1>8, <3>2, <3>4, <3>5 DEF RowsInv, RowsBase
  <2>3. CASE name = "settings"
    <3>1. c.copy \in Records!Row
      BY <1>4, <2>3 DEF CallShape, DraftStages
    <3>2. PICK new : new = [old EXCEPT !.settings = c.copy.settings, !.music = None, !.step = 3]
      OBVIOUS
    <3>3. PICK settings \in Collected : settings = c.copy.settings
      BY <3>1 DEF Records!Row
    <3>4. new = [old EXCEPT !.settings = settings, !.music = None, !.step = 3]
      BY <3>2, <3>3
    <3>5. /\ rows' = [rows EXCEPT ![c.id] = new]
          /\ chosen' = [chosen EXCEPT ![c.id] = c.copy.settings]
      BY <1>1, <1>2, <1>4, <1>7, <2>3, <3>2 DEF Records!SaveWizardSettings, Records!There
    <3>6. /\ new \in Records!Row /\ new.status = old.status /\ new.companion = old.companion
          /\ new.music = None /\ new.settings = settings /\ new.step = 3
      <4>1. new = [status |-> old.status, step |-> 3, settings |-> settings,
                   subject |-> old.subject, music |-> None, companion |-> old.companion,
                   forked |-> old.forked]
        BY <3>4 DEF Records!Row
      <4>2. /\ old.status \in Records!Statuses /\ old.subject \in Topics \cup {None}
            /\ old.companion \in ProjectIds \cup {None} /\ old.forked \in ProjectIds \cup {None}
        BY DEF Records!Row
      <4> QED  BY <3>3, <4>1, <4>2 DEF Records!Row
    <3>7. /\ new \in Records!Row /\ new.status = old.status /\ new.companion = old.companion
          /\ new.music = None /\ new.settings = c.copy.settings /\ new.step = 3
          /\ c.copy.settings \in Collected
      BY <3>3, <3>6
    <3>8. chosen' \in [ProjectIds -> Collected] /\ chosen'[c.id] = c.copy.settings
          /\ \A other \in ProjectIds \ {c.id} : chosen'[other] = chosen[other]
      BY <1>4, <3>5, <3>7 DEF RowsInv, RowsBase
    <3>9. new.step >= old.step /\ new.step \in 1 .. 3
      BY <1>8, <3>7
    <3> QED  BY <2>3, <3>5, <3>7, <3>8, <3>9
  <2> QED  BY <2>1, <2>2, <2>3
<1>10. RowsBase' /\ StepsKept
  <2>1. new.music \in {None, c.id} /\ (new.companion # None => {c.id, new.companion} \in linked')
    BY <1>6, <1>8, <1>9
  <2> QED  BY <1>4, <1>6, <1>9, <1>7, <2>1, RowWritten DEF RowsInv
<1>11. rows'[c.id] # None /\ rows'[c.id] = new
  BY <1>4, <1>9, RowIsNoNone DEF RowsInv, RowsBase
<1>12. \A id \in ProjectIds : At(id)' = At(id)
  BY <1>6 DEF At, Records!AuthoredOf
<1>13. ASSUME c.from # 0 PROVE CopyStands(rest)'
  <2>1. CopyStands(c) /\ (name = "settings" => c.from # 2) /\ c.from \in Records!ForkSteps
    BY <1>4, <1>13 DEF CallStands, CallShape, Calls, Records!ForkSteps
  <2>2. "board" \in rest.todo => "board" \in c.todo
    BY <1>5
  <2> QED  BY <1>4, <1>5, <1>9, <1>11, <1>12, <1>7, <2>1, <2>2 DEF CopyStands
<1>14. "board" \in rest.todo /\ "story" \notin rest.todo => At(c.id)'.story = At(c.src)'.story
  <2>1. ASSUME "board" \in rest.todo, "story" \notin rest.todo PROVE c.src \in ProjectIds
    BY <1>4, <1>5, <2>1 DEF CallShape, DraftStages
  <2>2. ASSUME "board" \in rest.todo, "story" \notin rest.todo PROVE At(c.id).story = At(c.src).story
    BY <1>4, <1>5, <2>2 DEF CallStands
  <2> QED  BY <1>4, <1>12, <2>1, <2>2
<1>15. CallStands(rest)'
  BY <1>5, <1>11, <1>13, <1>14 DEF CallStands, Unborn
<1> QED  BY <1>1, <1>5, <1>6, <1>10, <1>15 DEF CallGoesOn

\* What authoring-service holds of it is written once its row is there.
LEMMA LaterAuthored ==
    ASSUME RowsInv, Records!SaveAuthoringTopic \/ Records!SaveAuthoringModels
                      \/ Records!ForkStory \/ Records!ForkStoryboard
    PROVE  RowsBase' /\ StepsKept /\ CallGoesOn
<1>1. PICK c : c = draftCall
  OBVIOUS
<1>2. PICK name \in {"topic", "models", "story", "board"} :
             /\ Records!Stage(name)
             /\ \/ name = "topic" /\ Records!SaveAuthoringTopic
                \/ name = "models" /\ Records!SaveAuthoringModels
                \/ name = "story" /\ Records!ForkStory
                \/ name = "board" /\ Records!ForkStoryboard
  BY DEF Records!SaveAuthoringTopic, Records!SaveAuthoringModels, Records!ForkStory,
         Records!ForkStoryboard
<1>3. name \in LaterStages
  BY DEF LaterStages
<1>4. /\ c # None /\ CallShape(c) /\ CallStands(c) /\ name \in c.todo /\ c.id \in ProjectIds
      /\ rows[c.id] # None /\ rows[c.id] \in Records!Row
  BY <1>1, <1>2, <1>3, LaterFinds
<1>5. PICK rest \in Calls :
            /\ CallShape(rest) /\ Records!Goes(name) \in {None, rest} /\ rest.todo = c.todo \ {name}
            /\ rest.id = c.id /\ rest.src = c.src /\ rest.copy = c.copy /\ rest.from = c.from
            /\ "link" \notin rest.todo /\ "save" \notin rest.todo /\ "fork" \notin rest.todo
  BY <1>1, <1>2, <1>3, LaterFinds
<1>6. draftCall' \in {None, rest} /\ UNCHANGED <<rows, chosen, linked>>
  BY <1>1, <1>2, <1>5 DEF Records!SaveAuthoringTopic, Records!SaveAuthoringModels, Records!ForkStory,
                    Records!ForkStoryboard, Records!Done
<1>7. /\ c.from # 0 => c.src \in ProjectIds \ {c.id} /\ c.from \in Records!ForkSteps
      /\ name \in {"story", "board"} => c.from # 0
      /\ name = "story" => c.from >= 4 /\ (c.from >= 6 => "board" \in c.todo)
      /\ name = "board" => c.from >= 6 /\ "story" \notin c.todo
      /\ c.topic \in Topics \cup {None}
  BY <1>1, <1>2, <1>4, StageFirst DEF CallShape, Calls, DraftStages, CopyStages, RowsInv
<1>8. PICK old \in Records!Authored : old = At(c.id) /\ (old.board # 0 => old.board = old.story)
  BY <1>4, AtIs DEF RowsInv
<1>9. ASSUME c.from # 0
      PROVE  /\ At(c.src) \in Records!Authored /\ (At(c.src).board # 0 => At(c.src).board = At(c.src).story)
             /\ CopyStands(c)
  BY <1>4, <1>7, <1>9, AtIs DEF RowsInv, CallStands
<1>10. PICK new \in Records!Authored :
             /\ authored' = [authored EXCEPT ![c.id] = new]
             /\ new.code = old.code
             /\ new.story = IF name = "story" THEN At(c.src).story ELSE old.story
             /\ new.board = IF name = "board" THEN At(c.src).board ELSE old.board
  <2>1. CASE name = "topic"
    <3>1. PICK new : new = [old EXCEPT !.topic = c.topic]
      OBVIOUS
    <3>2. authored' = [authored EXCEPT ![c.id] = new]
      BY <1>1, <1>2, <1>8, <2>1, <3>1 DEF Records!SaveAuthoringTopic, Records!SaveAuthored, At
    <3>3. /\ new \in Records!Authored /\ new.code = old.code /\ new.story = old.story
          /\ new.board = old.board
      BY <1>7, <3>1 DEF Records!Authored
    <3> QED  BY <2>1, <3>2, <3>3
  <2>2. CASE name = "models"
    BY <1>1, <1>2, <1>8, <2>2 DEF Records!SaveAuthoringModels, Records!SaveAuthored, At
  <2>3. CASE name = "story"
    <3>1. PICK new : new = [old EXCEPT !.story = At(c.src).story]
      OBVIOUS
    <3>2. authored' = [authored EXCEPT ![c.id] = new]
      BY <1>1, <1>2, <1>8, <2>3, <3>1 DEF Records!ForkStory, Records!SaveAuthored, At
    <3>3. At(c.src).story \in 0 .. MaxVersionsOfStory
      BY <1>7, <1>9, <2>3 DEF Records!Authored
    <3>4. PICK telling \in 0 .. MaxVersionsOfStory : telling = At(c.src).story
      BY <3>3
    <3>5. /\ new \in Records!Authored /\ new.code = old.code /\ new.story = telling
          /\ new.board = old.board
      BY <3>1, <3>4 DEF Records!Authored
    <3> QED  BY <2>3, <3>2, <3>4, <3>5
  <2>4. CASE name = "board"
    <3>1. PICK new : new = [old EXCEPT !.board = At(c.src).board]
      OBVIOUS
    <3>2. authored' = [authored EXCEPT ![c.id] = new]
      BY <1>1, <1>2, <1>8, <2>4, <3>1 DEF Records!ForkStoryboard, Records!SaveAuthored, At
    <3>3. At(c.src).board \in 0 .. MaxVersionsOfStory
      BY <1>7, <1>9, <2>4 DEF Records!Authored
    <3>4. PICK board \in 0 .. MaxVersionsOfStory : board = At(c.src).board
      BY <3>3
    <3>5. /\ new \in Records!Authored /\ new.code = old.code /\ new.story = old.story
          /\ new.board = board
      BY <3>1, <3>4 DEF Records!Authored
    <3> QED  BY <2>4, <3>2, <3>4, <3>5
  <2> QED  BY <2>1, <2>2, <2>3, <2>4
<1>11. name = "story" => old.board = 0
  <2> SUFFICES ASSUME name = "story" PROVE old.board = 0
    OBVIOUS
  <2>1. c.from < 6 \/ "board" \in c.todo
    BY <1>7 DEF Records!ForkSteps
  <2> QED  BY <1>7, <1>8, <1>9, <2>1 DEF CopyStands
<1>12. name = "board" => old.story = At(c.src).story
  BY <1>4, <1>7, <1>8 DEF CallStands
<1>13. new.board # 0 => new.board = new.story
  BY <1>7, <1>8, <1>9, <1>10, <1>11, <1>12
<1>14. RowsBase' /\ StepsKept
  BY <1>4, <1>6, <1>10, <1>13, AuthoredWritten DEF RowsInv
<1>15. At(c.id)' = new /\ \A id \in ProjectIds \ {c.id} : At(id)' = At(id)
  BY <1>4, <1>10, RowIsNoNone DEF RowsInv, RowsBase, At, Records!AuthoredOf
<1>16. ASSUME c.from # 0 PROVE CopyStands(rest)'
  <2>1. CopyStands(c)
    BY <1>9, <1>16
  <2>2. rest.from < 6 \/ "board" \in rest.todo => new.board = 0
    <3>1. ASSUME c.from < 6 \/ "board" \in rest.todo PROVE old.board = 0 /\ name # "board"
      <4>1. name # "board"
        BY <1>5, <1>7, <1>16, <3>1 DEF Records!ForkSteps
      <4>2. old.board = 0
        BY <1>5, <1>8, <2>1, <3>1 DEF CopyStands
      <4> QED  BY <4>1, <4>2
    <3> QED  BY <1>5, <1>10, <3>1
  <2>3. rest.from < 4 => new.story = 0
    <3>1. c.from < 4 => name # "story"
      BY <1>7, <1>16 DEF Records!ForkSteps
    <3> QED  BY <1>5, <1>8, <1>10, <2>1, <3>1 DEF CopyStands
  <2>4. ~new.code
    BY <1>8, <1>10, <2>1 DEF CopyStands
  <2> QED  BY <1>5, <1>6, <1>15, <2>1, <2>2, <2>3, <2>4 DEF CopyStands
<1>17. "board" \in rest.todo /\ "story" \notin rest.todo => At(c.id)'.story = At(c.src)'.story
  <2> SUFFICES ASSUME "board" \in rest.todo, "story" \notin rest.todo
               PROVE  At(c.id)'.story = At(c.src)'.story
    OBVIOUS
  <2>1. c.from # 0 /\ "board" \in c.todo
    BY <1>4, <1>5 DEF CallShape, DraftStages
  <2>2. name = "story" \/ old.story = At(c.src).story
    BY <1>4, <1>5, <1>8, <2>1 DEF CallStands
  <2>3. new.story = At(c.src).story
    BY <1>10, <2>2
  <2> QED  BY <1>7, <1>15, <2>1, <2>3
<1>18. CallStands(rest)'
  BY <1>4, <1>5, <1>6, <1>16, <1>17 DEF CallStands, Unborn
<1> QED  BY <1>1, <1>5, <1>6, <1>14, <1>18 DEF CallGoesOn

-----------------------------------------------------------------------------
(* The rows: every step, and the theorem.                                  *)

\* The copy stands no further than the step it starts again from.
CopyFits == Records!ForkEnds =>
                Records!FlowStep(rows'[draftCall.id], authored'[draftCall.id]) <= draftCall.from

\* What is left of the flow of a copy, from what it has.
LEMMA FlowFits ==
    ASSUME NEW r \in Records!Row, NEW a \in Records!Authored \cup {None},
           NEW from \in Records!ForkSteps, r.status = "draft", from = 2 => r.step = 1,
           a # None => ~a.code /\ (from < 6 => a.board = 0) /\ (from < 4 => a.story = 0)
    PROVE  Records!FlowStep(r, a) <= from
<1>1. r.step \in 1 .. 3
  BY DEF Records!Row
<1>2. CASE from = 2
  BY <1>1, <1>2 DEF Records!FlowStep
<1>3. CASE from = 3
  BY <1>1, <1>3 DEF Records!FlowStep
<1>4. CASE from = 4
  BY <1>1, <1>4 DEF Records!FlowStep
<1>5. CASE from = 6
  BY <1>1, <1>5 DEF Records!FlowStep
<1> QED  BY <1>2, <1>3, <1>4, <1>5 DEF Records!ForkSteps

\* A step of a call keeps the invariant, and ends a fork where it should.
LEMMA GoesOnWell ==
    ASSUME RowsBase', CallGoesOn
    PROVE  RowsInv' /\ CopyFits
<1>1. PICK rest \in Calls : /\ CallShape(rest) /\ CallStands(rest)'
                            /\ rest.id = draftCall.id /\ rest.from = draftCall.from
                            /\ draftCall' \in {None, rest}
  BY DEF CallGoesOn
<1>2. ASSUME draftCall' # None PROVE CallShape(draftCall)' /\ CallStands(draftCall)'
  <2>1. draftCall' = rest
    BY <1>1, <1>2
  <2>2. CallShape(draftCall)'
    BY <1>1, <2>1 DEF CallShape
  <2>3. CallStands(draftCall)'
    BY <1>1, <2>1 DEF CallStands, CopyStands, Unborn
  <2> QED  BY <2>2, <2>3
<1>3. ASSUME Records!ForkEnds
      PROVE  Records!FlowStep(rows'[draftCall.id], authored'[draftCall.id]) <= draftCall.from
  <2>1. /\ rest.from \in Records!ForkSteps /\ rest.id \in ProjectIds /\ rows'[rest.id] # None
        /\ CopyStands(rest)'
    BY <1>1, <1>3 DEF Records!ForkEnds, Calls, CallStands
  <2>2. rows'[rest.id] \in Records!Row /\ authored'[rest.id] \in Records!Authored \cup {None}
    BY <2>1 DEF RowsBase
  <2>3. /\ rows'[rest.id].status = "draft" /\ (rest.from = 2 => rows'[rest.id].step = 1)
        /\ ~At(rest.id)'.code /\ (rest.from < 6 => At(rest.id)'.board = 0)
        /\ rest.from < 4 => At(rest.id)'.story = 0
    BY <2>1 DEF CopyStands
  <2>4. authored'[rest.id] # None => At(rest.id)' = authored'[rest.id]
    BY DEF At, Records!AuthoredOf
  <2>5. Records!FlowStep(rows'[rest.id], authored'[rest.id]) <= rest.from
    BY <2>1, <2>2, <2>3, <2>4, FlowFits
  <2> QED  BY <1>1, <2>5
<1> QED  BY <1>2, <1>3 DEF RowsInv, CopyFits

LEMMA RowsInit ==
    ASSUME Records!Init
    PROVE  RowsInv
<1>1. /\ rows \in [ProjectIds -> Records!Row \cup {None}]
      /\ authored \in [ProjectIds -> Records!Authored \cup {None}]
      /\ chosen \in [ProjectIds -> Collected]
      /\ \A id \in ProjectIds : rows[id] = None /\ authored[id] = None
  BY RecordsAssumption DEF Records!Init, Records!NamesAssumption
<1>2. /\ Records!SettingsAsChosen /\ Records!CompanionWasLinked /\ Records!MusicStays
      /\ Records!BoardOfStory
  BY <1>1 DEF Records!SettingsAsChosen, Records!CompanionWasLinked, Records!MusicStays,
              Records!BoardOfStory, Records!There
<1>3. RowsBase
  BY <1>1, <1>2 DEF RowsBase
<1> QED  BY <1>3 DEF RowsInv, Records!Init

\* Every step, no request running inside another.
LEMMA RowsStep ==
    ASSUME ~Overlaps, RowsInv, [Records!Next]_(Records!vars)
    PROVE  RowsInv' /\ StepsKept /\ CopyFits
<1>1. ASSUME RowsBase', draftCall = None, draftCall' = None PROVE RowsInv' /\ CopyFits
  BY <1>1 DEF RowsInv, CopyFits, Records!ForkEnds
<1>2. ASSUME UNCHANGED <<rows, authored, chosen, linked>> PROVE RowsBase' /\ StepsKept
  <2>1. RowsBase /\ Records!BoardOfStory' /\ authored' \in [ProjectIds -> Records!Authored \cup {None}]
        /\ \A id \in ProjectIds : rows[id] = None => authored'[id] = None
    BY <1>2 DEF RowsInv, RowsBase, Records!BoardOfStory
  <2> QED  BY <1>2, <2>1, RowsStayed
<1>3. ASSUME UNCHANGED <<rows, authored, chosen, linked>>, draftCall = None,
             CallShape(draftCall'), CallStands(draftCall')
      PROVE  RowsInv' /\ StepsKept /\ CopyFits
  <2>1. CallShape(draftCall)' /\ CallStands(draftCall)'
    BY <1>3 DEF CallShape, CallStands, CopyStands, Unborn, At, Records!AuthoredOf
  <2> QED  BY <1>2, <1>3, <2>1 DEF RowsInv, CopyFits, Records!ForkEnds
<1>4. ASSUME NEW id \in ProjectIds,
             \/ \E long \in ProjectIds \cup {None}, topic \in Topics \cup {None} :
                   Records!CreateDraft(id, long, topic)
             \/ \E topic \in Topics : Records!UpdateProjectTopic(id, topic)
             \/ \E src \in ProjectIds, from \in Records!ForkSteps : Records!Fork(src, id, from)
      PROVE  RowsInv' /\ StepsKept /\ CopyFits
  <2>1. draftCall = None /\ RowsBase
    BY <1>4 DEF Records!CreateDraft, Records!UpdateProjectTopic, Records!Fork, Records!Opens, RowsInv
  <2>2. /\ UNCHANGED <<rows, authored, chosen, linked>>
        /\ CallShape(draftCall') /\ CallStands(draftCall')
    BY <1>4, <2>1, OpensKeep, ForkKeeps
  <2> QED  BY <1>3, <2>1, <2>2
<1>5. CASE Records!makeShortOf \/ Records!SaveDraft
  BY <1>5, DraftSaved, GoesOnWell
<1>6. CASE Records!SaveFork
  BY <1>6, ForkSaved, GoesOnWell
<1>7. CASE Records!SetForkedFrom \/ Records!SaveIdeaInput \/ Records!SaveWizardSettings
  BY <1>7, LaterRow, GoesOnWell
<1>8. CASE \/ Records!SaveAuthoringTopic \/ Records!SaveAuthoringModels
           \/ Records!ForkStory \/ Records!ForkStoryboard
  BY <1>8, LaterAuthored, GoesOnWell
<1>9. CASE Records!BreaksOff
  <2>1. draftCall # None /\ draftCall' = None /\ UNCHANGED <<rows, authored, chosen, linked>>
    BY <1>9 DEF Records!BreaksOff
  <2>2. PICK rest : rest = draftCall
    OBVIOUS
  <2>3. rest \in Calls /\ CallShape(rest) /\ CallStands(rest)
    BY <2>1, <2>2 DEF RowsInv, CallShape
  <2>4. CallStands(rest)'
    BY <2>1, <2>3 DEF CallStands, CopyStands, Unborn, At, Records!AuthoredOf
  <2>5. CallGoesOn
    BY <2>1, <2>2, <2>3, <2>4 DEF CallGoesOn
  <2> QED  BY <1>2, <2>1, <2>5, GoesOnWell
<1>10. ASSUME NEW id \in ProjectIds,
              \/ \E settings \in Collected, step \in {1, 3} : Records!PatchSettings(id, settings, step)
              \/ \E music \in ProjectIds \cup {None} : Records!PatchMusic(id, music)
              \/ Records!UpdateStatus(id)
              \/ Records!BeginDelete(id)
       PROVE  RowsInv' /\ StepsKept /\ CopyFits
  <2>1. draftCall = None /\ draftCall' = None
    BY <1>10 DEF Records!PatchSettings, Records!PatchMusic, Records!UpdateStatus,
                 Records!BeginDelete, Records!Request
  <2> QED  BY <1>1, <1>10, <2>1, PatchesKeep DEF RowsInv
<1>11. ASSUME NEW id \in ProjectIds, NEW settings \in Collected,
              NEW companion \in ProjectIds \cup {None}, Records!StartRender(id, settings, companion)
       PROVE  RowsInv' /\ StepsKept /\ CopyFits
  <2>1. draftCall = None /\ draftCall' = None
    BY <1>11 DEF Records!StartRender, Records!Request
  <2> QED  BY <1>1, <1>11, <2>1, StartedKeeps DEF RowsInv
<1>12. ASSUME NEW id \in ProjectIds,
              \/ \E telling \in 1 .. MaxVersionsOfStory : Records!SaveAuthoringStory(id, telling)
              \/ \E rewritten \in BOOLEAN : Records!SaveAuthoringStoryboard(id, rewritten)
              \/ Records!SaveAuthoringCode(id)
              \/ Records!Approves(id)
       PROVE  RowsInv' /\ StepsKept /\ CopyFits
  <2>1. draftCall = None /\ draftCall' = None
    BY <1>12 DEF Records!SaveAuthoringStory, Records!SaveAuthoringStoryboard,
                 Records!SaveAuthoringCode, Records!Approves, Records!Request
  <2> QED  BY <1>1, <1>12, <2>1, AuthoringKeeps DEF RowsInv
<1>13. ASSUME NEW id \in ProjectIds, Records!Delete(id) PROVE RowsInv' /\ StepsKept /\ CopyFits
  <2>1. draftCall = None /\ draftCall' = None
    BY <1>13 DEF Records!Delete
  <2> QED  BY <1>1, <1>13, <2>1, DeletedKeeps DEF RowsInv
<1>14. CASE UNCHANGED (Records!vars)
  <2>1. UNCHANGED <<rows, authored, draftCall, chosen, linked>>
    BY <1>14 DEF Records!vars
  <2>2. draftCall' # None => CallShape(draftCall)' /\ CallStands(draftCall)'
    BY <2>1 DEF RowsInv, CallShape, CallStands, CopyStands, Unborn, At, Records!AuthoredOf
  <2> QED  BY <1>2, <2>1, <2>2 DEF RowsInv, CopyFits, Records!ForkEnds
<1> QED  BY <1>4, <1>5, <1>6, <1>7, <1>8, <1>9, <1>10, <1>11, <1>12, <1>13, <1>14 DEF Records!Next

\* While the requests of a project wait for one another, its settings are
\* the ones chosen last, a companion is one it was linked with, its music is
\* in its own folder, a storyboard is of the story beside it, no step of the
\* wizard is taken back, and a copy stands no further than the step it
\* starts again from, wherever a create or a fork broke off (CreateDraft,
\* makeShortOf, ForkProject, StartRender).
THEOREM RowsStandAlways ==
    ASSUME ~Overlaps
    PROVE  Records!Spec => RowsStand
<1>1. Records!Init => RowsInv
  BY RowsInit
<1>2. RowsInv /\ [Records!Next]_(Records!vars) => RowsInv'
  BY RowsStep
<1>3. RowsInv => Records!SettingsAsChosen /\ Records!CompanionWasLinked /\ Records!MusicStays
                 /\ Records!BoardOfStory
  BY DEF RowsInv, RowsBase
<1>4. RowsInv /\ [Records!Next]_(Records!vars)
        => [\A id \in ProjectIds : Records!There(id) /\ Records!There(id)'
                => rows'[id].step >= rows[id].step]_(Records!vars)
  BY RowsStep DEF StepsKept
<1>5. RowsInv /\ [Records!Next]_(Records!vars)
        => [Records!ForkEnds => Records!FlowStep(rows'[draftCall.id], authored'[draftCall.id])
                                    <= draftCall.from]_(Records!vars)
  BY RowsStep DEF CopyFits
<1> QED  BY <1>1, <1>2, <1>3, <1>4, <1>5, PTL
         DEF Records!Spec, RowsStand, Records!RowsStand, Records!StepNeverBack,
             Records!ForkRedoesTheRest

-----------------------------------------------------------------------------
(* Counting up.                                                            *)

\* Numbers have a least one among them.
LEMMA Least ==
    ASSUME NEW T, T \subseteq Nat, T # {}
    PROVE  \E n \in T : \A m \in T : n <= m
<1>1. PICK x \in T : \A y \in T : ~ (<<y, x>> \in OpToRel(<, Nat))
  BY NatLessThanWellFounded, WFMin
<1>2. \A y \in T : ~ (y < x)
  BY <1>1 DEF OpToRel
<1> QED  BY <1>2

\* What is so of 0 and of the number after each is so of all.
LEMMA NatSet ==
    ASSUME NEW T, T \subseteq Nat, 0 \in T, \A n \in T : n + 1 \in T
    PROVE  T = Nat
<1>1. SUFFICES ASSUME Nat \ T # {} PROVE FALSE
  BY <1>1
<1>2. PICK n \in Nat \ T : \A m \in Nat \ T : n <= m
  BY <1>1, Least
<1>3. n # 0 /\ n - 1 \in Nat /\ n - 1 \notin T
  BY <1>2
<1> QED  BY <1>2, <1>3

LEMMA UpTo ==
    ASSUME NEW n \in Nat, NEW T, 0 \in T, \A i \in 1 .. n : i - 1 \in T => i \in T
    PROVE  0 .. n \subseteq T
<1> DEFINE K == {i \in Nat : i <= n => i \in T}
<1>1. 0 \in K
  OBVIOUS
<1>2. ASSUME NEW i \in K PROVE i + 1 \in K
  <2>1. CASE i + 1 <= n
    <3>1. i + 1 \in 1 .. n /\ (i + 1) - 1 = i /\ i \in T
      BY <2>1
    <3>2. i + 1 \in T
      BY <3>1
    <3> QED  BY <3>2
  <2> QED  BY <2>1
<1>3. K \subseteq Nat
  OBVIOUS
<1>4. K = Nat
  <2> HIDE DEF K
  <2> QED  BY <1>1, <1>2, <1>3, NatSet
<1> QED  BY <1>4

\* One turn after another, from x, g giving each.
Turned(f, x, g, n) == f = [i \in 0 .. n |-> IF i = 0 THEN x ELSE g[i][f[i - 1]]]

\* Taking one turn after another defines where each ends.
LEMMA Iterated ==
    ASSUME NEW S, NEW x \in S, NEW g \in [Nat -> [S -> S]], NEW n \in Nat
    PROVE  \E f \in [0 .. n -> S] : Turned(f, x, g, n)
<1> DEFINE Ends(m, f) == /\ f \in [0 .. m -> S]
                         /\ f = [i \in 0 .. m |-> IF i = 0 THEN x ELSE g[i][f[i - 1]]]
           K == {m \in Nat : \E f : Ends(m, f)}
<1>1. 0 \in K
  <2>1. PICK f : f = [i \in 0 .. 0 |-> x]
    OBVIOUS
  <2>2. Ends(0, f)
    BY <2>1
  <2> QED  BY <2>2
<1>2. ASSUME NEW m \in K PROVE m + 1 \in K
  <2>1. PICK f : Ends(m, f)
    OBVIOUS
  <2>2. PICK h : h = [i \in 0 .. m + 1 |-> IF i = m + 1 THEN g[m + 1][f[m]] ELSE f[i]]
    OBVIOUS
  <2>3. m \in Nat /\ f[m] \in S
    BY <2>1
  <2>4. h \in [0 .. m + 1 -> S]
    BY <2>1, <2>2, <2>3
  <2>5. ASSUME NEW i \in 0 .. m + 1 PROVE h[i] = IF i = 0 THEN x ELSE g[i][h[i - 1]]
    <3>1. CASE i = m + 1
      <4>1. i # 0 /\ i - 1 = m /\ h[m] = f[m]
        BY <2>2, <2>3, <3>1
      <4> QED  BY <2>2, <3>1, <4>1
    <3>2. CASE i # m + 1
      <4>1. i \in 0 .. m /\ h[i] = f[i]
        BY <2>2, <2>3, <3>2
      <4>2. i # 0 => h[i - 1] = f[i - 1]
        BY <2>2, <2>3, <4>1
      <4> QED  BY <2>1, <4>1, <4>2
    <3> QED  BY <3>1, <3>2
  <2>6. Ends(m + 1, h)
    BY <2>2, <2>4, <2>5
  <2>7. m + 1 \in Nat
    BY <2>3
  <2> HIDE DEF Ends
  <2> QED  BY <2>6, <2>7
<1>3. K \subseteq Nat
  OBVIOUS
<1>4. K = Nat
  <2> HIDE DEF K
  <2> QED  BY <1>1, <1>2, <1>3, NatSet
<1> QED  BY <1>4 DEF Turned

\* Sums.
LEMMA TotalIs ==
    ASSUME NEW m \in Nat, NEW l \in [1 .. m -> Int]
    PROVE  \E s \in [0 .. m -> Int] :
              /\ s[0] = 0 /\ \A i \in 1 .. m : s[i] = s[i - 1] + l[i]
              /\ Sheets!Total(l) = s[m]
<1>1. l \in Seq(Int) /\ Len(l) = m
  OBVIOUS
<1>2. PICK s : s = CHOOSE z : z = [i \in 0 .. m |-> IF i = 0 THEN 0 ELSE z[i - 1] + l[i]]
  OBVIOUS
<1>3. Sheets!Total(l) = s[m]
  BY <1>1, <1>2 DEF Sheets!Total
<1>4. PICK g : g = [i \in Nat |-> [k \in Int |-> IF i \in 1 .. m THEN k + l[i] ELSE k]]
  OBVIOUS
<1>5. g \in [Nat -> [Int -> Int]] /\ 0 \in Int
  BY <1>4
<1>6. PICK f \in [0 .. m -> Int] : Turned(f, 0, g, m)
  BY <1>5, Iterated
<1>7. f = [i \in 0 .. m |-> IF i = 0 THEN 0 ELSE f[i - 1] + l[i]]
  <2>1. ASSUME NEW i \in 0 .. m, i # 0 PROVE g[i][f[i - 1]] = f[i - 1] + l[i]
    <3>1. i \in Nat /\ i - 1 \in 0 .. m /\ i \in 1 .. m
      BY <2>1
    <3>2. f[i - 1] \in Int
      BY <3>1
    <3> QED  BY <1>4, <3>1, <3>2
  <2> QED  BY <1>6, <2>1 DEF Turned
<1>8. s = [i \in 0 .. m |-> IF i = 0 THEN 0 ELSE s[i - 1] + l[i]]
  BY <1>2, <1>7
<1>9. s[0] = 0 /\ \A i \in 1 .. m : s[i] = s[i - 1] + l[i]
  BY <1>8
<1>10. \A i \in 0 .. m : s[i] \in Int
  <2> DEFINE T == {i \in 0 .. m : s[i] \in Int}
  <2>1. 0 \in T
    BY <1>9
  <2>2. \A i \in 1 .. m : i - 1 \in T => i \in T
    BY <1>9
  <2>3. 0 .. m \subseteq T
    <3> HIDE DEF T
    <3> QED  BY <2>1, <2>2, UpTo
  <2> QED  BY <2>3
<1>11. s \in [0 .. m -> Int]
  BY <1>8, <1>10
<1> QED  BY <1>3, <1>9, <1>11

LEMMA TotalIsInt ==
    ASSUME NEW m \in Nat, NEW l \in [1 .. m -> Int] PROVE Sheets!Total(l) \in Int
<1>1. PICK s \in [0 .. m -> Int] : Sheets!Total(l) = s[m]
  BY TotalIs
<1> QED  BY <1>1

\* A length that changes changes the sum by as much.
AsMuch(l, r, k) == Sheets!Total(r) = Sheets!Total(l) + (r[k] - l[k])

LEMMA TotalChanged ==
    ASSUME NEW m \in Nat, NEW l \in [1 .. m -> Int], NEW k \in 1 .. m, NEW r \in [1 .. m -> Int],
           \A i \in 1 .. m : i # k => r[i] = l[i]
    PROVE  AsMuch(l, r, k)
<1>1. PICK more : more = r[k] - l[k]
  OBVIOUS
<1>2. more \in Int /\ r[k] = l[k] + more
  BY <1>1
<1>3. PICK s \in [0 .. m -> Int] : /\ s[0] = 0 /\ \A i \in 1 .. m : s[i] = s[i - 1] + l[i]
                                   /\ Sheets!Total(l) = s[m]
  BY TotalIs
<1>4. PICK z \in [0 .. m -> Int] : /\ z[0] = 0 /\ \A i \in 1 .. m : z[i] = z[i - 1] + r[i]
                                   /\ Sheets!Total(r) = z[m]
  BY TotalIs
<1> DEFINE T == {i \in 0 .. m : z[i] = IF k <= i THEN s[i] + more ELSE s[i]}
<1>5. 0 \in T
  BY <1>3, <1>4
<1>6. ASSUME NEW i \in 1 .. m, i - 1 \in T PROVE i \in T
  <2>1. i \in 0 .. m /\ i - 1 \in 0 .. m /\ z[i] = z[i - 1] + r[i] /\ s[i] = s[i - 1] + l[i]
    BY <1>3, <1>4
  <2>2. /\ z[i - 1] \in Int /\ s[i - 1] \in Int /\ l[i] \in Int /\ l[k] \in Int
        /\ z[i] \in Int /\ s[i] \in Int
    BY <2>1
  <2>3. z[i - 1] = IF k <= i - 1 THEN s[i - 1] + more ELSE s[i - 1]
    BY <1>6
  <2>4. CASE i = k
    <3>1. z[i - 1] = s[i - 1]
      BY <2>3, <2>4
    <3>2. z[i] = s[i] + more
      BY <1>2, <2>1, <2>2, <2>4, <3>1
    <3> QED  BY <2>1, <2>4, <3>2
  <2>5. CASE k <= i - 1
    <3>1. z[i - 1] = s[i - 1] + more /\ r[i] = l[i] /\ k <= i
      BY <2>3, <2>5
    <3>2. z[i] = s[i] + more
      BY <1>2, <2>1, <2>2, <3>1
    <3> QED  BY <2>1, <3>1, <3>2
  <2>6. CASE i < k
    <3>1. z[i - 1] = s[i - 1] /\ r[i] = l[i] /\ ~(k <= i)
      BY <2>3, <2>6
    <3>2. z[i] = s[i]
      BY <2>1, <2>2, <3>1
    <3> QED  BY <2>1, <3>1, <3>2
  <2> QED  BY <2>4, <2>5, <2>6
<1>7. m \in T
  <2>1. 0 .. m \subseteq T
    <3> HIDE DEF T
    <3> QED  BY <1>5, <1>6, UpTo
  <2> QED  BY <2>1
<1>8. z[m] = s[m] + more
  BY <1>7
<1> QED  BY <1>1, <1>3, <1>4, <1>8 DEF AsMuch

\* Nothing is less than a part of it.
LEMMA TotalCovers ==
    ASSUME NEW m \in Nat, NEW l \in [1 .. m -> Nat], NEW k \in 1 .. m
    PROVE  Sheets!Total(l) >= l[k]
<1>1. l \in [1 .. m -> Int]
  OBVIOUS
<1>2. PICK s \in [0 .. m -> Int] : /\ s[0] = 0 /\ \A i \in 1 .. m : s[i] = s[i - 1] + l[i]
                                   /\ Sheets!Total(l) = s[m]
  BY <1>1, TotalIs
<1> DEFINE T == {i \in 0 .. m : s[i] >= 0 /\ (k <= i => s[i] >= l[k])}
<1>3. 0 \in T
  BY <1>2
<1>4. ASSUME NEW i \in 1 .. m, i - 1 \in T PROVE i \in T
  <2>1. i \in 0 .. m /\ i - 1 \in 0 .. m /\ s[i] = s[i - 1] + l[i]
    BY <1>2
  <2>2. s[i - 1] \in Int /\ s[i] \in Int /\ l[i] \in Nat /\ l[k] \in Nat
    BY <2>1
  <2>3. s[i - 1] >= 0 /\ (k <= i - 1 => s[i - 1] >= l[k])
    BY <1>4
  <2>4. CASE i = k
    BY <2>1, <2>2, <2>3, <2>4
  <2>5. CASE i # k
    <3>1. k <= i => k <= i - 1
      BY <2>5
    <3> QED  BY <2>1, <2>2, <2>3, <3>1
  <2> QED  BY <2>4, <2>5
<1>5. m \in T
  <2>1. 0 .. m \subseteq T
    <3> HIDE DEF T
    <3> QED  BY <1>3, <1>4, UpTo
  <2> QED  BY <2>1
<1> QED  BY <1>2, <1>5

-----------------------------------------------------------------------------
(* The beats: moving the rounding leftover.                                *)

\* Lengths of m beats, the fixed ones as in d, the others as long as a beat may be.
Lengths(m, fixed, d) ==
    {l \in [1 .. m -> Nat] : \A i \in 1 .. m : IF i \in fixed THEN l[i] = d[i] ELSE l[i] \in 5 .. 600}

\* Of some beats there is a first of the longest, and a first of the shortest.
IsLongest(l, can, i) == \A j \in can : l[j] < l[i] \/ (l[j] = l[i] /\ i <= j)
IsShortest(l, can, i) == \A j \in can : l[j] > l[i] \/ (l[j] = l[i] /\ i <= j)

LEMMA LongestThere ==
    ASSUME NEW m \in Nat, NEW l \in [1 .. m -> Nat], NEW can \in SUBSET (1 .. m), can # {},
           \A i \in can : l[i] <= 600
    PROVE  \E i \in can : IsLongest(l, can, i)
<1> DEFINE V == {600 - l[i] : i \in can}
<1>1. \A i \in can : i \in Nat /\ i \in 1 .. m /\ l[i] \in Nat /\ 600 - l[i] \in Nat
  OBVIOUS
<1>2. V \subseteq Nat /\ V # {}
  <2>1. \A x \in V : x \in Nat
    BY <1>1
  <2>2. V # {}
    OBVIOUS
  <2> QED  BY <2>1, <2>2
<1>3. PICK v \in V : \A w \in V : v <= w
  BY <1>2, Least
<1> DEFINE I == {i \in can : 600 - l[i] = v}
<1>4. PICK k \in can : v = 600 - l[k]
  BY <1>3
<1>5. k \in I /\ I \subseteq Nat /\ I # {}
  BY <1>1, <1>4
<1>6. PICK i \in I : \A j \in I : i <= j
  <2> HIDE DEF I
  <2> QED  BY <1>5, Least
<1>7. ASSUME NEW j \in can PROVE l[j] < l[i] \/ (l[j] = l[i] /\ i <= j)
  <2>1. i \in can /\ 600 - l[i] = v /\ v <= 600 - l[j] /\ l[i] \in Nat /\ l[j] \in Nat
    BY <1>1, <1>3, <1>6
  <2>2. l[j] = l[i] => j \in I
    BY <2>1
  <2> QED  BY <1>6, <2>1, <2>2
<1> QED  BY <1>6, <1>7 DEF IsLongest

LEMMA ShortestThere ==
    ASSUME NEW m \in Nat, NEW l \in [1 .. m -> Nat], NEW can \in SUBSET (1 .. m), can # {}
    PROVE  \E i \in can : IsShortest(l, can, i)
<1> DEFINE V == {l[i] : i \in can}
<1>1. \A i \in can : i \in Nat /\ i \in 1 .. m /\ l[i] \in Nat
  OBVIOUS
<1>2. V \subseteq Nat /\ V # {}
  <2>1. \A x \in V : x \in Nat
    BY <1>1
  <2>2. V # {}
    OBVIOUS
  <2> QED  BY <2>1, <2>2
<1>3. PICK v \in V : \A w \in V : v <= w
  BY <1>2, Least
<1> DEFINE I == {i \in can : l[i] = v}
<1>4. PICK k \in can : v = l[k]
  BY <1>3
<1>5. k \in I /\ I \subseteq Nat /\ I # {}
  BY <1>1, <1>4
<1>6. PICK i \in I : \A j \in I : i <= j
  <2> HIDE DEF I
  <2> QED  BY <1>5, Least
<1>7. ASSUME NEW j \in can PROVE l[j] > l[i] \/ (l[j] = l[i] /\ i <= j)
  <2>1. i \in can /\ l[i] = v /\ v <= l[j] /\ l[i] \in Nat /\ l[j] \in Nat
    BY <1>1, <1>3, <1>6
  <2>2. l[j] = l[i] => j \in I
    BY <2>1
  <2> QED  BY <1>6, <2>1, <2>2
<1> QED  BY <1>6, <1>7 DEF IsShortest

\* A free beat that is given a length a beat may have.
LEMMA OneMoved ==
    ASSUME NEW m \in Nat, NEW fixed, NEW d, NEW l \in Lengths(m, fixed, d),
           NEW k \in 1 .. m, k \notin fixed, NEW v \in 5 .. 600
    PROVE  /\ [l EXCEPT ![k] = v] \in Lengths(m, fixed, d)
           /\ AsMuch(l, [l EXCEPT ![k] = v], k)
<1>1. PICK r : r = [l EXCEPT ![k] = v]
  OBVIOUS
<1>2. /\ l \in [1 .. m -> Nat] /\ l \in [1 .. m -> Int]
      /\ \A i \in 1 .. m : IF i \in fixed THEN l[i] = d[i] ELSE l[i] \in 5 .. 600
  BY DEF Lengths
<1>3. /\ r \in [1 .. m -> Nat] /\ r \in [1 .. m -> Int]
      /\ r[k] = v /\ \A i \in 1 .. m : i # k => r[i] = l[i]
  BY <1>1, <1>2
<1>4. ASSUME NEW i \in 1 .. m PROVE IF i \in fixed THEN r[i] = d[i] ELSE r[i] \in 5 .. 600
  <2>1. CASE i = k
    BY <1>3, <2>1
  <2>2. CASE i # k
    BY <1>2, <1>3, <2>2
  <2> QED  BY <2>1, <2>2
<1>5. r \in Lengths(m, fixed, d)
  BY <1>3, <1>4 DEF Lengths
<1>6. AsMuch(l, r, k)
  BY <1>2, <1>3, TotalChanged
<1> QED  BY <1>1, <1>5, <1>6

LEMMA LowerKeeps ==
    ASSUME NEW m \in Nat, NEW fixed, NEW d, NEW l \in Lengths(m, fixed, d)
    PROVE  Sheets!Lower(l, (1 .. m) \ fixed) \in Lengths(m, fixed, d)
<1>1. PICK can : can = {i \in (1 .. m) \ fixed : l[i] - 5 >= 5}
  OBVIOUS
<1>2. PICK at : at = CHOOSE i \in can : IsLongest(l, can, i)
  OBVIOUS
<1>3. Sheets!Lower(l, (1 .. m) \ fixed) = IF can = {} THEN l ELSE [l EXCEPT ![at] = @ - 5]
  BY <1>1, <1>2 DEF Sheets!Lower, Sheets!BeatDurationStep, Sheets!MinBeatSeconds, IsLongest
<1>4. /\ l \in [1 .. m -> Nat]
      /\ \A i \in (1 .. m) \ fixed : l[i] \in 5 .. 600
  BY DEF Lengths
<1>5. can \in SUBSET (1 .. m) /\ \A i \in can : i \in (1 .. m) \ fixed /\ l[i] - 5 >= 5
  BY <1>1
<1>6. CASE can # {}
  <2>1. at \in can
    <3>1. \E i \in can : IsLongest(l, can, i)
      <4>1. ASSUME NEW i \in can PROVE l[i] <= 600
        <5>1. l[i] \in 5 .. 600
          BY <1>4, <1>5
        <5> QED  BY <5>1
      <4> QED  BY <1>4, <1>5, <1>6, <4>1, LongestThere
    <3> QED  BY <1>2, <3>1
  <2>2. PICK v : v = l[at] - 5
    OBVIOUS
  <2>3. at \in 1 .. m /\ at \notin fixed /\ l[at] \in 5 .. 600 /\ l[at] - 5 >= 5
    BY <1>4, <1>5, <2>1
  <2>4. v \in 5 .. 600
    BY <2>2, <2>3
  <2>5. [l EXCEPT ![at] = v] \in Lengths(m, fixed, d)
    BY <2>3, <2>4, OneMoved
  <2> QED  BY <1>3, <1>6, <2>2, <2>5
<1> QED  BY <1>3, <1>6

LEMMA RaiseKeeps ==
    ASSUME NEW m \in Nat, NEW fixed, NEW d, NEW l \in Lengths(m, fixed, d), NEW hook
    PROVE  /\ Sheets!Raise(l, (1 .. m) \ fixed, hook) \in Lengths(m, fixed, d)
           /\ Sheets!Total(Sheets!Raise(l, (1 .. m) \ fixed, hook)) <= Sheets!Total(l) + 5
<1>1. PICK can : can = {i \in (1 .. m) \ fixed : l[i] + 5 <= Sheets!limit(i, hook)}
  OBVIOUS
<1>2. PICK at : at = CHOOSE i \in can : IsShortest(l, can, i)
  OBVIOUS
<1>3. Sheets!Raise(l, (1 .. m) \ fixed, hook) = IF can = {} THEN l ELSE [l EXCEPT ![at] = @ + 5]
  BY <1>1, <1>2 DEF Sheets!Raise, Sheets!BeatDurationStep, IsShortest
<1>4. /\ l \in [1 .. m -> Nat] /\ l \in [1 .. m -> Int]
      /\ \A i \in (1 .. m) \ fixed : l[i] \in 5 .. 600
  <2>1. l \in [1 .. m -> Nat] /\ \A i \in (1 .. m) \ fixed : l[i] \in 5 .. 600
    BY DEF Lengths
  <2> QED  BY <2>1
<1>5. /\ can \in SUBSET (1 .. m)
      /\ \A i \in can : i \in (1 .. m) \ fixed /\ l[i] + 5 <= Sheets!limit(i, hook)
  BY <1>1
<1>6. Sheets!Total(l) \in Int
  BY <1>4, TotalIsInt
<1>7. CASE can # {}
  <2>1. at \in can
    <3>1. \E i \in can : IsShortest(l, can, i)
      BY <1>4, <1>5, <1>7, ShortestThere
    <3> QED  BY <1>2, <3>1
  <2>2. PICK v : v = l[at] + 5
    OBVIOUS
  <2>3. at \in 1 .. m /\ at \notin fixed /\ l[at] \in 5 .. 600 /\ v <= Sheets!limit(at, hook)
    BY <1>4, <1>5, <2>1, <2>2
  <2>4. v \in 5 .. 600 /\ v - l[at] = 5
    BY <2>2, <2>3 DEF Sheets!limit, Sheets!MaxHookSeconds, Sheets!MaxBeatSeconds
  <2>5. /\ [l EXCEPT ![at] = v] \in Lengths(m, fixed, d)
        /\ AsMuch(l, [l EXCEPT ![at] = v], at)
    BY <2>3, <2>4, OneMoved
  <2>6. [l EXCEPT ![at] = v][at] = v
    BY <1>4, <2>3
  <2>7. Sheets!Total([l EXCEPT ![at] = v]) = Sheets!Total(l) + 5
    BY <2>4, <2>5, <2>6 DEF AsMuch
  <2> QED  BY <1>3, <1>6, <1>7, <2>2, <2>5, <2>7
<1>8. CASE can = {}
  BY <1>3, <1>6, <1>8
<1> QED  BY <1>7, <1>8

\* A loop of turns that keep the lengths of beats ends with lengths of beats.
LEMMA ShrunkKeeps ==
    ASSUME NEW m \in Nat, NEW fixed, NEW d, NEW l \in Lengths(m, fixed, d), NEW hi \in Int
    PROVE  Sheets!Shrunk(l, (1 .. m) \ fixed, hi) \in Lengths(m, fixed, d)
<1>1. PICK S : S = Lengths(m, fixed, d)
  OBVIOUS
<1>2. PICK free : free = (1 .. m) \ fixed
  OBVIOUS
<1>3. PICK n : n = Sheets!Turns(Sheets!Total(l) - hi)
  OBVIOUS
<1>4. n \in Nat
  <2>1. l \in [1 .. m -> Int]
    BY DEF Lengths
  <2>2. Sheets!Total(l) \in Int
    BY <2>1, TotalIsInt
  <2> QED  BY <1>3, <2>2 DEF Sheets!Turns, Sheets!BeatDurationStep
<1>5. PICK after : after = CHOOSE z :
          z = [i \in 0 .. n |-> IF i = 0 THEN l ELSE Sheets!Lower(z[i - 1], free)]
  OBVIOUS
<1>6. Sheets!Shrunk(l, free, hi) = after[n]
  BY <1>3, <1>5 DEF Sheets!Shrunk
<1>7. \A x \in S : Sheets!Lower(x, free) \in S
  BY <1>1, <1>2, LowerKeeps
<1>8. PICK g : g = [i \in Nat |-> [x \in S |-> Sheets!Lower(x, free)]]
  OBVIOUS
<1>9. g \in [Nat -> [S -> S]] /\ l \in S
  BY <1>1, <1>7, <1>8
<1>10. PICK f \in [0 .. n -> S] : Turned(f, l, g, n)
  BY <1>4, <1>9, Iterated
<1>11. f = [i \in 0 .. n |-> IF i = 0 THEN l ELSE Sheets!Lower(f[i - 1], free)]
  <2>1. ASSUME NEW i \in 0 .. n, i # 0 PROVE g[i][f[i - 1]] = Sheets!Lower(f[i - 1], free)
    <3>1. i \in Nat /\ i - 1 \in 0 .. n
      BY <1>4, <2>1
    <3>2. f[i - 1] \in S
      BY <3>1
    <3> QED  BY <1>8, <3>1, <3>2
  <2> QED  BY <1>10, <2>1 DEF Turned
<1>12. after = [i \in 0 .. n |-> IF i = 0 THEN l ELSE Sheets!Lower(after[i - 1], free)]
  BY <1>5, <1>11
<1> DEFINE T == {i \in 0 .. n : after[i] \in S}
<1>13. 0 \in T
  BY <1>4, <1>9, <1>12
<1>14. ASSUME NEW i \in 1 .. n, i - 1 \in T PROVE i \in T
  <2>1. after[i] = Sheets!Lower(after[i - 1], free) /\ after[i - 1] \in S
    BY <1>4, <1>12, <1>14
  <2> QED  BY <1>4, <1>7, <2>1
<1>15. n \in T
  <2>1. 0 .. n \subseteq T
    <3> HIDE DEF T
    <3> QED  BY <1>4, <1>13, <1>14, UpTo
  <2> QED  BY <1>4, <2>1
<1> QED  BY <1>1, <1>2, <1>6, <1>15

\* So does the loop that lengthens, and it does not overshoot by a step.
LEMMA GrownKeeps ==
    ASSUME NEW m \in Nat, NEW fixed, NEW d, NEW l \in Lengths(m, fixed, d), NEW lo \in Int, NEW hook
    PROVE  /\ Sheets!Grown(l, (1 .. m) \ fixed, hook, lo) \in Lengths(m, fixed, d)
           /\ \/ Sheets!Grown(l, (1 .. m) \ fixed, hook, lo) = l
              \/ Sheets!Total(Sheets!Grown(l, (1 .. m) \ fixed, hook, lo)) <= lo + 4
<1>1. PICK S : S = Lengths(m, fixed, d)
  OBVIOUS
<1>2. PICK free : free = (1 .. m) \ fixed
  OBVIOUS
<1>3. PICK n : n = Sheets!Turns(lo - Sheets!Total(l))
  OBVIOUS
<1>4. \A x \in S : Sheets!Total(x) \in Int
  <2>1. ASSUME NEW x \in S PROVE x \in [1 .. m -> Int]
    BY <1>1 DEF Lengths
  <2> QED  BY <2>1, TotalIsInt
<1>5. PICK had : had = Sheets!Total(l)
  OBVIOUS
<1>6. had \in Int /\ n \in Nat /\ (n = 0 \/ had + 5 * n <= lo + 4)
  <2>1. had \in Int
    BY <1>1, <1>4, <1>5
  <2>2. n = IF lo - had <= 0 THEN 0 ELSE (lo - had + 5 - 1) \div 5
    BY <1>3, <1>5 DEF Sheets!Turns, Sheets!BeatDurationStep
  <2> QED  BY <2>1, <2>2
<1>7. PICK after : after = CHOOSE z :
          z = [i \in 0 .. n |-> IF i = 0 THEN l ELSE Sheets!Raise(z[i - 1], free, hook)]
  OBVIOUS
<1>8. Sheets!Grown(l, free, hook, lo) = after[n]
  BY <1>3, <1>7 DEF Sheets!Grown
<1>9. \A x \in S : /\ Sheets!Raise(x, free, hook) \in S
                   /\ Sheets!Total(Sheets!Raise(x, free, hook)) <= Sheets!Total(x) + 5
  BY <1>1, <1>2, RaiseKeeps
<1>10. PICK g : g = [i \in Nat |-> [x \in S |-> Sheets!Raise(x, free, hook)]]
  OBVIOUS
<1>11. g \in [Nat -> [S -> S]] /\ l \in S
  BY <1>1, <1>9, <1>10
<1>12. PICK f \in [0 .. n -> S] : Turned(f, l, g, n)
  BY <1>6, <1>11, Iterated
<1>13. f = [i \in 0 .. n |-> IF i = 0 THEN l ELSE Sheets!Raise(f[i - 1], free, hook)]
  <2>1. ASSUME NEW i \in 0 .. n, i # 0 PROVE g[i][f[i - 1]] = Sheets!Raise(f[i - 1], free, hook)
    <3>1. i \in Nat /\ i - 1 \in 0 .. n
      BY <1>6, <2>1
    <3>2. f[i - 1] \in S
      BY <3>1
    <3> QED  BY <1>10, <3>1, <3>2
  <2> QED  BY <1>12, <2>1 DEF Turned
<1>14. after = [i \in 0 .. n |-> IF i = 0 THEN l ELSE Sheets!Raise(after[i - 1], free, hook)]
  BY <1>7, <1>13
<1> DEFINE T == {i \in 0 .. n : after[i] \in S /\ Sheets!Total(after[i]) <= had + 5 * i}
<1>15. 0 \in T
  <2>1. after[0] = l
    BY <1>6, <1>14
  <2> QED  BY <1>4, <1>5, <1>6, <1>11, <2>1
<1>16. ASSUME NEW i \in 1 .. n, i - 1 \in T PROVE i \in T
  <2>1. /\ i \in 0 .. n /\ after[i] = Sheets!Raise(after[i - 1], free, hook)
        /\ after[i - 1] \in S /\ Sheets!Total(after[i - 1]) <= had + 5 * (i - 1)
    BY <1>6, <1>14, <1>16
  <2>2. after[i] \in S /\ Sheets!Total(after[i]) <= Sheets!Total(after[i - 1]) + 5
    BY <1>9, <2>1
  <2>3. Sheets!Total(after[i]) \in Int /\ Sheets!Total(after[i - 1]) \in Int
    BY <1>4, <2>1, <2>2
  <2>4. Sheets!Total(after[i]) <= had + 5 * i
    BY <1>6, <2>1, <2>2, <2>3
  <2> QED  BY <2>1, <2>2, <2>4
<1>17. n \in T
  <2>1. 0 .. n \subseteq T
    <3> HIDE DEF T
    <3> QED  BY <1>6, <1>15, <1>16, UpTo
  <2> QED  BY <1>6, <2>1
<1>18. CASE n = 0
  <2>1. after[n] = l
    BY <1>6, <1>14, <1>18
  <2> QED  BY <1>1, <1>2, <1>8, <1>11, <2>1
<1>19. CASE had + 5 * n <= lo + 4
  <2>1. after[n] \in S /\ Sheets!Total(after[n]) <= had + 5 * n /\ Sheets!Total(after[n]) \in Int
    BY <1>4, <1>17
  <2>2. Sheets!Total(after[n]) <= lo + 4
    BY <1>6, <1>19, <2>1
  <2> QED  BY <1>1, <1>2, <1>8, <2>1, <2>2
<1> QED  BY <1>6, <1>18, <1>19

\* Scaling leaves the fixed lengths and gives the others one a beat may have.
LEMMA ScaledKeeps ==
    ASSUME NEW m \in Nat, NEW l \in [1 .. m -> Nat \ {0}], NEW fixed \in SUBSET (1 .. m),
           NEW room \in Nat, NEW hook, (1 .. m) \ fixed # {}
    PROVE  Sheets!Scaled(l, (1 .. m) \ fixed, hook, room) \in Lengths(m, fixed, l)
<1>1. PICK free : free = (1 .. m) \ fixed
  OBVIOUS
<1>2. l \in Seq(Nat) /\ Len(l) = m
  OBVIOUS
<1>3. PICK part_l : part_l = [i \in 1 .. m |-> IF i \in free THEN l[i] ELSE 0]
  OBVIOUS
<1>4. PICK w : w = Sheets!Total(part_l)
  OBVIOUS
<1>5. w \in Nat \ {0}
  <2>1. part_l \in [1 .. m -> Nat] /\ part_l \in [1 .. m -> Int]
    BY <1>3
  <2>2. PICK k \in 1 .. m : k \in free
    BY <1>1
  <2>3. part_l[k] = l[k] /\ l[k] \in Nat \ {0}
    BY <1>3, <2>2
  <2>4. Sheets!Total(part_l) \in Int /\ Sheets!Total(part_l) >= part_l[k]
    BY <2>1, TotalIsInt, TotalCovers
  <2> QED  BY <1>4, <2>3, <2>4
<1>6. PICK r : r = [i \in 1 .. m |-> 5 * ((2 * l[i] * room + 5 * w) \div (2 * 5 * w))]
  OBVIOUS
<1>7. \A i \in 1 .. m : r[i] \in Int
  <2>1. ASSUME NEW i \in 1 .. m PROVE r[i] \in Int
    <3>1. PICK a : a = 2 * l[i] * room + 5 * w
      OBVIOUS
    <3>2. PICK b : b = 2 * 5 * w
      OBVIOUS
    <3>3. PICK p : p = 2 * l[i]
      OBVIOUS
    <3>4. p \in Nat
      BY <3>3
    <3>5. p * room \in Nat
      BY <3>4
    <3>6. a \in Nat /\ b \in Nat \ {0}
      BY <1>5, <3>1, <3>2, <3>3, <3>5
    <3>7. a \div b \in Int
      BY <3>6
    <3>8. r[i] = 5 * (a \div b)
      BY <1>6, <3>1, <3>2
    <3> QED  BY <3>7, <3>8
  <2> QED  BY <2>1
<1>8. PICK z : z = Sheets!Scaled(l, free, hook, room)
  OBVIOUS
<1>9. z = [i \in 1 .. m |-> IF i \in free
             THEN Sheets!AtMost(Sheets!AtLeast(r[i], 5), Sheets!limit(i, hook)) ELSE l[i]]
  BY <1>2, <1>3, <1>4, <1>6, <1>8 DEF Sheets!Scaled, Sheets!BeatDurationStep, Sheets!MinBeatSeconds
<1>10. ASSUME NEW i \in free PROVE z[i] \in 5 .. 600
  <2>1. i \in 1 .. m /\ r[i] \in Int
    BY <1>1, <1>7
  <2>2. Sheets!limit(i, hook) \in {20, 600}
    BY DEF Sheets!limit, Sheets!MaxHookSeconds, Sheets!MaxBeatSeconds
  <2>3. z[i] = Sheets!AtMost(Sheets!AtLeast(r[i], 5), Sheets!limit(i, hook))
    BY <1>9, <2>1
  <2>4. PICK least : least = Sheets!AtLeast(r[i], 5)
    OBVIOUS
  <2>5. least \in Int /\ least >= 5
    BY <2>1, <2>4 DEF Sheets!AtLeast
  <2>6. PICK most : most = Sheets!limit(i, hook)
    OBVIOUS
  <2>7. z[i] = IF least < most THEN least ELSE most
    BY <2>3, <2>4, <2>6 DEF Sheets!AtMost
  <2>8. most \in {20, 600}
    BY <2>2, <2>6
  <2> HIDE DEF Lengths
  <2> QED  BY <2>5, <2>7, <2>8
<1>11. ASSUME NEW i \in 1 .. m PROVE /\ z[i] \in Nat
                                     /\ IF i \in fixed THEN z[i] = l[i] ELSE z[i] \in 5 .. 600
  <2>1. CASE i \in fixed
    BY <1>1, <1>9, <2>1
  <2>2. CASE i \notin fixed
    <3>1. z[i] \in 5 .. 600
      BY <1>1, <1>10, <2>2
    <3>2. \A v \in 5 .. 600 : v \in Nat
      OBVIOUS
    <3>3. z[i] \in Nat
      BY <3>1, <3>2
    <3> QED  BY <2>2, <3>1, <3>3
  <2> QED  BY <2>1, <2>2
<1>12. DOMAIN z = 1 .. m /\ z = [i \in 1 .. m |-> z[i]]
  BY <1>9
<1>13. z \in [1 .. m -> Nat]
  BY <1>11, <1>12
<1> QED  BY <1>1, <1>8, <1>11, <1>13 DEF Lengths

\* What balancing gives: lengths beats may have, the fixed ones as they were,
\* in the target together.
LEMMA Balances ==
    ASSUME NEW m \in Nat, NEW l \in [1 .. m -> Nat \ {0}], NEW fixed \in SUBSET (1 .. m),
           NEW hook, NEW tgt, tgt.lo \in Nat, tgt.hi \in Nat, tgt.lo + 4 <= tgt.hi,
           NEW d \in Sheets!BalanceSeconds(l, fixed, hook, tgt)
    PROVE  /\ d \in [1 .. m -> Nat \ {0}]
           /\ \A i \in fixed : d[i] = l[i]
           /\ Sheets!Total(d) \in tgt.lo .. tgt.hi
<1>1. PICK free : free = (1 .. m) \ fixed
  OBVIOUS
<1>2. l \in Seq(Nat) /\ Len(l) = m /\ l \in [1 .. m -> Int]
  OBVIOUS
<1>3. PICK total : total = Sheets!Total(l)
  OBVIOUS
<1>4. total \in Int
  BY <1>2, <1>3, TotalIsInt
<1>5. PICK kept : kept = [i \in 1 .. m |-> IF i \in fixed THEN l[i] ELSE 0]
  OBVIOUS
<1>6. PICK room : room = (IF total > tgt.hi THEN tgt.hi ELSE tgt.lo) - Sheets!Total(kept)
  OBVIOUS
<1>7. room \in Int
  <2>1. kept \in [1 .. m -> Int]
    BY <1>2, <1>5
  <2>2. Sheets!Total(kept) \in Int
    BY <2>1, TotalIsInt
  <2> QED  BY <1>6, <2>2
<1>8. PICK x : x = Sheets!Shrunk(Sheets!Scaled(l, free, hook, room), free, tgt.hi)
  OBVIOUS
<1>9. PICK y : y = Sheets!Grown(x, free, hook, tgt.lo)
  OBVIOUS
<1>10. PICK c : c = Sheets!Cardinality(free)
  OBVIOUS
<1>11. d \in (IF total \in tgt.lo .. tgt.hi THEN {l}
        ELSE IF free = {} \/ room < c * 5 THEN {}
        ELSE IF Sheets!Total(x) > tgt.hi \/ Sheets!Total(y) < tgt.lo THEN {}
        ELSE {y})
  BY <1>1, <1>2, <1>3, <1>5, <1>6, <1>8, <1>9, <1>10 DEF Sheets!BalanceSeconds, Sheets!MinBeatSeconds
<1>12. CASE total \in tgt.lo .. tgt.hi
  BY <1>3, <1>11, <1>12
<1>13. CASE total \notin tgt.lo .. tgt.hi
  <2>1. /\ free # {} /\ ~ (room < c * 5) /\ d = y
        /\ ~ (Sheets!Total(x) > tgt.hi) /\ ~ (Sheets!Total(y) < tgt.lo)
    BY <1>11, <1>13
  <2>2. room \in Nat
    <3>1. c \in Nat
      <4>1. IsFiniteSet(1 .. m) /\ free \subseteq 1 .. m
        BY <1>1, FS_Interval
      <4>2. IsFiniteSet(free)
        BY <4>1, FS_Subset
      <4>3. Cardinality(free) \in Nat
        BY <4>2, FS_CardinalityType
      <4>4. c = Cardinality(free)
        BY <1>10 DEF Sheets!Cardinality, Cardinality, Sheets!IsFiniteSet, IsFiniteSet
      <4> QED  BY <4>3, <4>4
    <3> QED  BY <1>7, <2>1, <3>1
  <2>3. PICK s : s = Sheets!Scaled(l, free, hook, room)
    OBVIOUS
  <2>4. s \in Lengths(m, fixed, l)
    BY <1>1, <2>1, <2>2, <2>3, ScaledKeeps
  <2>5. x \in Lengths(m, fixed, l)
    BY <1>1, <1>8, <2>3, <2>4, ShrunkKeeps
  <2>6. y \in Lengths(m, fixed, l) /\ (y = x \/ Sheets!Total(y) <= tgt.lo + 4)
    BY <1>1, <1>9, <2>5, GrownKeeps
  <2>7. /\ x \in [1 .. m -> Nat] /\ y \in [1 .. m -> Nat] /\ x \in [1 .. m -> Int] /\ y \in [1 .. m -> Int]
        /\ \A i \in 1 .. m : IF i \in fixed THEN y[i] = l[i] ELSE y[i] \in 5 .. 600
    <3>1. /\ x \in [1 .. m -> Nat] /\ y \in [1 .. m -> Nat]
          /\ \A i \in 1 .. m : IF i \in fixed THEN y[i] = l[i] ELSE y[i] \in 5 .. 600
      BY <2>5, <2>6 DEF Lengths
    <3> QED  BY <3>1
  <2>8. Sheets!Total(x) \in Int /\ Sheets!Total(y) \in Int
    BY <2>7, TotalIsInt
  <2>9. Sheets!Total(y) \in tgt.lo .. tgt.hi
    BY <2>1, <2>6, <2>8
  <2>10. ASSUME NEW i \in 1 .. m PROVE y[i] \in Nat \ {0}
    <3>1. IF i \in fixed THEN y[i] = l[i] ELSE y[i] \in 5 .. 600
      BY <2>7
    <3>2. l[i] \in Nat \ {0} /\ \A v \in 5 .. 600 : v \in Nat \ {0}
      OBVIOUS
    <3>3. CASE i \in fixed
      BY <3>1, <3>2, <3>3
    <3>4. CASE i \notin fixed
      <4>1. y[i] \in 5 .. 600
        BY <3>1, <3>4
      <4> QED  BY <3>2, <4>1
    <3> QED  BY <3>3, <3>4
  <2>11. y \in [1 .. m -> Nat \ {0}]
    BY <2>7, <2>10
  <2>12. \A i \in fixed : y[i] = l[i]
    BY <2>7
  <2> QED  BY <2>1, <2>9, <2>11, <2>12
<1> QED  BY <1>12, <1>13

-----------------------------------------------------------------------------
(* The beat sheet: the invariant.                                          *)

SheetBeats == {b \in Sheets!Beat : b.dur >= 1}

\* Keys are given once, from the counter.
GoodSheets ==
    {s \in [beats : Seq(SheetBeats), nextSeq : Nat \ {0}, skeletonApproved : BOOLEAN] :
        /\ \A i, k \in DOMAIN s.beats : s.beats[i].key = s.beats[k].key => i = k
        /\ \A i \in DOMAIN s.beats : s.beats[i].key < s.nextSeq}

SheetOps == {"BuildSkeleton", "ApproveSkeleton", "GenerateAll", "GenerateUnwritten", "Redo",
             "AddBlank", "AddWritten", "EditWords", "EmptyWords", "EditDur", "EditOther",
             "Approve", "Unapprove", "Delete", "Reorder"}

\* A request on one beat names one that it has read, a request for a new beat
\* the one before it.
SheetJobs ==
    {j \in [op : SheetOps, key : Nat, read : GoodSheets] :
        /\ j.op \in Sheets!Touches \cup {"Delete", "Redo"} => j.key \in Sheets!Keys(j.read.beats)
        /\ j.op \in {"AddBlank", "AddWritten"} =>
              IF j.key = 0 THEN j.read.beats = <<>> ELSE j.key \in Sheets!Keys(j.read.beats)}

SheetInv ==
    /\ story \in [version : 1 .. MaxStories, approved : BOOLEAN]
    /\ sheetEditable \in BOOLEAN
    /\ sheet \in GoodSheets
    /\ sheetJob \in [Threads -> SheetJobs \cup {Sheets!Idle}]
    /\ sheetRequests \in 0 .. MaxSheetRequests

\* What the request j leaves of the beat b, as c.
SparesBeat(j, b, c) ==
    /\ b.status = "approved" /\ c.status = "approved" => b.words = c.words /\ b.dur = c.dur
    /\ b.words = "creator" /\ c.words # "creator" => j.op \in {"EmptyWords", "Redo"} /\ j.key = b.key
    /\ b.mineDur /\ c.dur # b.dur => j.op = "EditDur" /\ j.key = b.key

\* Every beat of the new sheet is one of the old, spared, or has a new key.
Follows(j, new) ==
    \A k \in DOMAIN new.beats :
        \/ new.beats[k].key >= j.read.nextSeq
        \/ \E i \in DOMAIN j.read.beats :
              /\ new.beats[k].key = j.read.beats[i].key
              /\ SparesBeat(j, j.read.beats[i], new.beats[k])

\* The sheet a request stores.
Stores(t, new) ==
    /\ sheetJob[t] # Sheets!Idle /\ new \in GoodSheets /\ Follows(sheetJob[t], new)
    /\ sheet' = new /\ sheetJob' = [sheetJob EXCEPT ![t] = Sheets!Idle]
    /\ UNCHANGED <<story, sheetEditable, sheetRequests>>

LEMMA SheetConstants ==
    /\ ChainSteps \in Nat /\ MaxStories \in Nat \ {0} /\ MaxSheetRequests \in Nat
    /\ TargetSeconds \in 60 .. 1800
    /\ Sheets!target.lo \in Nat /\ Sheets!target.hi \in Nat
    /\ Sheets!target.lo + 4 <= Sheets!target.hi
<1>1. /\ ChainSteps \in Nat /\ MaxStories \in Nat \ {0} /\ MaxSheetRequests \in Nat
      /\ TargetSeconds \in 60 .. 1800
  BY SheetsAssumption DEF Sheets!LengthsAssumption, Sheets!BoundsAssumption,
     Sheets!ShortMinSeconds, Sheets!LongMaxSeconds
<1>2. /\ Sheets!target.lo = (TargetSeconds * 90 + 50) \div 100
      /\ Sheets!target.hi = (TargetSeconds * 110 + 50) \div 100
  BY DEF Sheets!target, Sheets!NewTargetLength
<1> QED  BY <1>1, <1>2

\* A request under way holds a good sheet.
LEMMA SheetJobIs ==
    ASSUME SheetInv, NEW t \in Threads, sheetJob[t] # Sheets!Idle
    PROVE  /\ sheetJob[t] \in SheetJobs
           /\ sheetJob[t].read \in GoodSheets
           /\ sheetJob[t].read.beats \in Seq(SheetBeats)
           /\ sheetJob[t].op \in SheetOps /\ sheetJob[t].key \in Nat
<1>1. sheetJob[t] \in SheetJobs
  BY DEF SheetInv
<1> QED  BY <1>1 DEF SheetJobs, GoodSheets

\* The beat a request names is in the sheet it read.
LEMMA NamedBeat ==
    ASSUME NEW beats \in Seq(SheetBeats), NEW key \in Sheets!Keys(beats)
    PROVE  /\ Sheets!indexOfBeat(beats, key) \in DOMAIN beats
           /\ beats[Sheets!indexOfBeat(beats, key)].key = key
BY DEF Sheets!Keys, Sheets!indexOfBeat

\* What a beat with a field changed is.
LEMMA BeatWritten ==
    ASSUME NEW b \in SheetBeats, NEW words \in Sheets!Words, NEW mineDur \in BOOLEAN,
           NEW dur \in Nat \ {0}, NEW status \in {"pending", "approved"},
           NEW hash \in 0 .. MaxStories
    PROVE  [b EXCEPT !.words = words, !.mineDur = mineDur, !.dur = dur, !.status = status,
                     !.storyHash = hash] \in SheetBeats
<1>1. PICK c : c = [b EXCEPT !.words = words, !.mineDur = mineDur, !.dur = dur, !.status = status,
                            !.storyHash = hash]
  OBVIOUS
<1>2. b \in Sheets!Beat /\ dur \in Nat /\ dur >= 1
  BY DEF SheetBeats
<1>3. c \in Sheets!Beat
  BY <1>1, <1>2 DEF Sheets!Beat
<1>4. c.dur = dur
  BY <1>1, <1>2 DEF Sheets!Beat
<1> QED  BY <1>1, <1>2, <1>3, <1>4 DEF SheetBeats

BeatOf(k, h, w, m, d, s, x) ==
    [key |-> k, hook |-> h, words |-> w, mineDur |-> m, dur |-> d, status |-> s, storyHash |-> x]

Sized(b, h, d) == [b EXCEPT !.hook = h, !.dur = d]

LEMMA SlotWritten ==
    ASSUME NEW k, NEW h, NEW w, NEW m, NEW d, NEW s, NEW x, NEW h2, NEW d2
    PROVE  Sized(BeatOf(k, h, w, m, d, s, x), h2, d2) = BeatOf(k, h2, w, m, d2, s, x)
<1>1. PICK a : a = BeatOf(k, h, w, m, d, s, x)
  OBVIOUS
<1>2. Sized(a, h2, d2) = [[a EXCEPT !.hook = h2] EXCEPT !.dur = d2]
  BY DEF Sized
<1>3. [BeatOf(k, h, w, m, d, s, x) EXCEPT !.hook = h2] = BeatOf(k, h2, w, m, d, s, x)
  BY SMT DEF BeatOf
<1>4. [BeatOf(k, h2, w, m, d, s, x) EXCEPT !.dur = d2] = BeatOf(k, h2, w, m, d2, s, x)
  BY SMT DEF BeatOf
<1> QED  BY <1>1, <1>2, <1>3, <1>4, Zenon

\* The durations of beats, as lengths.
LEMMA DursAre ==
    ASSUME NEW beats \in Seq(SheetBeats)
    PROVE  /\ Len(beats) \in Nat
           /\ Sheets!Durs(beats) \in [1 .. Len(beats) -> Nat \ {0}]
           /\ \A i \in 1 .. Len(beats) : Sheets!Durs(beats)[i] = beats[i].dur
<1>1. \A i \in 1 .. Len(beats) : beats[i].dur \in Nat \ {0}
  <2>1. ASSUME NEW i \in 1 .. Len(beats) PROVE beats[i].dur \in Nat \ {0}
    <3>1. beats[i] \in SheetBeats
      OBVIOUS
    <3> QED  BY <3>1 DEF SheetBeats, Sheets!Beat
  <2> QED  BY <2>1
<1> QED  BY <1>1 DEF Sheets!Durs

-----------------------------------------------------------------------------
(* The beat sheet: what the requests save.                                 *)

\* A sheet stored by saveSheet.
LEMMA SavedStores ==
    ASSUME NEW t \in Threads, NEW new \in GoodSheets, Sheets!saveSheet(t, new),
           sheetJob[t] # Sheets!Idle, Follows(sheetJob[t], new)
    PROVE  Stores(t, new)
BY DEF Sheets!saveSheet, Stores

\* A request is none while no thread serves it.
LEMMA NoneUnderWay ==
    ASSUME NEW t, sheetJob[t].op \in SheetOps PROVE sheetJob[t] # Sheets!Idle
BY DEF SheetOps, Sheets!Idle

LEMMA SkeletonStores ==
    ASSUME SheetInv, NEW t \in Threads, Sheets!EndBuildSkeleton(t)
    PROVE  \E new : Stores(t, new)
<1>1. sheetJob[t] # Sheets!Idle
  BY NoneUnderWay DEF Sheets!EndBuildSkeleton, SheetOps
<1>2. PICK r \in GoodSheets : r = sheetJob[t].read
  BY <1>1, SheetJobIs
<1>3. story.version \in 1 .. MaxStories /\ r.nextSeq \in Nat \ {0} /\ ChainSteps \in Nat
  BY <1>2, SheetConstants DEF SheetInv, GoodSheets
<1>4. PICK n : n = ChainSteps + 2
  OBVIOUS
<1>5. PICK each : each = Sheets!SkeletonShare(n, Sheets!target)
  OBVIOUS
<1>6. n \in Nat /\ n >= 2 /\ each \in Nat \ {0}
  <2>1. PICK share : share = ((Sheets!target.lo + Sheets!target.hi) \div 2 - 15) \div (n - 1)
    OBVIOUS
  <2>2. n \in Nat /\ n >= 2 /\ share \in Int
    BY <1>3, <1>4, <2>1, SheetConstants
  <2>3. each = IF share > 5 THEN (share \div 5) * 5 ELSE 5
    BY <1>5, <2>1 DEF Sheets!SkeletonShare, Sheets!MinBeatSeconds, Sheets!BeatDurationStep,
       Sheets!provisionalHookSeconds
  <2> QED  BY <2>2, <2>3
<1>7. PICK Slot : Slot = [i \in 1 .. n |->
          [key |-> r.nextSeq + i - 1, hook |-> i = 1, words |-> "none", mineDur |-> FALSE,
           dur |-> IF i = 1 THEN 15 ELSE each, status |-> "pending", storyHash |-> story.version]]
  OBVIOUS
<1>8. PICK new : new = [beats |-> Slot, nextSeq |-> r.nextSeq + n, skeletonApproved |-> FALSE]
  OBVIOUS
<1>9. Sheets!saveSheet(t, new)
  <2>1. Sheets!Skeleton(r, story.version) = new
    <3>1. ASSUME NEW i \in 1 .. n
          PROVE  [Sheets!newBeatSlot(r.nextSeq + i - 1, story.version) EXCEPT
                     !.hook = (i = 1), !.dur = IF i = 1 THEN 15 ELSE each] = Slot[i]
      <4>1. PICK d : d = IF i = 1 THEN 15 ELSE each
        OBVIOUS
      <4>2. PICK h : h = (i = 1)
        OBVIOUS
      <4>3. PICK k : k = r.nextSeq + i - 1
        OBVIOUS
      <4>4. Slot[i] = [key |-> k, hook |-> h, words |-> "none", mineDur |-> FALSE, dur |-> d,
                       status |-> "pending", storyHash |-> story.version]
        BY <1>7, <4>1, <4>2, <4>3
      <4>5. [Sheets!newBeatSlot(k, story.version) EXCEPT !.hook = h, !.dur = d]
              = [key |-> k, hook |-> h, words |-> "none", mineDur |-> FALSE, dur |-> d,
                 status |-> "pending", storyHash |-> story.version]
        <5>1. PICK no : no = FALSE
          OBVIOUS
        <5>2. Sheets!newBeatSlot(k, story.version)
                = BeatOf(k, no, "none", no, 15, "pending", story.version)
          BY <5>1 DEF Sheets!newBeatSlot, Sheets!blankSeconds, BeatOf
        <5>3. Sized(BeatOf(k, no, "none", no, 15, "pending", story.version), h, d)
                = BeatOf(k, h, "none", no, d, "pending", story.version)
          BY SlotWritten
        <5> QED  BY <5>1, <5>2, <5>3 DEF BeatOf, Sized
      <4> QED  BY <4>1, <4>2, <4>3, <4>4, <4>5
    <3> QED  BY <1>4, <1>5, <1>7, <1>8, <3>1 DEF Sheets!Skeleton, Sheets!provisionalHookSeconds
  <2> QED  BY <1>2, <2>1 DEF Sheets!EndBuildSkeleton
<1>10. ASSUME NEW i \in 1 .. n
       PROVE  Slot[i] \in SheetBeats /\ Slot[i].key = r.nextSeq + i - 1
  <2>1. PICK d : d = IF i = 1 THEN 15 ELSE each
    OBVIOUS
  <2>2. PICK h : h = (i = 1)
    OBVIOUS
  <2>3. PICK k : k = r.nextSeq + i - 1
    OBVIOUS
  <2>4. Slot[i] = [key |-> k, hook |-> h, words |-> "none", mineDur |-> FALSE, dur |-> d,
                   status |-> "pending", storyHash |-> story.version]
    BY <1>7, <2>1, <2>2, <2>3
  <2>5. d \in Nat /\ d >= 1 /\ h \in BOOLEAN /\ k \in Nat \ {0} /\ story.version \in 0 .. MaxStories
    BY <1>3, <1>6, <2>1, <2>2, <2>3
  <2> QED  BY <2>3, <2>4, <2>5 DEF SheetBeats, Sheets!Beat, Sheets!Words
<1>11. Slot \in Seq(SheetBeats) /\ DOMAIN Slot = 1 .. n
  BY <1>6, <1>7, <1>10
<1>12. new \in GoodSheets
  <2>1. \A i, k \in 1 .. n : Slot[i].key = Slot[k].key => i = k
    BY <1>3, <1>6, <1>10
  <2>2. \A i \in 1 .. n : Slot[i].key < r.nextSeq + n
    BY <1>3, <1>6, <1>10
  <2>3. r.nextSeq + n \in Nat \ {0}
    BY <1>3, <1>6
  <2> QED  BY <1>8, <1>11, <2>1, <2>2, <2>3 DEF GoodSheets
<1>13. Follows(sheetJob[t], new)
  <2>1. \A i \in 1 .. n : Slot[i].key >= r.nextSeq
    BY <1>3, <1>6, <1>10
  <2> QED  BY <1>2, <1>8, <1>11, <2>1 DEF Follows
<1> QED  BY <1>1, <1>9, <1>12, <1>13, SavedStores

\* A beat is spared by what leaves it as it is.
LEMMA SpareSame == \A j, b : SparesBeat(j, b, b)
BY DEF SparesBeat

LEMMA ApprovedSkeletonStores ==
    ASSUME SheetInv, NEW t \in Threads, Sheets!EndApproveSkeleton(t)
    PROVE  \E new : Stores(t, new)
<1>1. sheetJob[t] # Sheets!Idle
  BY NoneUnderWay DEF Sheets!EndApproveSkeleton, SheetOps
<1>2. PICK r \in GoodSheets : r = sheetJob[t].read
  BY <1>1, SheetJobIs
<1>3. PICK new : new = [r EXCEPT !.skeletonApproved = TRUE]
  OBVIOUS
<1>4. new \in GoodSheets /\ new.beats = r.beats
  BY <1>3 DEF GoodSheets
<1>5. Follows(sheetJob[t], new)
  BY <1>2, <1>4, SpareSame DEF Follows
<1> QED  BY <1>1, <1>2, <1>3, <1>4, <1>5, SavedStores DEF Sheets!EndApproveSkeleton

\* A beat the model writes keeps its key and what the Creator wrote.
WrittenAs(j, b, c) ==
    /\ c \in SheetBeats
    /\ c.key = b.key /\ c.mineDur = b.mineDur /\ c.status = b.status
    /\ b.words = "creator" /\ j.op # "Redo" => c.words = "creator"
    /\ b.mineDur => c.dur = b.dur

LEMMA WrittenOne ==
    ASSUME NEW j, NEW b \in SheetBeats, NEW seconds \in 5 .. 600,
           NEW c, c = Sheets!writeOne(j, b, seconds)
    PROVE  WrittenAs(j, b, c)
<1>1. PICK words : words = IF b.words = "creator" /\ j.op # "Redo" THEN b.words ELSE "ai"
  OBVIOUS
<1>2. PICK dur : dur = IF b.mineDur THEN b.dur ELSE seconds
  OBVIOUS
<1>3. c = [b EXCEPT !.words = words, !.dur = dur]
  BY <1>1, <1>2 DEF Sheets!writeOne
<1>4. b \in Sheets!Beat /\ b.dur \in Nat /\ b.dur >= 1 /\ b.words \in Sheets!Words
  BY DEF SheetBeats, Sheets!Beat
<1>5. dur \in Nat /\ dur >= 1
  BY <1>2, <1>4
<1>6. words \in Sheets!Words
  BY <1>1, <1>4 DEF Sheets!Words
<1>7. /\ c \in Sheets!Beat
      /\ c.key = b.key /\ c.mineDur = b.mineDur /\ c.status = b.status
      /\ c.words = words /\ c.dur = dur
  BY <1>3, <1>4, <1>5, <1>6 DEF Sheets!Beat
<1>8. c \in SheetBeats
  BY <1>5, <1>7 DEF SheetBeats
<1> QED  BY <1>1, <1>2, <1>7, <1>8 DEF WrittenAs

\* The lengths the sheet is given.
LEMMA BalancedLengths ==
    ASSUME NEW work \in Seq(SheetBeats), NEW rewritten, NEW d \in Sheets!Balanced(work, rewritten)
    PROVE  /\ d \in [1 .. Len(work) -> Nat \ {0}]
           /\ \A i \in 1 .. Len(work) :
                 work[i].mineDur \/ (i \notin rewritten /\ work[i].status = "approved")
                     => d[i] = work[i].dur
           /\ Sheets!AllWritten(work) => Sheets!Total(d) \in Sheets!target.lo .. Sheets!target.hi
<1>1. PICK m \in Nat : m = Len(work)
  OBVIOUS
<1>2. PICK l \in [1 .. m -> Nat \ {0}] :
         l = Sheets!Durs(work) /\ \A i \in 1 .. m : l[i] = work[i].dur
  BY <1>1, DursAre
<1>3. CASE ~ Sheets!AllWritten(work)
  <2>1. d = l
    BY <1>2, <1>3 DEF Sheets!Balanced
  <2> QED  BY <1>1, <1>2, <1>3, <2>1
<1>4. CASE Sheets!AllWritten(work)
  <2>1. PICK fixed : fixed = Sheets!fixedIn(work, rewritten)
    OBVIOUS
  <2>2. DOMAIN work = 1 .. m
    BY <1>1
  <2>3. /\ fixed \in SUBSET (1 .. m)
        /\ \A i \in 1 .. m : i \in fixed <=>
              work[i].mineDur \/ (i \notin rewritten /\ work[i].status = "approved")
    BY <2>1, <2>2 DEF Sheets!fixedIn
  <2>4. PICK hook : hook = Sheets!Hooked(work)
    OBVIOUS
  <2>5. PICK tgt : tgt = Sheets!target
    OBVIOUS
  <2>6. d \in Sheets!BalanceSeconds(l, fixed, hook, tgt)
    BY <1>2, <1>4, <2>1, <2>4, <2>5 DEF Sheets!Balanced
  <2>7. tgt.lo \in Nat /\ tgt.hi \in Nat /\ tgt.lo + 4 <= tgt.hi
    BY <2>5, SheetConstants
  <2>8. /\ d \in [1 .. m -> Nat \ {0}]
        /\ \A i \in fixed : d[i] = l[i]
        /\ Sheets!Total(d) \in tgt.lo .. tgt.hi
    BY <2>3, <2>6, <2>7, Balances
  <2> QED  BY <1>1, <1>2, <2>3, <2>5, <2>8
<1> QED  BY <1>3, <1>4

\* Every beat written stands in the total, whatever was asked for.
Fits(beats) ==
    Sheets!AllWritten(beats) => Sheets!Total(Sheets!Durs(beats)) \in Sheets!target.lo .. Sheets!target.hi

LEMMA ContentStores ==
    ASSUME SheetInv, NEW t \in Threads, Sheets!EndContent(t)
    PROVE  \E new : Stores(t, new) /\ Fits(new.beats)
<1>1. sheetJob[t] # Sheets!Idle
  BY NoneUnderWay DEF Sheets!EndContent, SheetOps
<1>2. PICK j : j = sheetJob[t]
  OBVIOUS
<1>3. PICK r \in GoodSheets : r = j.read /\ r.beats \in Seq(SheetBeats)
  BY <1>1, <1>2, SheetJobIs
<1>4. PICK beats \in Seq(SheetBeats) : beats = r.beats
  BY <1>3
<1>5. PICK m \in Nat : m = Len(beats) /\ DOMAIN beats = 1 .. m
  BY <1>4
<1>6. PICK rewritten : rewritten = Sheets!Rewritten(j)
  OBVIOUS
<1>7. /\ rewritten \subseteq 1 .. m
      /\ \A i \in rewritten : j.op = "Redo" => beats[i].key = j.key
  BY <1>3, <1>4, <1>5, <1>6 DEF Sheets!Rewritten
<1>8. story.version \in 0 .. MaxStories
  BY SheetConstants DEF SheetInv
<1>9. PICK reply \in [rewritten -> Sheets!ParseBeatsReply] :
         Sheets!saveContent(t,
             [i \in 1 .. Len(beats) |->
                 IF i \in rewritten THEN Sheets!writeOne(j, beats[i], reply[i]) ELSE beats[i]],
             rewritten)
  BY <1>2, <1>3, <1>4, <1>6 DEF Sheets!EndContent
<1>10. PICK work : work = [i \in 1 .. m |->
           IF i \in rewritten THEN Sheets!writeOne(j, beats[i], reply[i]) ELSE beats[i]]
  OBVIOUS
<1>11. PICK d \in Sheets!Balanced(work, rewritten) :
         Sheets!saveSheet(t, [r EXCEPT !.beats =
            [i \in 1 .. Len(work) |->
                IF i \in rewritten
                THEN [work[i] EXCEPT !.dur = d[i], !.status = "pending",
                                     !.storyHash = story.version]
                ELSE [work[i] EXCEPT !.dur = d[i]]]])
  <2>1. Sheets!saveContent(t, work, rewritten)
    BY <1>5, <1>9, <1>10
  <2> QED  BY <1>2, <1>3, <2>1 DEF Sheets!saveContent
<1>12. ASSUME NEW i \in 1 .. m
       PROVE  /\ work[i] \in SheetBeats
              /\ work[i].key = beats[i].key /\ work[i].mineDur = beats[i].mineDur
              /\ work[i].status = beats[i].status
              /\ i \notin rewritten \/ (beats[i].words = "creator" /\ j.op # "Redo")
                    => work[i].words = beats[i].words
              /\ i \notin rewritten \/ beats[i].mineDur => work[i].dur = beats[i].dur
  <2>1. beats[i] \in SheetBeats
    BY <1>5
  <2>2. CASE i \in rewritten
    <3>1. PICK seconds \in 5 .. 600 : seconds = reply[i]
      BY <2>2 DEF Sheets!ParseBeatsReply, Sheets!Validate, Sheets!MinBeatSeconds, Sheets!MaxBeatSeconds
    <3>2. work[i] = Sheets!writeOne(j, beats[i], seconds)
      BY <1>10, <2>2, <3>1
    <3>3. PICK b \in SheetBeats : b = beats[i]
      BY <2>1
    <3>4. PICK w : w = Sheets!writeOne(j, b, seconds)
      OBVIOUS
    <3>5. WrittenAs(j, b, w)
      BY <3>1, <3>3, <3>4, WrittenOne
    <3> QED  BY <2>2, <3>2, <3>3, <3>4, <3>5 DEF WrittenAs
  <2>3. CASE i \notin rewritten
    BY <1>10, <2>1, <2>3
  <2> QED  BY <2>2, <2>3
<1>13. work \in Seq(SheetBeats) /\ Len(work) = m /\ DOMAIN work = 1 .. m
  BY <1>10, <1>12
<1>14. /\ d \in [1 .. m -> Nat \ {0}]
       /\ \A i \in 1 .. m : work[i].mineDur \/ (i \notin rewritten /\ work[i].status = "approved")
             => d[i] = work[i].dur
       /\ Sheets!AllWritten(work) => Sheets!Total(d) \in Sheets!target.lo .. Sheets!target.hi
  BY <1>13, BalancedLengths
<1>15. PICK after : after = [i \in 1 .. m |->
                IF i \in rewritten
                THEN [work[i] EXCEPT !.dur = d[i], !.status = "pending",
                                     !.storyHash = story.version]
                ELSE [work[i] EXCEPT !.dur = d[i]]]
  OBVIOUS
<1>16. PICK new : new = [r EXCEPT !.beats = after]
  OBVIOUS
<1>17. Sheets!saveSheet(t, new)
  BY <1>11, <1>13, <1>15, <1>16
<1>18. ASSUME NEW i \in 1 .. m
       PROVE  /\ after[i] \in SheetBeats
              /\ after[i].key = work[i].key /\ after[i].words = work[i].words
              /\ after[i].dur = d[i] /\ after[i].mineDur = work[i].mineDur
              /\ after[i].status = IF i \in rewritten THEN "pending" ELSE work[i].status
  <2>1. PICK w \in SheetBeats : w = work[i]
    BY <1>12
  <2>2. PICK x : x = d[i]
    OBVIOUS
  <2>3. w \in Sheets!Beat /\ x \in Nat /\ x >= 1
    BY <1>14, <2>1, <2>2 DEF SheetBeats
  <2>4. PICK a : a = after[i]
    OBVIOUS
  <2>5. CASE i \in rewritten
    <3>1. a = [w EXCEPT !.dur = x, !.status = "pending", !.storyHash = story.version]
      BY <1>15, <2>1, <2>2, <2>4, <2>5
    <3>2. /\ a \in Sheets!Beat /\ a.key = w.key /\ a.words = w.words /\ a.dur = x
          /\ a.mineDur = w.mineDur /\ a.status = "pending"
      BY <1>8, <2>3, <3>1 DEF Sheets!Beat
    <3> QED  BY <2>1, <2>2, <2>3, <2>4, <2>5, <3>2 DEF SheetBeats
  <2>6. CASE i \notin rewritten
    <3>1. a = [w EXCEPT !.dur = x]
      BY <1>15, <2>1, <2>2, <2>4, <2>6
    <3>2. /\ a \in Sheets!Beat /\ a.key = w.key /\ a.words = w.words /\ a.dur = x
          /\ a.mineDur = w.mineDur /\ a.status = w.status
      BY <2>3, <3>1 DEF Sheets!Beat
    <3> QED  BY <2>1, <2>2, <2>3, <2>4, <2>6, <3>2 DEF SheetBeats
  <2> QED  BY <2>5, <2>6
<1>19. after \in Seq(SheetBeats) /\ Len(after) = m /\ DOMAIN after = 1 .. m
  <2>1. \A i \in 1 .. m : after[i] \in SheetBeats
    BY <1>18
  <2>2. DOMAIN after = 1 .. m /\ after = [i \in 1 .. m |-> after[i]]
    BY <1>15
  <2>3. after \in [1 .. m -> SheetBeats]
    BY <2>1, <2>2
  <2> QED  BY <2>2, <2>3
<1>20. new \in GoodSheets /\ new.beats = after
  <2>1. \A i \in 1 .. m : after[i].key = beats[i].key
    BY <1>12, <1>18
  <2>2. /\ r \in [beats : Seq(SheetBeats), nextSeq : Nat \ {0}, skeletonApproved : BOOLEAN]
        /\ \A i, k \in DOMAIN r.beats : r.beats[i].key = r.beats[k].key => i = k
        /\ \A i \in DOMAIN r.beats : r.beats[i].key < r.nextSeq
    BY DEF GoodSheets
  <2>3. /\ new \in [beats : Seq(SheetBeats), nextSeq : Nat \ {0}, skeletonApproved : BOOLEAN]
        /\ new.beats = after /\ new.nextSeq = r.nextSeq
    BY <1>16, <1>19, <2>2
  <2>4. \A i, k \in 1 .. m : after[i].key = after[k].key => i = k
    BY <1>4, <1>5, <2>1, <2>2
  <2>5. \A i \in 1 .. m : after[i].key < new.nextSeq
    BY <1>4, <1>5, <2>1, <2>2, <2>3
  <2> QED  BY <1>19, <2>3, <2>4, <2>5 DEF GoodSheets
<1>21. Follows(j, new)
  <2>1. ASSUME NEW i \in 1 .. m
        PROVE  after[i].key = beats[i].key /\ SparesBeat(j, beats[i], after[i])
    <3>1. after[i].key = beats[i].key
      BY <1>12, <1>18
    <3>2. beats[i].status = "approved" /\ after[i].status = "approved"
             => beats[i].words = after[i].words /\ beats[i].dur = after[i].dur
      BY <1>12, <1>14, <1>18
    <3>3. beats[i].words = "creator" /\ after[i].words # "creator" => j.op = "Redo" /\ j.key = beats[i].key
      BY <1>7, <1>12, <1>18
    <3>4. beats[i].mineDur => after[i].dur = beats[i].dur
      BY <1>12, <1>14, <1>18
    <3> QED  BY <3>1, <3>2, <3>3, <3>4 DEF SparesBeat
  <2> QED  BY <1>3, <1>4, <1>5, <1>19, <1>20, <2>1 DEF Follows
<1>22. Fits(after)
  <2>1. Sheets!Durs(after) = d
    <3>1. \A i \in 1 .. m : after[i].dur = d[i]
      BY <1>18
    <3> QED  BY <1>14, <1>19, <3>1 DEF Sheets!Durs
  <2>2. Sheets!AllWritten(after) => Sheets!AllWritten(work)
    BY <1>13, <1>18, <1>19 DEF Sheets!AllWritten, Sheets!Written
  <2> QED  BY <1>14, <2>1, <2>2 DEF Fits
<1> QED  BY <1>1, <1>2, <1>17, <1>20, <1>21, <1>22, SavedStores

\* A sequence with one put in, and with one taken out.
PutAt(z, s, i, e) ==
    \A k \in 1 .. Len(z) : z[k] = IF k < i THEN s[k] ELSE IF k = i THEN e ELSE s[k - 1]

LEMMA PutIn ==
    ASSUME NEW s \in Seq(SheetBeats), NEW i \in 1 .. Len(s) + 1, NEW e \in SheetBeats
    PROVE  /\ Sheets!InsertAt(s, i, e) \in Seq(SheetBeats)
           /\ Len(Sheets!InsertAt(s, i, e)) = Len(s) + 1
           /\ PutAt(Sheets!InsertAt(s, i, e), s, i, e)
<1>1. PICK a : a = SubSeq(s, 1, i - 1)
  OBVIOUS
<1>2. PICK b : b = SubSeq(s, i, Len(s))
  OBVIOUS
<1>3. /\ a \in Seq(SheetBeats) /\ Len(a) = i - 1
      /\ \A k \in 1 .. i - 1 : a[k] = s[k]
  BY <1>1
<1>4. /\ b \in Seq(SheetBeats) /\ Len(b) = Len(s) - i + 1
      /\ \A k \in 1 .. Len(s) - i + 1 : b[k] = s[k + i - 1]
  BY <1>2
<1>11. PICK z : z = Sheets!InsertAt(s, i, e)
  OBVIOUS
<1>5. z = (a \o <<e>>) \o b
  BY <1>1, <1>2, <1>11 DEF Sheets!InsertAt
<1>6. PICK c : c = a \o <<e>>
  OBVIOUS
<1>7. /\ c \in Seq(SheetBeats) /\ Len(c) = i
      /\ \A k \in 1 .. i : c[k] = IF k < i THEN s[k] ELSE e
  BY <1>3, <1>6
<1>8. z = c \o b
  BY <1>5, <1>6
<1>9. z \in Seq(SheetBeats) /\ Len(z) = Len(s) + 1
  <2>1. c \in Seq(SheetBeats) /\ b \in Seq(SheetBeats) /\ Len(c) \in Nat /\ Len(b) \in Nat
    BY <1>4, <1>7
  <2>2. z \in Seq(SheetBeats) /\ Len(z) = Len(c) + Len(b)
    BY <1>8, <2>1
  <2> QED  BY <1>4, <1>7, <2>2
<1>10. ASSUME NEW k \in 1 .. Len(s) + 1
       PROVE  z[k] = IF k < i THEN s[k] ELSE IF k = i THEN e ELSE s[k - 1]
  <2>1. CASE k <= i
    <3>1. z[k] = c[k]
      BY <1>4, <1>7, <1>8, <2>1
    <3> QED  BY <1>7, <2>1, <3>1
  <2>2. CASE k > i
    <3>1. z[k] = b[k - i]
      BY <1>4, <1>7, <1>8, <2>2
    <3>2. k - i \in 1 .. Len(s) - i + 1 /\ (k - i) + i - 1 = k - 1
      BY <2>2
    <3> QED  BY <1>4, <2>2, <3>1, <3>2
  <2> QED  BY <2>1, <2>2
<1> QED  BY <1>9, <1>10, <1>11 DEF PutAt

LeftOut(z, s, i) ==
    \A k \in 1 .. Len(z) : z[k] = IF k < i THEN s[k] ELSE s[k + 1]

LEMMA TakenOut ==
    ASSUME NEW s \in Seq(SheetBeats), NEW i \in 1 .. Len(s)
    PROVE  /\ Sheets!RemoveAt(s, i) \in Seq(SheetBeats)
           /\ Len(Sheets!RemoveAt(s, i)) = Len(s) - 1
           /\ LeftOut(Sheets!RemoveAt(s, i), s, i)
<1>8. PICK z : z = Sheets!RemoveAt(s, i)
  OBVIOUS
<1>1. PICK a : a = SubSeq(s, 1, i - 1)
  OBVIOUS
<1>2. PICK b : b = SubSeq(s, i + 1, Len(s))
  OBVIOUS
<1>3. /\ a \in Seq(SheetBeats) /\ Len(a) = i - 1
      /\ \A k \in 1 .. i - 1 : a[k] = s[k]
  BY <1>1
<1>4. /\ b \in Seq(SheetBeats) /\ Len(b) = Len(s) - i
      /\ \A k \in 1 .. Len(s) - i : b[k] = s[k + i]
  BY <1>2
<1>5. z = a \o b
  BY <1>1, <1>2, <1>8 DEF Sheets!RemoveAt
<1>6. z \in Seq(SheetBeats) /\ Len(z) = Len(s) - 1
  BY <1>3, <1>4, <1>5
<1>7. ASSUME NEW k \in 1 .. Len(s) - 1 PROVE z[k] = IF k < i THEN s[k] ELSE s[k + 1]
  <2>1. CASE k < i
    <3>1. z[k] = a[k]
      BY <1>3, <1>4, <1>5, <2>1
    <3> QED  BY <1>3, <2>1, <3>1
  <2>2. CASE k >= i
    <3>1. z[k] = b[k - (i - 1)]
      BY <1>3, <1>4, <1>5, <2>2
    <3>2. k - (i - 1) \in 1 .. Len(s) - i /\ (k - (i - 1)) + i = k + 1
      BY <2>2
    <3> QED  BY <1>4, <2>2, <3>1, <3>2
  <2> QED  BY <2>1, <2>2
<1> QED  BY <1>6, <1>7, <1>8 DEF LeftOut

\* A sheet of other beats: its keys are still given once, from the counter.
LEMMA SheetWith ==
    ASSUME NEW r \in GoodSheets, NEW beats \in Seq(SheetBeats),
           NEW next \in Nat \ {0}, NEW approved \in BOOLEAN,
           \A i, k \in DOMAIN beats : beats[i].key = beats[k].key => i = k,
           \A i \in DOMAIN beats : beats[i].key < next
    PROVE  [r EXCEPT !.beats = beats, !.nextSeq = next, !.skeletonApproved = approved] \in GoodSheets
<1>1. r \in [beats : Seq(SheetBeats), nextSeq : Nat \ {0}, skeletonApproved : BOOLEAN]
  BY DEF GoodSheets
<1>2. PICK new : new = [r EXCEPT !.beats = beats, !.nextSeq = next, !.skeletonApproved = approved]
  OBVIOUS
<1>3. /\ new \in [beats : Seq(SheetBeats), nextSeq : Nat \ {0}, skeletonApproved : BOOLEAN]
      /\ new.beats = beats /\ new.nextSeq = next
  BY <1>1, <1>2
<1> QED  BY <1>2, <1>3 DEF GoodSheets

LEMMA GoodSheetIs ==
    ASSUME NEW r \in GoodSheets
    PROVE  /\ r.beats \in Seq(SheetBeats) /\ r.nextSeq \in Nat \ {0} /\ r.skeletonApproved \in BOOLEAN
           /\ \A i, k \in DOMAIN r.beats : r.beats[i].key = r.beats[k].key => i = k
           /\ \A i \in DOMAIN r.beats : r.beats[i].key < r.nextSeq
           /\ Len(r.beats) \in Nat /\ DOMAIN r.beats = 1 .. Len(r.beats)
           /\ \A i \in 1 .. Len(r.beats) : r.beats[i] \in SheetBeats /\ r.beats[i].key \in Nat
<1>1. r.beats \in Seq(SheetBeats) /\ r.nextSeq \in Nat \ {0} /\ r.skeletonApproved \in BOOLEAN
  BY DEF GoodSheets
<1>2. /\ \A i, k \in DOMAIN r.beats : r.beats[i].key = r.beats[k].key => i = k
      /\ \A i \in DOMAIN r.beats : r.beats[i].key < r.nextSeq
  BY DEF GoodSheets
<1>3. \A b \in SheetBeats : b.key \in Nat
  BY DEF SheetBeats, Sheets!Beat
<1>4. Len(r.beats) \in Nat /\ DOMAIN r.beats = 1 .. Len(r.beats)
  BY <1>1
<1>5. \A i \in 1 .. Len(r.beats) : r.beats[i] \in SheetBeats
  BY <1>1, <1>4
<1> QED  BY <1>1, <1>2, <1>3, <1>4, <1>5

LEMMA InsertedStores ==
    ASSUME SheetInv, NEW t \in Threads, NEW r \in GoodSheets, r = sheetJob[t].read,
           sheetJob[t] # Sheets!Idle, NEW after \in 0 .. Len(r.beats), NEW b \in SheetBeats, b.key = r.nextSeq,
           Sheets!saveSheet(t, Sheets!Inserted(r, after, b))
    PROVE  \E new : Stores(t, new)
<1>1. PICK beats : beats = r.beats
  OBVIOUS
<1>2. /\ beats \in Seq(SheetBeats) /\ r.nextSeq \in Nat \ {0} /\ r.skeletonApproved \in BOOLEAN
      /\ \A i, k \in DOMAIN beats : beats[i].key = beats[k].key => i = k
      /\ \A i \in DOMAIN beats : beats[i].key < r.nextSeq
      /\ Len(beats) \in Nat /\ DOMAIN beats = 1 .. Len(beats)
      /\ \A i \in 1 .. Len(beats) : beats[i] \in SheetBeats /\ beats[i].key \in Nat
  BY <1>1, GoodSheetIs
<1>17. PICK at : at = after + 1
  OBVIOUS
<1>3. PICK z : z = Sheets!InsertAt(beats, at, b)
  OBVIOUS
<1>4. at = after + 1 /\ at \in 1 .. Len(beats) + 1
  BY <1>1, <1>2, <1>17
<1>5. /\ z \in Seq(SheetBeats) /\ Len(z) = Len(beats) + 1
      /\ PutAt(z, beats, at, b)
  BY <1>2, <1>3, <1>4, PutIn
<1>6. PICK From : From = [k \in 1 .. Len(z) |-> IF k < at THEN k ELSE k - 1]
  OBVIOUS
<1>7. ASSUME NEW k \in 1 .. Len(z), k # at
      PROVE  From[k] \in 1 .. Len(beats) /\ z[k] = beats[From[k]]
  <2>1. z[k] = IF k < at THEN beats[k] ELSE beats[k - 1]
    BY <1>5, <1>7 DEF PutAt
  <2>2. From[k] = IF k < at THEN k ELSE k - 1
    BY <1>6
  <2>3. (IF k < at THEN k ELSE k - 1) \in 1 .. Len(beats)
    BY <1>2, <1>4, <1>5, <1>7
  <2> QED  BY <2>1, <2>2, <2>3
<1>8. z[at] = b /\ at \in 1 .. Len(z)
  BY <1>2, <1>4, <1>5 DEF PutAt
<1>9. ASSUME NEW i \in 1 .. Len(z), NEW k \in 1 .. Len(z), z[i].key = z[k].key PROVE i = k
  <2>1. CASE i # at /\ k # at
    <3>1. From[i] = From[k]
      BY <1>2, <1>7, <1>9, <2>1
    <3> QED  BY <1>2, <1>7, <1>9, <2>1, <3>1, <1>4, <1>5, <1>6
  <2>2. CASE i = at /\ k # at
    <3>1. z[k].key < r.nextSeq /\ z[k].key \in Nat
      BY <1>2, <1>7, <2>2
    <3> QED  BY <1>2, <1>8, <1>9, <2>2, <3>1
  <2>3. CASE i # at /\ k = at
    <3>1. z[i].key < r.nextSeq /\ z[i].key \in Nat
      BY <1>2, <1>7, <2>3
    <3> QED  BY <1>2, <1>8, <1>9, <2>3, <3>1
  <2> QED  BY <2>1, <2>2, <2>3
<1>10. ASSUME NEW i \in 1 .. Len(z) PROVE z[i].key < r.nextSeq + 1
  <2>1. CASE i # at
    <3>1. z[i].key < r.nextSeq /\ z[i].key \in Nat
      BY <1>2, <1>7, <2>1
    <3> QED  BY <1>2, <3>1
  <2> QED  BY <1>2, <1>8, <2>1
<1>11. DOMAIN z = 1 .. Len(z)
  BY <1>5
<1>12. PICK new : new = [r EXCEPT !.beats = z, !.nextSeq = r.nextSeq + 1,
                                 !.skeletonApproved = r.skeletonApproved]
  OBVIOUS
<1>13. new \in GoodSheets
  <2>1. r.nextSeq + 1 \in Nat \ {0}
    BY <1>2
  <2> QED  BY <1>2, <1>5, <1>9, <1>10, <1>11, <1>12, <2>1, SheetWith
<1>14. /\ r \in [beats : Seq(SheetBeats), nextSeq : Nat \ {0}, skeletonApproved : BOOLEAN]
       /\ new.beats = z
  BY <1>12 DEF GoodSheets
<1>15. Sheets!saveSheet(t, new)
  <2>1. new = [r EXCEPT !.beats = z, !.nextSeq = r.nextSeq + 1]
    BY <1>12, <1>14
  <2> QED  BY <1>1, <1>3, <1>4, <2>1 DEF Sheets!Inserted
<1>16. Follows(sheetJob[t], new)
  <2>1. ASSUME NEW k \in 1 .. Len(z)
        PROVE  \/ z[k].key >= r.nextSeq
               \/ \E i \in DOMAIN beats :
                     z[k].key = beats[i].key /\ SparesBeat(sheetJob[t], beats[i], z[k])
    <3>1. CASE k # at
      <4>1. From[k] \in DOMAIN beats /\ z[k] = beats[From[k]]
        BY <1>2, <1>7, <3>1
      <4> QED  BY <4>1, SpareSame
    <3> QED  BY <1>2, <1>8, <3>1
  <2> QED  BY <1>1, <1>11, <1>14, <2>1 DEF Follows
<1> QED  BY <1>1, <1>13, <1>15, <1>16, SavedStores

LEMMA AddStores ==
    ASSUME SheetInv, NEW t \in Threads, Sheets!EndAdd(t)
    PROVE  \E new : Stores(t, new)
<1>1. sheetJob[t] # Sheets!Idle
  <2>1. sheetJob[t].op \in {"AddBlank", "AddWritten"}
    BY DEF Sheets!EndAdd
  <2> QED  BY <2>1 DEF Sheets!Idle
<1>2. PICK r \in GoodSheets : r = sheetJob[t].read
  BY <1>1, SheetJobIs
<1>3. PICK after : after = IF sheetJob[t].key = 0 THEN 0 ELSE Sheets!indexOfBeat(r.beats, sheetJob[t].key)
  OBVIOUS
<1>4. after \in 0 .. Len(r.beats)
  <2>1. sheetJob[t] \in SheetJobs
    BY <1>1, SheetJobIs
  <2>2. sheetJob[t].key # 0 => sheetJob[t].key \in Sheets!Keys(r.beats)
    BY <1>2, <2>1 DEF SheetJobs, Sheets!EndAdd
  <2>3. r.beats \in Seq(SheetBeats) /\ Len(r.beats) \in Nat /\ DOMAIN r.beats = 1 .. Len(r.beats)
    BY <1>2, GoodSheetIs
  <2>4. CASE sheetJob[t].key # 0
    <3>1. after \in DOMAIN r.beats
      BY <1>3, <2>2, <2>3, <2>4, NamedBeat
    <3> QED  BY <2>3, <3>1
  <2> QED  BY <1>3, <2>3, <2>4
<1>5. PICK next : next = r.nextSeq
  OBVIOUS
<1>6. next \in Nat \ {0} /\ story.version \in 0 .. MaxStories /\ 0 \in 0 .. MaxStories
  BY <1>2, <1>5, GoodSheetIs, SheetConstants DEF SheetInv
<1>7. PICK blank : blank = [key |-> next, hook |-> FALSE, words |-> "none", mineDur |-> FALSE, dur |-> 15,
                            status |-> "pending", storyHash |-> 0]
  OBVIOUS
<1>8. blank = Sheets!newBeatSlot(next, 0)
  BY <1>7 DEF Sheets!newBeatSlot, Sheets!blankSeconds
<1>9. blank \in SheetBeats /\ blank.key = next /\ blank \in Sheets!Beat
  BY <1>6, <1>7 DEF SheetBeats, Sheets!Beat, Sheets!Words
<1>10. CASE Sheets!saveSheet(t, Sheets!Inserted(r, after, blank))
  BY <1>1, <1>2, <1>4, <1>5, <1>9, <1>10, InsertedStores
<1>11. ASSUME NEW seconds \in Sheets!ParseBeatsReply,
              Sheets!saveSheet(t, Sheets!Inserted(r, after,
                  [blank EXCEPT !.words = "ai", !.dur = seconds, !.storyHash = story.version]))
       PROVE  \E new : Stores(t, new)
  <2>1. PICK b : b = [blank EXCEPT !.words = "ai", !.dur = seconds, !.storyHash = story.version]
    OBVIOUS
  <2>2. seconds \in Nat /\ seconds >= 1
    BY DEF Sheets!ParseBeatsReply, Sheets!Validate, Sheets!MinBeatSeconds, Sheets!MaxBeatSeconds
  <2>3. b \in Sheets!Beat /\ b.key = next /\ b.dur = seconds
    BY <1>6, <1>9, <2>1, <2>2 DEF Sheets!Beat, Sheets!Words
  <2>4. b \in SheetBeats
    BY <2>2, <2>3 DEF SheetBeats
  <2> QED  BY <1>1, <1>2, <1>4, <1>5, <1>11, <2>1, <2>3, <2>4, InsertedStores
<1> QED  BY <1>2, <1>3, <1>5, <1>8, <1>10, <1>11 DEF Sheets!EndAdd

LEMMA DeleteStores ==
    ASSUME SheetInv, NEW t \in Threads, Sheets!EndDelete(t)
    PROVE  \E new : Stores(t, new)
<1>1. sheetJob[t] # Sheets!Idle /\ sheetJob[t].op = "Delete"
  BY DEF Sheets!EndDelete, Sheets!Idle
<1>2. PICK r \in GoodSheets : r = sheetJob[t].read
  BY <1>1, SheetJobIs
<1>3. PICK beats : beats = r.beats
  OBVIOUS
<1>4. /\ beats \in Seq(SheetBeats) /\ r.nextSeq \in Nat \ {0} /\ r.skeletonApproved \in BOOLEAN
      /\ \A i, k \in DOMAIN beats : beats[i].key = beats[k].key => i = k
      /\ \A i \in DOMAIN beats : beats[i].key < r.nextSeq
      /\ Len(beats) \in Nat /\ DOMAIN beats = 1 .. Len(beats)
      /\ \A i \in 1 .. Len(beats) : beats[i] \in SheetBeats /\ beats[i].key \in Nat
  BY <1>3, GoodSheetIs
<1>5. PICK at : at = Sheets!indexOfBeat(beats, sheetJob[t].key)
  OBVIOUS
<1>6. at \in 1 .. Len(beats)
  <2>1. sheetJob[t] \in SheetJobs
    BY <1>1, SheetJobIs
  <2>2. sheetJob[t].key \in Sheets!Keys(beats)
    BY <1>1, <1>2, <1>3, <2>1 DEF SheetJobs
  <2> QED  BY <1>4, <1>5, <2>2, NamedBeat
<1>7. PICK z : z = Sheets!RemoveAt(beats, at)
  OBVIOUS
<1>8. z \in Seq(SheetBeats) /\ Len(z) = Len(beats) - 1 /\ LeftOut(z, beats, at)
  BY <1>4, <1>6, <1>7, TakenOut
<1>9. Len(z) \in Nat /\ DOMAIN z = 1 .. Len(z)
  BY <1>8
<1>10. PICK From : From = [k \in 1 .. Len(z) |-> IF k < at THEN k ELSE k + 1]
  OBVIOUS
<1>11. ASSUME NEW k \in 1 .. Len(z)
       PROVE  /\ From[k] \in 1 .. Len(beats) /\ z[k] = beats[From[k]]
              /\ From[k] = IF k < at THEN k ELSE k + 1
  <2>1. z[k] = IF k < at THEN beats[k] ELSE beats[k + 1]
    BY <1>8 DEF LeftOut
  <2>2. From[k] = IF k < at THEN k ELSE k + 1
    BY <1>10
  <2>3. (IF k < at THEN k ELSE k + 1) \in 1 .. Len(beats)
    BY <1>4, <1>6, <1>8
  <2> QED  BY <2>1, <2>2, <2>3
<1>12. ASSUME NEW i \in 1 .. Len(z), NEW k \in 1 .. Len(z), z[i].key = z[k].key PROVE i = k
  <2>1. From[i] = From[k]
    BY <1>4, <1>11, <1>12
  <2>2. i \in Int /\ k \in Int /\ at \in Int
    BY <1>6, <1>9
  <2> QED  BY <1>11, <2>1, <2>2
<1>13. \A i \in 1 .. Len(z) : z[i].key < r.nextSeq
  BY <1>4, <1>11
<1>14. PICK kept \in BOOLEAN : kept = (r.skeletonApproved /\ z # <<>>)
  OBVIOUS
<1>15. PICK new : new = [r EXCEPT !.beats = z, !.nextSeq = r.nextSeq, !.skeletonApproved = kept]
  OBVIOUS
<1>16. new \in GoodSheets
  BY <1>4, <1>8, <1>9, <1>12, <1>13, <1>14, <1>15, SheetWith
<1>17. /\ r \in [beats : Seq(SheetBeats), nextSeq : Nat \ {0}, skeletonApproved : BOOLEAN]
       /\ new.beats = z
  BY <1>15 DEF GoodSheets
<1>18. Sheets!saveSheet(t, new)
  <2>1. new = [r EXCEPT !.beats = z, !.skeletonApproved = kept]
    BY <1>15, <1>17
  <2>2. [r EXCEPT !.beats = z, !.skeletonApproved = @ /\ z # <<>>]
          = [r EXCEPT !.beats = z, !.skeletonApproved = kept]
    BY <1>14
  <2> QED  BY <1>2, <1>3, <1>5, <1>7, <2>1, <2>2 DEF Sheets!EndDelete
<1>19. Follows(sheetJob[t], new)
  <2>1. ASSUME NEW k \in 1 .. Len(z)
        PROVE  \E i \in DOMAIN beats :
                  z[k].key = beats[i].key /\ SparesBeat(sheetJob[t], beats[i], z[k])
    <3>1. From[k] \in DOMAIN beats /\ z[k] = beats[From[k]]
      BY <1>4, <1>11
    <3> QED  BY <3>1, SpareSame
  <2> QED  BY <1>2, <1>3, <1>9, <1>17, <2>1 DEF Follows
<1> QED  BY <1>1, <1>16, <1>18, <1>19, SavedStores

\* A beat edited by hand.
LEMMA TouchedOne ==
    ASSUME NEW j, NEW b \in SheetBeats, j.key = b.key, j.op \in Sheets!Touches,
           NEW c \in Sheets!Touched(b, j.op)
    PROVE  c \in SheetBeats /\ c.key = b.key /\ SparesBeat(j, b, c)
<1>1. /\ b \in Sheets!Beat /\ b.dur \in Nat /\ b.dur >= 1 /\ b.words \in Sheets!Words
      /\ b.mineDur \in BOOLEAN
  BY DEF SheetBeats, Sheets!Beat
<1>2. CASE j.op = "EditWords"
  <2>1. c = [b EXCEPT !.words = "creator", !.status = "pending"]
    BY <1>2 DEF Sheets!Touched
  <2>2. /\ c \in Sheets!Beat /\ c.key = b.key /\ c.dur = b.dur /\ c.words = "creator"
        /\ c.status = "pending"
    BY <1>1, <2>1 DEF Sheets!Beat, Sheets!Words
  <2> QED  BY <1>1, <2>2 DEF SheetBeats, SparesBeat
<1>3. CASE j.op = "EmptyWords"
  <2>1. c = [b EXCEPT !.words = "none", !.status = "pending"]
    BY <1>3 DEF Sheets!Touched
  <2>2. c \in Sheets!Beat /\ c.key = b.key /\ c.dur = b.dur /\ c.status = "pending"
    BY <1>1, <2>1 DEF Sheets!Beat, Sheets!Words
  <2> QED  BY <1>1, <1>3, <2>2 DEF SheetBeats, SparesBeat
<1>4. CASE j.op = "EditDur"
  <2>1. PICK s \in {typed \in EditSeconds : Sheets!Validate(typed)} :
           c = [b EXCEPT !.dur = s, !.status = "pending", !.mineDur = @ \/ s # b.dur]
    BY <1>4 DEF Sheets!Touched
  <2>2. s \in Nat /\ s >= 1
    BY <2>1 DEF Sheets!Validate, Sheets!MinBeatSeconds, Sheets!MaxBeatSeconds
  <2>3. PICK m \in BOOLEAN : m = (b.mineDur \/ s # b.dur)
    OBVIOUS
  <2>4. c = [b EXCEPT !.dur = s, !.status = "pending", !.mineDur = m]
    BY <2>1, <2>3
  <2>5. /\ c \in Sheets!Beat /\ c.key = b.key /\ c.dur = s /\ c.words = b.words
        /\ c.status = "pending"
    BY <1>1, <2>2, <2>3, <2>4 DEF Sheets!Beat, Sheets!Words
  <2> QED  BY <1>1, <1>4, <2>2, <2>5 DEF SheetBeats, SparesBeat
<1>5. CASE j.op \in {"EditOther", "Approve", "Unapprove"}
  <2>1. PICK status \in {"pending", "approved"} : c = [b EXCEPT !.status = status]
    BY <1>5 DEF Sheets!Touched
  <2>2. c \in Sheets!Beat /\ c.key = b.key /\ c.dur = b.dur /\ c.words = b.words
    BY <1>1, <2>1 DEF Sheets!Beat
  <2> QED  BY <1>1, <2>2 DEF SheetBeats, SparesBeat
<1> QED  BY <1>2, <1>3, <1>4, <1>5 DEF Sheets!Touches

LEMMA TouchStores ==
    ASSUME SheetInv, NEW t \in Threads, Sheets!EndTouch(t)
    PROVE  \E new : Stores(t, new)
<1>1. sheetJob[t] # Sheets!Idle /\ sheetJob[t].op \in Sheets!Touches
  BY DEF Sheets!EndTouch, Sheets!Idle, Sheets!Touches
<1>2. PICK r \in GoodSheets : r = sheetJob[t].read
  BY <1>1, SheetJobIs
<1>3. PICK beats : beats = r.beats
  OBVIOUS
<1>4. /\ beats \in Seq(SheetBeats) /\ r.nextSeq \in Nat \ {0} /\ r.skeletonApproved \in BOOLEAN
      /\ \A i, k \in DOMAIN beats : beats[i].key = beats[k].key => i = k
      /\ \A i \in DOMAIN beats : beats[i].key < r.nextSeq
      /\ Len(beats) \in Nat /\ DOMAIN beats = 1 .. Len(beats)
      /\ \A i \in 1 .. Len(beats) : beats[i] \in SheetBeats /\ beats[i].key \in Nat
  BY <1>3, GoodSheetIs
<1>5. PICK at : at = Sheets!indexOfBeat(beats, sheetJob[t].key)
  OBVIOUS
<1>6. at \in 1 .. Len(beats) /\ beats[at].key = sheetJob[t].key
  <2>1. sheetJob[t] \in SheetJobs
    BY <1>1, SheetJobIs
  <2>2. sheetJob[t].key \in Sheets!Keys(beats)
    BY <1>1, <1>2, <1>3, <2>1 DEF SheetJobs
  <2> QED  BY <1>4, <1>5, <2>2, NamedBeat
<1>7. PICK c \in Sheets!Touched(beats[at], sheetJob[t].op) :
         Sheets!saveSheet(t, [r EXCEPT !.beats[at] = c])
  BY <1>2, <1>3, <1>5 DEF Sheets!EndTouch
<1>8. c \in SheetBeats /\ c.key = beats[at].key /\ SparesBeat(sheetJob[t], beats[at], c)
  <2>1. PICK b \in SheetBeats : b = beats[at]
    BY <1>4, <1>6
  <2>2. sheetJob[t].key = b.key /\ c \in Sheets!Touched(b, sheetJob[t].op)
    BY <1>6, <1>7, <2>1
  <2> QED  BY <1>1, <2>1, <2>2, TouchedOne
<1>9. PICK z : z = [beats EXCEPT ![at] = c]
  OBVIOUS
<1>10. /\ z \in Seq(SheetBeats) /\ DOMAIN z = DOMAIN beats
       /\ \A i \in DOMAIN beats : z[i] = IF i = at THEN c ELSE beats[i]
  BY <1>4, <1>6, <1>8, <1>9
<1>11. \A i \in DOMAIN beats : z[i].key = beats[i].key
  BY <1>8, <1>10
<1>12. PICK new : new = [r EXCEPT !.beats = z, !.nextSeq = r.nextSeq,
                                  !.skeletonApproved = r.skeletonApproved]
  OBVIOUS
<1>13. new \in GoodSheets
  BY <1>4, <1>10, <1>11, <1>12, SheetWith
<1>14. /\ r \in [beats : Seq(SheetBeats), nextSeq : Nat \ {0}, skeletonApproved : BOOLEAN]
       /\ new.beats = z
  BY <1>12 DEF GoodSheets
<1>15. Sheets!saveSheet(t, new)
  <2>1. new = [r EXCEPT !.beats = z]
    BY <1>12, <1>14
  <2>2. [r EXCEPT !.beats[at] = c] = [r EXCEPT !.beats = z]
    BY <1>3, <1>9
  <2> QED  BY <1>7, <2>1, <2>2
<1>16. Follows(sheetJob[t], new)
  <2>1. ASSUME NEW i \in DOMAIN beats
        PROVE  z[i].key = beats[i].key /\ SparesBeat(sheetJob[t], beats[i], z[i])
    BY <1>8, <1>10, <1>11, SpareSame
  <2> QED  BY <1>2, <1>3, <1>10, <1>14, <2>1 DEF Follows
<1> QED  BY <1>1, <1>13, <1>15, <1>16, SavedStores

LEMMA ReorderStores ==
    ASSUME SheetInv, NEW t \in Threads, Sheets!EndReorder(t)
    PROVE  \E new : Stores(t, new)
<1>1. sheetJob[t] # Sheets!Idle /\ sheetJob[t].op = "Reorder"
  BY DEF Sheets!EndReorder, Sheets!Idle
<1>2. PICK r \in GoodSheets : r = sheetJob[t].read
  BY <1>1, SheetJobIs
<1>3. PICK beats : beats = r.beats
  OBVIOUS
<1>4. /\ beats \in Seq(SheetBeats) /\ r.nextSeq \in Nat \ {0} /\ r.skeletonApproved \in BOOLEAN
      /\ \A i, k \in DOMAIN beats : beats[i].key = beats[k].key => i = k
      /\ \A i \in DOMAIN beats : beats[i].key < r.nextSeq
      /\ Len(beats) \in Nat /\ DOMAIN beats = 1 .. Len(beats)
      /\ \A i \in 1 .. Len(beats) : beats[i] \in SheetBeats /\ beats[i].key \in Nat
  BY <1>3, GoodSheetIs
<1>5. PICK all : all = {beats[i] : i \in 1 .. Len(beats)}
  OBVIOUS
<1>6. Sheets!ToSet(beats) = all
  BY <1>4, <1>5 DEF Sheets!ToSet
<1>7. PICK n : n = Sheets!Cardinality(all)
  OBVIOUS
<1>8. n \in Nat
  <2>1. IsFiniteSet(1 .. Len(beats))
    BY <1>4, FS_Interval
  <2>2. PICK f : f = [i \in 1 .. Len(beats) |-> beats[i]]
    OBVIOUS
  <2>3. f \in Surjection(1 .. Len(beats), all)
    BY <1>5, <2>2 DEF Surjection
  <2>4. IsFiniteSet(all)
    BY <2>1, <2>3, FS_Surjection
  <2>5. Cardinality(all) \in Nat
    BY <2>4, FS_CardinalityType
  <2>6. n = Cardinality(all)
    BY <1>7 DEF Sheets!Cardinality, Cardinality, Sheets!IsFiniteSet, IsFiniteSet
  <2> QED  BY <2>5, <2>6
<1>9. PICK z \in Sheets!SetToSeqs(all) :
         Sheets!saveSheet(t, [r EXCEPT !.beats = z])
  BY <1>2, <1>3, <1>6 DEF Sheets!EndReorder
<1>10. z \in [1 .. n -> all] /\ \A i, k \in 1 .. n : i # k => z[i] # z[k]
  BY <1>7, <1>9 DEF Sheets!SetToSeqs
<1>11. \A i \in 1 .. n : \E k \in DOMAIN beats : z[i] = beats[k]
  BY <1>4, <1>5, <1>10
<1>12. z \in Seq(SheetBeats) /\ DOMAIN z = 1 .. n
  <2>1. \A i \in 1 .. n : z[i] \in SheetBeats
    BY <1>4, <1>11
  <2> QED  BY <1>8, <1>10, <2>1
<1>13. ASSUME NEW i \in 1 .. n, NEW k \in 1 .. n, z[i].key = z[k].key PROVE i = k
  <2>1. PICK a \in DOMAIN beats : z[i] = beats[a]
    BY <1>11
  <2>2. PICK b \in DOMAIN beats : z[k] = beats[b]
    BY <1>11
  <2>3. a = b
    BY <1>4, <1>13, <2>1, <2>2
  <2> QED  BY <1>10, <2>1, <2>2, <2>3
<1>14. \A i \in 1 .. n : z[i].key < r.nextSeq
  BY <1>4, <1>11
<1>15. PICK new : new = [r EXCEPT !.beats = z, !.nextSeq = r.nextSeq,
                                  !.skeletonApproved = r.skeletonApproved]
  OBVIOUS
<1>16. new \in GoodSheets
  BY <1>4, <1>12, <1>13, <1>14, <1>15, SheetWith
<1>17. /\ r \in [beats : Seq(SheetBeats), nextSeq : Nat \ {0}, skeletonApproved : BOOLEAN]
       /\ new.beats = z
  BY <1>15 DEF GoodSheets
<1>18. Sheets!saveSheet(t, new)
  <2>1. new = [r EXCEPT !.beats = z]
    BY <1>15, <1>17
  <2> QED  BY <1>9, <2>1
<1>19. Follows(sheetJob[t], new)
  <2>1. ASSUME NEW i \in 1 .. n
        PROVE  \E k \in DOMAIN beats :
                  z[i].key = beats[k].key /\ SparesBeat(sheetJob[t], beats[k], z[i])
    BY <1>11, SpareSame
  <2> QED  BY <1>2, <1>3, <1>12, <1>17, <2>1 DEF Follows
<1> QED  BY <1>1, <1>16, <1>18, <1>19, SavedStores

-----------------------------------------------------------------------------
(* The beat sheet: every step, and the theorems.                           *)

\* A request begins: it reads the sheet.
BeginsWith(t) ==
    /\ sheetJob[t] = Sheets!Idle
    /\ \E j \in SheetJobs : j.read = sheet /\ sheetJob' = [sheetJob EXCEPT ![t] = j]
    /\ sheetRequests' \in 0 .. MaxSheetRequests
    /\ UNCHANGED <<story, sheetEditable, sheet>>

LEMMA ServedOne ==
    ASSUME SheetInv, NEW t \in Threads, NEW op \in SheetOps, NEW key \in Nat,
           op \in Sheets!Touches \cup {"Delete", "Redo"} => key \in Sheets!Keys(sheet.beats),
           op \in {"AddBlank", "AddWritten"} =>
               IF key = 0 THEN sheet.beats = <<>> ELSE key \in Sheets!Keys(sheet.beats),
           Sheets!Serve(t, <<op, key>>)
    PROVE  BeginsWith(t)
<1>1. PICK j : j = [op |-> op, key |-> key, read |-> sheet]
  OBVIOUS
<1>2. j \in SheetJobs /\ j.read = sheet
  BY <1>1 DEF SheetInv, SheetJobs
<1>3. sheetJob' = [sheetJob EXCEPT ![t] = j]
  BY <1>1 DEF Sheets!Serve
<1>4. sheetRequests' \in 0 .. MaxSheetRequests
  BY SheetConstants DEF SheetInv, Sheets!Serve
<1> QED  BY <1>2, <1>3, <1>4 DEF Sheets!Serve, BeginsWith

LEMMA SheetRequests ==
    ASSUME SheetInv, NEW t \in Threads, Sheets!Request(t)
    PROVE  BeginsWith(t)
<1>1. \A key \in Sheets!Keys(sheet.beats) : key \in Nat /\ key # 0
  <2>1. sheet.beats \in Seq(SheetBeats)
    BY DEF SheetInv, GoodSheets
  <2>2. \A b \in SheetBeats : b.key \in Nat /\ b.key # 0
    BY DEF SheetBeats, Sheets!Beat
  <2> QED  BY <2>1, <2>2 DEF Sheets!Keys
<1>2. CASE Sheets!BuildSkeleton(t) \/ Sheets!ApproveSkeleton(t) \/ Sheets!Reorder(t)
           \/ \E only \in BOOLEAN : Sheets!Generate(t, only)
  <2>1. PICK op \in {"BuildSkeleton", "ApproveSkeleton", "Reorder", "GenerateUnwritten", "GenerateAll"} :
           Sheets!Serve(t, <<op, 0>>)
    BY <1>2 DEF Sheets!BuildSkeleton, Sheets!ApproveSkeleton, Sheets!Reorder, Sheets!Generate
  <2>2. /\ op \in SheetOps /\ op \notin Sheets!Touches \cup {"Delete", "Redo"}
        /\ op \notin {"AddBlank", "AddWritten"}
    BY <2>1 DEF SheetOps, Sheets!Touches
  <2> QED  BY <2>1, <2>2, ServedOne
<1>3. ASSUME NEW key \in Sheets!Keys(sheet.beats),
             Sheets!Redo(t, key) \/ \E op \in Sheets!Touches \cup {"Delete"} : Sheets!Touch(t, op, key)
      PROVE  BeginsWith(t)
  <2>1. PICK op \in Sheets!Touches \cup {"Delete", "Redo"} : Sheets!Serve(t, <<op, key>>)
    BY <1>3 DEF Sheets!Redo, Sheets!Touch
  <2>2. op \in SheetOps /\ op \notin {"AddBlank", "AddWritten"}
    BY <2>1 DEF SheetOps, Sheets!Touches
  <2> QED  BY <1>1, <2>1, <2>2, ServedOne
<1>4. ASSUME NEW after \in Sheets!Keys(sheet.beats) \cup {0}, NEW blank \in BOOLEAN,
             Sheets!Add(t, after, blank)
      PROVE  BeginsWith(t)
  <2>1. PICK op \in {"AddBlank", "AddWritten"} : Sheets!Serve(t, <<op, after>>)
    BY <1>4 DEF Sheets!Add
  <2>2. op \in SheetOps /\ op \notin Sheets!Touches \cup {"Delete", "Redo"}
    BY <2>1 DEF SheetOps, Sheets!Touches
  <2>3. IF after = 0 THEN sheet.beats = <<>> ELSE after \in Sheets!Keys(sheet.beats)
    BY <1>4 DEF Sheets!Add
  <2>4. after \in Nat
    BY <1>1
  <2> QED  BY <2>1, <2>2, <2>3, <2>4, ServedOne
<1> QED  BY <1>2, <1>3, <1>4 DEF Sheets!Request

\* What may happen in one step.
LEMMA SheetMoves ==
    ASSUME SheetInv, [Sheets!Next]_(Sheets!vars)
    PROVE  \/ UNCHANGED <<sheet, sheetJob>>
           \/ \E t \in Threads : BeginsWith(t)
           \/ \E t \in Threads : \E new : Stores(t, new)
           \/ \E t \in Threads : Sheets!GiveUp(t)
<1>1. CASE UNCHANGED Sheets!vars
  BY <1>1 DEF Sheets!vars
<1>2. CASE Sheets!EditStory \/ Sheets!ApproveStory \/ Sheets!RenderStarts \/ Sheets!RenderFails
  BY <1>2 DEF Sheets!EditStory, Sheets!ApproveStory, Sheets!RenderStarts, Sheets!RenderFails
<1>3. ASSUME NEW t \in Threads, Sheets!Request(t) PROVE BeginsWith(t)
  BY <1>3, SheetRequests
<1>4. ASSUME NEW t \in Threads, Sheets!End(t)
      PROVE  (\E new : Stores(t, new)) \/ Sheets!GiveUp(t)
  <2>1. Sheets!EndContent(t) => \E new : Stores(t, new)
    BY ContentStores
  <2> QED  BY <1>4, <2>1, SkeletonStores, ApprovedSkeletonStores, AddStores, TouchStores, DeleteStores,
           ReorderStores DEF Sheets!End
<1> QED  BY <1>1, <1>2, <1>3, <1>4 DEF Sheets!Next

LEMMA SheetInit == Sheets!Init => SheetInv
<1> SUFFICES ASSUME Sheets!Init PROVE SheetInv
  OBVIOUS
<1>1. 1 \in 1 .. MaxStories /\ 0 \in 0 .. MaxSheetRequests
  BY SheetConstants
<1>2. sheet \in GoodSheets
  BY DEF Sheets!Init, GoodSheets
<1> QED  BY <1>1, <1>2 DEF Sheets!Init, SheetInv

LEMMA SheetStep == SheetInv /\ [Sheets!Next]_(Sheets!vars) => SheetInv'
<1> SUFFICES ASSUME SheetInv, [Sheets!Next]_(Sheets!vars) PROVE SheetInv'
  OBVIOUS
<1>1. CASE UNCHANGED Sheets!vars
  BY <1>1 DEF Sheets!vars, SheetInv
<1>2. CASE Sheets!EditStory \/ Sheets!ApproveStory \/ Sheets!RenderStarts \/ Sheets!RenderFails
  <2>1. UNCHANGED <<sheet, sheetJob, sheetRequests>> /\ sheetEditable' \in BOOLEAN
    BY <1>2 DEF Sheets!EditStory, Sheets!ApproveStory, Sheets!RenderStarts, Sheets!RenderFails, SheetInv
  <2>2. story' \in [version : 1 .. MaxStories, approved : BOOLEAN]
    <3>1. CASE story' = [version |-> story.version + 1, approved |-> FALSE] /\ story.version < MaxStories
      <4>1. story.version + 1 \in 1 .. MaxStories
        BY <3>1, SheetConstants DEF SheetInv
      <4> QED  BY <3>1, <4>1
    <3>2. CASE story' = [story EXCEPT !.approved = TRUE]
      BY <3>2 DEF SheetInv
    <3>3. CASE story' = story
      BY <3>3 DEF SheetInv
    <3> QED  BY <1>2, <3>1, <3>2, <3>3 DEF Sheets!EditStory, Sheets!ApproveStory, Sheets!RenderStarts,
             Sheets!RenderFails
  <2> QED  BY <2>1, <2>2 DEF SheetInv
<1>3. ASSUME NEW t \in Threads, Sheets!Request(t) PROVE SheetInv'
  BY <1>3, SheetRequests DEF BeginsWith, SheetInv
<1>4. ASSUME NEW t \in Threads, NEW new, Stores(t, new) PROVE SheetInv'
  BY <1>4 DEF Stores, SheetInv
<1>5. ASSUME NEW t \in Threads, Sheets!GiveUp(t) PROVE SheetInv'
  BY <1>5 DEF Sheets!GiveUp, SheetInv
<1>6. ASSUME NEW t \in Threads, Sheets!End(t)
      PROVE  (\E new : Stores(t, new)) \/ Sheets!GiveUp(t)
  <2>1. Sheets!EndContent(t) => \E new : Stores(t, new)
    BY ContentStores
  <2> QED  BY <1>6, <2>1, SkeletonStores, ApprovedSkeletonStores, AddStores, TouchStores, DeleteStores,
           ReorderStores DEF Sheets!End
<1> QED  BY <1>1, <1>2, <1>3, <1>4, <1>5, <1>6 DEF Sheets!Next

\* However many requests overlap, a stored sheet has the shape of its rows and
\* each key stands once and below the counter (StoredBeatSheet, saveSheet).
THEOREM SheetTypeCorrect == Sheets!Spec => []Sheets!TypeOK
<1>1. SheetInv => Sheets!TypeOK
  <2> SUFFICES ASSUME SheetInv PROVE Sheets!TypeOK
    OBVIOUS
  <2>1. ASSUME NEW r \in GoodSheets PROVE r \in Sheets!Sheet
    <3>1. SheetBeats \subseteq Sheets!Beat
      BY DEF SheetBeats
    <3>2. r.beats \in Seq(Sheets!Beat)
      BY <3>1 DEF GoodSheets
    <3>3. r \in [beats : Seq(SheetBeats), nextSeq : Nat \ {0}, skeletonApproved : BOOLEAN]
      BY DEF GoodSheets
    <3> QED  BY <3>2, <3>3 DEF Sheets!Sheet
  <2>2. PICK beats : beats = sheet.beats
    OBVIOUS
  <2>3. sheet \in GoodSheets
    BY DEF SheetInv
  <2>4. /\ \A i, k \in DOMAIN beats : beats[i].key = beats[k].key => i = k
        /\ \A i \in DOMAIN beats : beats[i].key < sheet.nextSeq
        /\ Len(beats) \in Nat /\ DOMAIN beats = 1 .. Len(beats)
    BY <2>2, <2>3, GoodSheetIs
  <2>5. Sheets!Cardinality(Sheets!Keys(beats)) = Len(beats)
    <3>1. PICK f : f = [i \in 1 .. Len(beats) |-> beats[i].key]
      OBVIOUS
    <3>2. PICK keys : keys = Sheets!Keys(beats)
      OBVIOUS
    <3>3. f \in Bijection(1 .. Len(beats), keys)
      <4>1. f \in [1 .. Len(beats) -> keys]
        BY <2>4, <3>1, <3>2 DEF Sheets!Keys
      <4>2. \A i, k \in 1 .. Len(beats) : f[i] = f[k] => i = k
        BY <2>4, <3>1
      <4>3. \A k \in keys : \E i \in 1 .. Len(beats) : f[i] = k
        BY <2>4, <3>1, <3>2 DEF Sheets!Keys
      <4> QED  BY <4>1, <4>2, <4>3 DEF Bijection, Injection, Surjection, IsInjective
    <3>4. IsFiniteSet(1 .. Len(beats)) /\ Cardinality(1 .. Len(beats)) = Len(beats)
      BY <2>4, FS_Interval
    <3>5. Cardinality(keys) = Len(beats)
      <4>1. ExistsBijection(1 .. Len(beats), keys)
        BY <3>3 DEF ExistsBijection
      <4> QED  BY <3>4, <4>1, FS_Bijection
    <3>6. Sheets!Cardinality(keys) = Cardinality(keys)
      BY DEF Sheets!Cardinality, Cardinality, Sheets!IsFiniteSet, IsFiniteSet
    <3> QED  BY <3>2, <3>5, <3>6
  <2>6. \A key \in Sheets!Keys(sheet.beats) : key < sheet.nextSeq
    BY <2>2, <2>4 DEF Sheets!Keys
  <2>7. ASSUME NEW t \in Threads PROVE sheetJob[t] = Sheets!Idle \/ sheetJob[t].read \in Sheets!Sheet
    BY <2>1, SheetJobIs
  <2> QED  BY <2>1, <2>2, <2>3, <2>5, <2>6, <2>7 DEF SheetInv, Sheets!TypeOK
<1> QED  BY <1>1, SheetInit, SheetStep, PTL DEF Sheets!Spec

\* However many requests overlap and whatever lengths the model gives, a run of
\* it that leaves no beat unwritten leaves the whole sheet inside the target
\* (saveContent, BalanceSeconds).
THEOREM ContentAlwaysFits == Sheets!Spec => ContentRunFitsTarget
<1>1. ASSUME SheetInv, NEW t \in Threads, Sheets!EndContent(t), Sheets!AllWritten(sheet'.beats)
      PROVE  Sheets!Total(Sheets!Durs(sheet'.beats)) \in Sheets!target.lo .. Sheets!target.hi
  <2>1. PICK new : Stores(t, new) /\ Fits(new.beats)
    BY <1>1, ContentStores
  <2> QED  BY <1>1, <2>1 DEF Stores, Fits
<1>2. SheetInv /\ [Sheets!Next]_(Sheets!vars)
        => [(\E t \in Threads : Sheets!EndContent(t)) /\ Sheets!AllWritten(sheet'.beats)
              => Sheets!Total(Sheets!Durs(sheet'.beats)) \in Sheets!target.lo .. Sheets!target.hi]_(Sheets!vars)
  BY <1>1
<1> QED  BY <1>2, SheetInit, SheetStep, PTL
         DEF Sheets!Spec, ContentRunFitsTarget, Sheets!ContentRunFitsTarget

\* A sheet that follows from the stored one spares what the request did not name.
LEMMA FollowsSpares ==
    ASSUME NEW r \in GoodSheets, NEW j, j.read = r, NEW new \in GoodSheets, Follows(j, new),
           NEW i \in DOMAIN r.beats, NEW k \in DOMAIN new.beats,
           r.beats[i].key = new.beats[k].key
    PROVE  SparesBeat(j, r.beats[i], new.beats[k])
<1>1. /\ \A a, b \in DOMAIN r.beats : r.beats[a].key = r.beats[b].key => a = b
      /\ r.beats[i].key < r.nextSeq /\ r.beats[i].key \in Nat /\ r.nextSeq \in Nat
  BY GoodSheetIs
<1>2. PICK a \in DOMAIN r.beats :
         new.beats[k].key = r.beats[a].key /\ SparesBeat(j, r.beats[a], new.beats[k])
  BY <1>1 DEF Follows
<1>3. a = i
  BY <1>1, <1>2
<1> QED  BY <1>2, <1>3

\* One request at a time: what it read is what is stored.
SheetHeld == \A t \in Threads : sheetJob[t] # Sheets!Idle => sheetJob[t].read = sheet

LEMMA HeldStep ==
    ASSUME \E t : Threads = {t}, SheetInv, SheetHeld, [Sheets!Next]_(Sheets!vars)
    PROVE  /\ SheetHeld'
           /\ UNCHANGED sheet \/ \E t \in Threads : Stores(t, sheet') /\ sheetJob[t].read = sheet
<1>1. PICK t : Threads = {t}
  OBVIOUS
<1>2. sheetJob \in [Threads -> SheetJobs \cup {Sheets!Idle}]
  BY DEF SheetInv
<1>3. CASE UNCHANGED <<sheet, sheetJob>>
  BY <1>3 DEF SheetHeld
<1>4. CASE BeginsWith(t)
  <2>1. PICK j \in SheetJobs : j.read = sheet /\ sheetJob' = [sheetJob EXCEPT ![t] = j]
    BY <1>4 DEF BeginsWith
  <2>2. UNCHANGED sheet
    BY <1>4 DEF BeginsWith
  <2> QED  BY <1>1, <1>2, <2>1, <2>2 DEF SheetHeld
<1>5. ASSUME NEW new, Stores(t, new)
      PROVE  /\ SheetHeld'
             /\ \E u \in Threads : Stores(u, sheet') /\ sheetJob[u].read = sheet
  <2>1. sheetJob' = [sheetJob EXCEPT ![t] = Sheets!Idle] /\ sheet' = new
    BY <1>5 DEF Stores
  <2>2. sheetJob[t] # Sheets!Idle
    BY <1>5 DEF Stores
  <2> QED  BY <1>1, <1>2, <1>5, <2>1, <2>2 DEF SheetHeld
<1>6. CASE Sheets!GiveUp(t)
  BY <1>1, <1>2, <1>6 DEF Sheets!GiveUp, SheetHeld
<1> QED  BY <1>1, <1>3, <1>4, <1>5, <1>6, SheetMoves

\* While the requests on it come one at a time, a run of the model over the
\* sheet spares what the Creator approved and what the Creator wrote, and so does
\* every other request that does not ask for that beat (saveContent, Generate, Redo).
THEOREM SheetSpared ==
    ASSUME \E t : Threads = {t}
    PROVE  Sheets!Spec => RunsSpareTheCreators
<1> DEFINE Approved ==
       \A i \in DOMAIN sheet.beats, k \in DOMAIN sheet'.beats :
          LET b == sheet.beats[i]
              c == sheet'.beats[k]
          IN  (b.key = c.key /\ b.status = "approved" /\ c.status = "approved")
                  => (b.words = c.words /\ b.dur = c.dur)
    Kept ==
       \A i \in DOMAIN sheet.beats, k \in DOMAIN sheet'.beats :
          LET b == sheet.beats[i]
              c == sheet'.beats[k]
              Wanted(op) == \E t \in Threads : sheetJob[t].op = op /\ sheetJob[t].key = b.key
          IN  b.key = c.key =>
                  /\ b.words = "creator" /\ c.words # "creator"
                         => Wanted("EmptyWords") \/ Wanted("Redo")
                  /\ b.mineDur /\ c.dur # b.dur => Wanted("EditDur")
<1>1. Sheets!Init => SheetHeld
  BY DEF Sheets!Init, SheetHeld
<1>2. ASSUME SheetInv, SheetHeld, [Sheets!Next]_(Sheets!vars) PROVE Approved /\ Kept
  <2> SUFFICES ASSUME NEW i \in DOMAIN sheet.beats, NEW k \in DOMAIN sheet'.beats,
                      sheet.beats[i].key = sheet'.beats[k].key
               PROVE  \/ sheet'.beats[k] = sheet.beats[i]
                      \/ \E t \in Threads : SparesBeat(sheetJob[t], sheet.beats[i], sheet'.beats[k])
    BY DEF SparesBeat
  <2>1. sheet \in GoodSheets
    BY <1>2 DEF SheetInv
  <2>2. CASE UNCHANGED sheet
    <3>1. i = k
      BY <2>1, <2>2, GoodSheetIs
    <3> QED  BY <2>2, <3>1
  <2>3. ASSUME NEW t \in Threads, Stores(t, sheet'), sheetJob[t].read = sheet
        PROVE  SparesBeat(sheetJob[t], sheet.beats[i], sheet'.beats[k])
    <3>1. PICK r \in GoodSheets : r = sheet
      BY <2>1
    <3>2. PICK new \in GoodSheets : new = sheet'
      BY <2>3 DEF Stores
    <3>3. PICK j : j = sheetJob[t]
      OBVIOUS
    <3>4. j.read = r /\ Follows(j, new)
      BY <2>3, <3>1, <3>2, <3>3 DEF Stores
    <3> QED  BY <3>1, <3>2, <3>3, <3>4, FollowsSpares
  <2> QED  BY <1>2, <2>2, <2>3, HeldStep
<1>3. SheetInv /\ SheetHeld /\ [Sheets!Next]_(Sheets!vars) => SheetHeld'
  BY HeldStep
<1>4. SheetInv /\ SheetHeld /\ [Sheets!Next]_(Sheets!vars) => [Approved]_(Sheets!vars) /\ [Kept]_(Sheets!vars)
  BY <1>2
<1> QED  BY <1>1, <1>3, <1>4, SheetInit, SheetStep, PTL
         DEF Sheets!Spec, RunsSpareTheCreators, Sheets!RunsSpareTheCreators, Sheets!ApprovedBeatsStand,
             Sheets!CreatorPartsStand

-----------------------------------------------------------------------------
(* The four side by side.                                                  *)

\* Each part does in the joint run only what it does alone.
THEOREM SideBySide == OneOfSpec => Spec /\ Records!Spec /\ Sheets!Spec /\ Scripted!Spec
<1>1. OneOfInit => Init /\ Records!Init /\ Sheets!Init /\ Scripted!Init
  BY DEF OneOfInit
<1>2. [OneOfNext]_<<part, settingVars, rowVars, sheetVars, scriptVars>>
         => /\ [Next]_vars /\ [Records!Next]_(Records!vars)
            /\ [Sheets!Next]_(Sheets!vars) /\ [Scripted!Next]_(Scripted!vars)
  BY DEF OneOfNext, settingVars, rowVars, sheetVars, scriptVars, vars, Records!vars, Sheets!vars,
     Scripted!vars
<1> QED  BY <1>1, <1>2, PTL DEF OneOfSpec, Spec, Records!Spec, Sheets!Spec, Scripted!Spec
=============================================================================
