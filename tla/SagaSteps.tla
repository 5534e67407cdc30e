----------------------------- MODULE SagaSteps ------------------------------
(***************************************************************************)
(* The steps of the render and the publish saga and the project statuses   *)
(* that stand for them (services/orchestrator, domain/project.go and the   *)
(* tables of the application package).  The steps parse_script and         *)
(* qc_video still have names and statuses in the code and are dispatched   *)
(* by nothing; they are left out.                                          *)
(***************************************************************************)

RenderSteps ==
    {"validate_script", "synthesize_speech", "render_scenes", "assemble_video"}

Steps == RenderSteps \cup {"publish_video"}

Earlier ==
    [s \in Steps |->
        CASE s = "validate_script"   -> {}
          [] s = "synthesize_speech" -> {"validate_script"}
          [] s = "render_scenes"     -> {"validate_script", "synthesize_speech"}
          [] s = "assemble_video"    -> RenderSteps \ {"assemble_video"}
          [] s = "publish_video"     -> {}]    \* it has a saga of its own

stepInProgressStatus ==
    [s \in Steps |->
        CASE s = "validate_script"   -> "validating_script"
          [] s = "synthesize_speech" -> "synthesizing_speech"
          [] s = "render_scenes"     -> "rendering"
          [] s = "assemble_video"    -> "assembling_video"
          [] s = "publish_video"     -> "publishing"]

FailedStatusForStep ==
    [s \in Steps |->
        CASE s = "validate_script"   -> "failed_at_validate_script"
          [] s = "synthesize_speech" -> "failed_at_synthesize_speech"
          [] s = "render_scenes"     -> "failed_at_render_scenes"
          [] s = "assemble_video"    -> "failed_at_assemble_video"
          [] s = "publish_video"     -> "failed_at_publish_video"]

InFlight == {stepInProgressStatus[s] : s \in Steps}

Failed == {FailedStatusForStep[s] : s \in Steps}

Resting == {"draft", "awaiting_review", "ready_to_publish", "published"}

Statuses == InFlight \cup Failed \cup Resting

StepStatuses == {"none", "in_progress", "completed", "failed"}

\* A cancel goes by the status, and a publish cannot be cancelled.
Cancellable == RenderSteps
=============================================================================
