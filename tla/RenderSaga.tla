----------------------------- MODULE RenderSaga -----------------------------
(***************************************************************************)
(* The saga coordinator of services/orchestrator for one project: the      *)
(* project row, its saga_steps rows, the commands and events on the        *)
(* broker, and every handler and endpoint that moves them.  A handler or   *)
(* an endpoint is one action here; SagaHandlers splits them into their     *)
(* database calls.  Workers are seen from outside: a command is answered,   *)
(* dropped because it was cancelled, or dead-lettered.                     *)
(***************************************************************************)
EXTENDS Naturals, SagaSteps

CONSTANTS
    MaxRequests,       \* bound: how many requests the Creator makes
    SynthesisRetries,  \* len(synthesisAutoRetryBackoff)
    HumanPace,         \* the Creator lets a second pass after a cancel
    StartWhileRunning, \* StartRender is also called on a project in flight
    StaleDeadLetters   \* a dead letter may arrive after its step has moved on

ASSUME BoundsAssumption == MaxRequests \in Nat /\ SynthesisRetries \in Nat
ASSUME EnvironmentAssumption ==
    /\ HumanPace \in BOOLEAN
    /\ StartWhileRunning \in BOOLEAN
    /\ StaleDeadLetters \in BOOLEAN

VARIABLES
    status,    \* projects.status
    saga,      \* projects.saga_id, sagas numbered from 1; 0 before the first
    config,    \* projects.review_enabled and tts_enabled
    script,    \* version of projects.script_content
    outline,   \* version of the script that projects.scenes was made from
    step,      \* saga_steps: saga, step |-> status
    tries,     \* synthesisRetries, in memory: saga |-> automatic retries used
    cmds,      \* commands a worker has still to dispose of
    events,    \* events the orchestrator has still to handle
    sent,      \* number of commands sent so far
    now,       \* the clock, in seconds
    cancel,    \* the last cancel broadcast: its second, and sent at that time
    requests   \* requests made so far

vars == <<status, saga, config, script, outline, step, tries, cmds, events,
          sent, now, cancel, requests>>

row == <<config, script, outline>>

-----------------------------------------------------------------------------
\* Every request starts at most one saga.
Sagas == 1 .. MaxRequests

\* synthesis_failed carries "tts_engine_failure:" for a transient failure.
Kinds == {"ok", "failed", "engine_failure"}

Commands ==
    [id : Nat, saga : Sagas, step : Steps, script : Nat, stamp : Nat]

Events == [id : Nat, saga : Sagas, step : Steps, script : Nat, kind : Kinds]

\* What a command without a timestamp carries, and the second of no cancel.
NoStamp == 0

Init ==
    /\ status = "draft" /\ saga = 0
    /\ config = [review |-> TRUE, tts |-> TRUE]
    /\ script = 0 /\ outline = 0
    /\ step = [g \in Sagas |-> [s \in Steps |-> "none"]]
    /\ tries = [g \in Sagas |-> 0]
    /\ cmds = {} /\ events = {} /\ sent = 0
    /\ now = 1 /\ cancel = [second |-> NoStamp, sent |-> 0]
    /\ requests = 0

-----------------------------------------------------------------------------
(* What handlers and endpoints do to the rows and the outbox.              *)

Mark(rows, g, s, st) == [rows EXCEPT ![g][s] = st]

Send(g, s, text, stamp) ==
    /\ cmds' = cmds \cup {[id |-> sent + 1, saga |-> g, step |-> s,
                           script |-> text, stamp |-> stamp]}
    /\ sent' = sent + 1

NothingSent == UNCHANGED <<cmds, sent>>

\* Step s of saga g, in rows, is opened, its command sent, the project moved on.
Open(rows, g, s) ==
    /\ step' = Mark(rows, g, s, "in_progress")
    /\ status' = stepInProgressStatus[s]
    /\ Send(g, s, script', now)

Fail(rows, g, s) ==
    /\ step' = Mark(rows, g, s, "failed")
    /\ status' = FailedStatusForStep[s]

\* render_scenes needs the kit of the project's pinned visual language; a
\* project without one fails there.
startRenderScenes(rows, g) ==
    \/ Open(rows, g, "render_scenes")
    \/ Fail(rows, g, "render_scenes") /\ NothingSent

startSynthesizeSpeech(rows, g) ==
    /\ Open(rows, g, "synthesize_speech")
    /\ tries' = [tries EXCEPT ![g] = 0]

skipSynthesizeSpeech(rows, g) ==
    /\ startRenderScenes(Mark(rows, g, "synthesize_speech", "completed"), g)
    /\ UNCHANGED tries

AfterValidation(rows, g) ==
    \/ config.tts /\ startSynthesizeSpeech(rows, g)
    \/ ~config.tts /\ skipSynthesizeSpeech(rows, g)

-----------------------------------------------------------------------------
(* Requests of the Creator.                                                *)

Request ==
    /\ requests < MaxRequests
    /\ requests' = requests + 1

Paced == HumanPace => now > cancel.second

\* Mutant: a new run goes on under the saga the project has.
StartRenderSameSaga ==
    /\ Request /\ Paced
    /\ StartWhileRunning \/ status \notin InFlight
    /\ saga' = IF saga = 0 THEN 1 ELSE saga
    /\ config' \in [review : BOOLEAN, tts : BOOLEAN]
    /\ script' = script + 1 /\ outline' = 0
    /\ Open(step, saga', "validate_script")
    /\ UNCHANGED <<tries, events, now, cancel>>

\* The endpoint looks at no status: the row is overwritten whatever it was.
StartRender ==
    /\ Request /\ Paced
    /\ StartWhileRunning \/ status \notin InFlight
    /\ saga' = saga + 1
    /\ config' \in [review : BOOLEAN, tts : BOOLEAN]
    /\ script' = script + 1 /\ outline' = 0
    /\ Open(step, saga + 1, "validate_script")
    /\ UNCHANGED <<tries, events, now, cancel>>

StartPublish ==
    /\ Request
    /\ status = "ready_to_publish"
    /\ saga' = saga + 1
    /\ UNCHANGED <<row, tries, events, now, cancel>>
    /\ Open(step, saga + 1, "publish_video")

RetryStep(s) ==
    /\ Request /\ Paced
    /\ status = FailedStatusForStep[s]
    /\ tries' = IF s = "synthesize_speech" THEN [tries EXCEPT ![saga] = 0]
                                           ELSE tries
    /\ UNCHANGED <<row, saga, events, now, cancel>>
    /\ Open(step, saga, s)

\* Mutant: the cancel moves the project and leaves the step row.
CancelStatusOnly(s) ==
    /\ Request
    /\ s \in Cancellable /\ status = stepInProgressStatus[s]
    /\ cancel' = [second |-> now, sent |-> sent]
    /\ status' = FailedStatusForStep[s]
    /\ UNCHANGED <<row, saga, step, tries, cmds, events, sent, now>>

\* Publishing cannot be cancelled.  A cancel does not touch the commands: the
\* workers compare its time with a command's own.
CancelStep(s) ==
    /\ Request
    /\ s \in Cancellable /\ status = stepInProgressStatus[s]
    /\ cancel' = [second |-> now, sent |-> sent]
    /\ Fail(step, saga, s)
    /\ UNCHANGED <<row, saga, tries, cmds, events, sent, now>>

Approve ==
    /\ Request
    /\ status = "awaiting_review"
    /\ UNCHANGED <<row, saga, events, now, cancel>>
    /\ AfterValidation(step, saga)

\* The only command sent without a timestamp.
EditNarration ==
    /\ Request
    /\ status = "awaiting_review"
    /\ script' = script + 1
    /\ step' = Mark(step, saga, "validate_script", "in_progress")
    /\ status' = "validating_script"
    /\ Send(saga, "validate_script", script', NoStamp)
    /\ UNCHANGED <<saga, config, outline, tries, events, now, cancel>>

Reject ==
    /\ Request
    /\ status = "awaiting_review"
    /\ status' = "draft"
    /\ UNCHANGED <<saga, row, step, tries, cmds, events, sent, now, cancel>>

-----------------------------------------------------------------------------
(* Workers.                                                                *)

IsCancelled(c) == c.stamp # NoStamp /\ c.stamp <= cancel.second

\* The event and the inbox mark are one transaction.  A cancelled command is
\* answered too when its event was written before the cancel came in, or by a
\* worker that has restarted since: the registry of cancels is in memory.
Answer(c) ==
    /\ cmds' = cmds \ {c}
    /\ \E k \in IF c.step = "synthesize_speech" THEN Kinds ELSE {"ok", "failed"} :
          events' = events \cup {[id |-> c.id, saga |-> c.saga, step |-> c.step,
                                  script |-> c.script, kind |-> k]}
    /\ UNCHANGED <<status, saga, row, step, tries, sent, now, cancel, requests>>

\* The publisher subscribes to no cancels.
DropCancelled(c) ==
    /\ c.step # "publish_video" /\ IsCancelled(c)
    /\ cmds' = cmds \ {c}
    /\ UNCHANGED <<status, saga, row, step, tries, events, sent, now, cancel,
                   requests>>

\* Mutant: only an event for a completed step is dropped.
CurrentUnlessCompleted(m) == step[m.saga][m.step] # "completed"

Current(m) == step[m.saga][m.step] = "in_progress"

\* A command no worker could handle, or took for 24 hours, is failed from its
\* dead letter queue, whatever its step is doing by then.
handleDLQDelivery(c) ==
    /\ StaleDeadLetters \/ Current(c)
    /\ cmds' = cmds \ {c}
    /\ Fail(step, c.saga, c.step)
    /\ UNCHANGED <<saga, row, tries, events, sent, now, cancel, requests>>

-----------------------------------------------------------------------------
(* Events.  One for a step that is not in progress is dropped.             *)

Take(e) == events' = events \ {e}

Completed(e) == Mark(step, e.saga, e.step, "completed")

Accepted(e, s, k) == e.step = s /\ e.kind = k /\ Current(e) /\ Take(e)

SkipEvent(e) ==
    /\ ~Current(e) /\ Take(e)
    /\ UNCHANGED <<status, saga, row, step, tries, cmds, sent, now, cancel,
                   requests>>

\* The same for an event: after 24 hours of failed deliveries.
handleEventsDLQDelivery(e) ==
    /\ StaleDeadLetters \/ Current(e)
    /\ Take(e)
    /\ Fail(step, e.saga, e.step)
    /\ UNCHANGED <<saga, row, tries, cmds, sent, now, cancel, requests>>

handleFailure(e) ==
    /\ Current(e) /\ Take(e)
    /\ \/ e.kind = "failed" /\ UNCHANGED tries
       \/ /\ e.kind = "engine_failure" /\ tries[e.saga] >= SynthesisRetries
          /\ tries' = [tries EXCEPT ![e.saga] = 0]
    /\ Fail(step, e.saga, e.step)
    /\ UNCHANGED <<saga, row, cmds, sent, now, cancel, requests>>

\* Mutant: no command is sent.
RetryWithoutCommand(e) ==
    /\ Accepted(e, "synthesize_speech", "engine_failure")
    /\ tries[e.saga] < SynthesisRetries
    /\ tries' = [tries EXCEPT ![e.saga] = @ + 1]
    /\ NothingSent
    /\ UNCHANGED <<status, saga, row, step, now, cancel, requests>>

retryTransientSynthesisFailure(e) ==
    /\ Accepted(e, "synthesize_speech", "engine_failure")
    /\ tries[e.saga] < SynthesisRetries
    /\ tries' = [tries EXCEPT ![e.saga] = @ + 1]
    /\ Send(e.saga, "synthesize_speech", script, now)
    /\ UNCHANGED <<status, saga, row, step, now, cancel, requests>>

\* Missing beats fail the step that has just been completed; a project under
\* review stops; any other goes on.
onScriptValidated(e) ==
    /\ Accepted(e, "validate_script", "ok")
    /\ outline' = e.script
    /\ UNCHANGED <<saga, config, script, now, cancel, requests>>
    /\ \/ Fail(step, e.saga, "validate_script") /\ NothingSent /\ UNCHANGED tries
       \/ /\ config.review
          /\ step' = Completed(e) /\ status' = "awaiting_review"
          /\ NothingSent /\ UNCHANGED tries
       \/ ~config.review /\ AfterValidation(Completed(e), e.saga)

\* Audio for another set of scenes than the outline's fails the next step.
onSpeechSynthesized(e) ==
    /\ Accepted(e, "synthesize_speech", "ok")
    /\ tries' = [tries EXCEPT ![e.saga] = 0]
    /\ UNCHANGED <<saga, row, now, cancel, requests>>
    /\ \/ Fail(Completed(e), e.saga, "render_scenes") /\ NothingSent
       \/ startRenderScenes(Completed(e), e.saga)

\* So many wait offsets as scenes, or the step is failed after all.
onRenderingCompleted(e) ==
    /\ Accepted(e, "render_scenes", "ok")
    /\ UNCHANGED <<saga, row, tries, now, cancel, requests>>
    /\ \/ Fail(step, e.saga, "render_scenes") /\ NothingSent
       \/ Open(Completed(e), e.saga, "assemble_video")

onVideoAssembled(e) ==
    /\ Accepted(e, "assemble_video", "ok")
    /\ step' = Completed(e) /\ status' = "ready_to_publish"
    /\ UNCHANGED <<saga, row, tries, cmds, sent, now, cancel, requests>>

onVideoPublished(e) ==
    /\ Accepted(e, "publish_video", "ok")
    /\ step' = Completed(e) /\ status' = "published"
    /\ UNCHANGED <<saga, row, tries, cmds, sent, now, cancel, requests>>

-----------------------------------------------------------------------------
Creator ==
    \/ StartRender \/ StartPublish \/ Approve \/ EditNarration \/ Reject
    \/ \E s \in Steps : RetryStep(s) \/ CancelStep(s)

Worker ==
    \E c \in cmds : Answer(c) \/ DropCancelled(c) \/ handleDLQDelivery(c)

Orchestrator ==
    \E e \in events :
        \/ SkipEvent(e) \/ handleEventsDLQDelivery(e)
        \/ handleFailure(e) \/ retryTransientSynthesisFailure(e)
        \/ onScriptValidated(e) \/ onSpeechSynthesized(e)
        \/ onRenderingCompleted(e) \/ onVideoAssembled(e) \/ onVideoPublished(e)

\* Of the clock only the order between commands and the last cancel is read, so
\* it need not move while it still shows the second after that cancel.
Tick ==
    /\ now = cancel.second
    /\ now' = now + 1
    /\ UNCHANGED <<status, saga, row, step, tries, cmds, events, sent, cancel,
                   requests>>

Next == Creator \/ Worker \/ Orchestrator \/ Tick

Spec == Init /\ [][Next]_vars

\* A command that no worker takes expires into the dead letter queue after 24
\* hours, and the orchestrator handles deliveries for as long as it is up; the
\* Creator and the clock owe nothing.
Fairness == WF_vars(Worker) /\ WF_vars(Orchestrator)

FairSpec == Spec /\ Fairness

-----------------------------------------------------------------------------
TypeOK ==
    /\ status \in Statuses
    /\ saga \in 0 .. requests
    /\ requests \in 0 .. MaxRequests
    /\ config \in [review : BOOLEAN, tts : BOOLEAN]
    /\ script \in Nat /\ outline \in Nat
    /\ step \in [Sagas -> [Steps -> StepStatuses]]
    /\ tries \in [Sagas -> 0 .. SynthesisRetries]
    /\ cmds \subseteq Commands /\ events \subseteq Events
    /\ sent \in Nat /\ now \in Nat \ {0}
    /\ cancel \in [second : Nat, sent : Nat]

\* The project is in flight exactly while one step is: the step its status
\* names, of the saga its row points to.  Everything that decides by the
\* status alone (BeginDelete, CancelStep, StartPublish, the wizard) relies on
\* it, and every handler writes the two rows one after the other.
StatusMatchesStep ==
    \A g \in Sagas, s \in Steps :
        step[g][s] = "in_progress"
            <=> g = saga /\ status = stepInProgressStatus[s]

\* No step of a saga is begun before all the earlier ones are completed, and a
\* step that failed or runs has nothing begun after it: what a retry of it
\* would do again is not already there.
EarlierStepsDone ==
    \A g \in Sagas, s \in Steps :
        step[g][s] # "none" => \A r \in Earlier[s] : step[g][r] = "completed"

\* A project that says it failed at a step has that step of its current saga
\* failed, so that Retry, which goes by the status, reopens a failed step.
FailedStatusIsOfStep ==
    \A s \in Steps :
        status = FailedStatusForStep[s] => step[saga][s] = "failed"

\* Whatever is offered for publishing, is being published or is published was
\* assembled: a whole render saga is behind it, the latest one there is.
PublishedWasAssembled ==
    status \in {"ready_to_publish", "publishing", "published",
                "failed_at_publish_video"}
        => \E g \in 1 .. saga :
              /\ \A s \in RenderSteps : step[g][s] = "completed"
              /\ \A h \in (g + 1) .. saga : step[h]["validate_script"] = "none"

\* The project row and the step rows tell the same story, in all four respects.
RowsAgree ==
    /\ StatusMatchesStep
    /\ EarlierStepsDone
    /\ FailedStatusIsOfStep
    /\ PublishedWasAssembled

\* A project in flight has work outstanding that will bring it on: a command no
\* worker will drop as cancelled, or an answer, for the very step that is in
\* progress.  Every cancel, retry, late answer and automatic retry must keep it.
NeverStranded ==
    \A s \in Steps :
        status = stepInProgressStatus[s] =>
            \/ \E c \in cmds : c.saga = saga /\ c.step = s
                               /\ (s = "publish_video" \/ ~IsCancelled(c))
            \/ \E e \in events : e.saga = saga /\ e.step = s

\* A command sent after a cancel is not one the workers take for cancelled
\* (domain/ports.go: "one sent after it (a retry) runs normally").
SentAfterCancelRuns ==
    \A c \in cmds : c.id > cancel.sent => ~IsCancelled(c)

\* Once a project rests, only a request of the Creator moves it: no message
\* that was still under way does.
OnlyRequestsWake ==
    [][status \notin InFlight /\ status' # status => requests' # requests]_vars

\* A step that runs comes to an end: the project does not stay in flight for
\* ever, whatever fails and however often speech synthesis is retried.
RunningSettles == status \in InFlight ~> status \notin InFlight

-----------------------------------------------------------------------------
(* The promise it keeps.                                                   *)

StageOf ==
    [s \in Steps |->
        CASE s = "validate_script"   -> 1
          [] s = "synthesize_speech" -> 2
          [] s = "render_scenes"     -> 3
          [] s = "assemble_video"    -> 4
          [] s = "publish_video"     -> 5]

\* The saga that renders, or last rendered, the project.
RenderRun ==
    IF \E g \in Sagas : step[g]["validate_script"] # "none"
    THEN CHOOSE g \in Sagas :
            /\ step[g]["validate_script"] # "none"
            /\ \A h \in Sagas : h > g => step[h]["validate_script"] = "none"
    ELSE 0

ModeOf ==
    CASE status \in InFlight                             -> "running"
      [] status \in Failed                               -> "failed"
      [] status \in {"awaiting_review", "ready_to_publish"} -> "waiting"
      [] status = "published"                            -> "finished"
      [] status = "draft"                                -> "draft"

AtOf ==
    CASE status = "draft"            -> 0
      [] status = "awaiting_review"  -> 1
      [] status = "ready_to_publish" -> 4
      [] status = "published"        -> 5
      [] OTHER -> StageOf[CHOOSE s \in Steps :
                            status \in {stepInProgressStatus[s], FailedStatusForStep[s]}]

DoneOf ==
    {StageOf[s] : s \in {r \in RenderSteps :
                            RenderRun # 0 /\ step[RenderRun][r] = "completed"}}
    \cup {StageOf[s] : s \in {r \in {"publish_video"} :
                            saga # 0 /\ step[saga][r] = "completed"}}

\* The video is produced stage by stage, as Pipeline has it.
Pipe == INSTANCE Pipeline WITH N <- 5, mode <- ModeOf, at <- AtOf, done <- DoneOf

ImplementsPipeline == Pipe!Spec
=============================================================================
