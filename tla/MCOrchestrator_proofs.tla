------------------------ MODULE MCOrchestrator_proofs ------------------------
(***************************************************************************)
(* Theorems about what the orchestrator drives, with their proofs, for     *)
(* every number of requests, retries, sagas, workers and files: the render *)
(* and publish saga, the delete of a project, the handlers call by call,   *)
(* the versions of a channel's intro and what a finished video plays.      *)
(***************************************************************************)
EXTENDS MCOrchestrator, Sequences, SequenceTheorems, FiniteSetTheorems, TLAPS, WellFoundedInduction

-----------------------------------------------------------------------------
(* The tables of statuses.                                                 *)

\* Two steps never share a status, and no status says two things.
LEMMA StatusTables ==
    /\ \A s \in Steps : /\ stepInProgressStatus[s] \in InFlight
                        /\ FailedStatusForStep[s] \in Failed
    /\ \A r, s \in Steps : /\ stepInProgressStatus[r] = stepInProgressStatus[s] => r = s
                           /\ FailedStatusForStep[r] = FailedStatusForStep[s] => r = s
                           /\ stepInProgressStatus[r] # FailedStatusForStep[s]
    /\ \A s \in Steps : /\ stepInProgressStatus[s] \notin Resting
                        /\ FailedStatusForStep[s] \notin Resting
BY DEF Steps, RenderSteps, stepInProgressStatus, FailedStatusForStep, InFlight,
       Failed, Resting

\* The table Earlier, step by step.
LEMMA EarlierTable ==
    /\ \A s \in Steps : Earlier[s] \subseteq RenderSteps /\ s \notin Earlier[s]
    /\ Earlier["validate_script"] = {}
    /\ Earlier["synthesize_speech"] = {"validate_script"}
    /\ Earlier["render_scenes"] = {"validate_script", "synthesize_speech"}
    /\ Earlier["assemble_video"] = RenderSteps \ {"assemble_video"}
    /\ Earlier["publish_video"] = {}
BY DEF Steps, RenderSteps, Earlier

-----------------------------------------------------------------------------
(* Types.                                                                  *)

\* Marking one step keeps the type of the step rows.
LEMMA MarkType ==
    ASSUME NEW rows \in [Sagas -> [Steps -> StepStatuses]],
           NEW g \in Sagas, NEW s \in Steps, NEW st \in StepStatuses
    PROVE  /\ Mark(rows, g, s, st) \in [Sagas -> [Steps -> StepStatuses]]
           /\ \A h \in Sagas, r \in Steps :
                 Mark(rows, g, s, st)[h][r] = IF h = g /\ r = s THEN st ELSE rows[h][r]
BY DEF Mark

\* Sending one command of a known saga keeps the types of the outbox.
LEMMA SendType ==
    ASSUME TypeOK, NEW g \in Sagas, NEW s \in Steps, NEW text \in Nat,
           NEW stamp \in Nat, Send(g, s, text, stamp)
    PROVE  cmds' \subseteq Commands /\ sent' \in Nat
BY DEF TypeOK, Send, Commands

\* Opening a step keeps the types of what it touches.
LEMMA OpenType ==
    ASSUME TypeOK, NEW rows \in [Sagas -> [Steps -> StepStatuses]],
           NEW g \in Sagas, NEW s \in Steps, script' \in Nat, Open(rows, g, s)
    PROVE  /\ step' \in [Sagas -> [Steps -> StepStatuses]]
           /\ status' \in Statuses
           /\ cmds' \subseteq Commands /\ sent' \in Nat
<1>1. step' \in [Sagas -> [Steps -> StepStatuses]]
  BY MarkType DEF Open, StepStatuses
<1>2. status' \in Statuses
  BY StatusTables DEF Open, Statuses
<1>3. Send(g, s, script', now) /\ now \in Nat
  BY DEF Open, TypeOK
<1>4. cmds' \subseteq Commands /\ sent' \in Nat
  BY <1>3, SendType
<1> QED  BY <1>1, <1>2, <1>4

\* So does failing one.
LEMMA FailType ==
    ASSUME NEW rows \in [Sagas -> [Steps -> StepStatuses]],
           NEW g \in Sagas, NEW s \in Steps, Fail(rows, g, s)
    PROVE  step' \in [Sagas -> [Steps -> StepStatuses]] /\ status' \in Statuses
BY MarkType, StatusTables DEF Fail, StepStatuses, Statuses

\* The types after the render step was opened or refused.
LEMMA startRenderScenesType ==
    ASSUME TypeOK, NEW rows \in [Sagas -> [Steps -> StepStatuses]],
           NEW g \in Sagas, script' \in Nat, startRenderScenes(rows, g)
    PROVE  /\ step' \in [Sagas -> [Steps -> StepStatuses]]
           /\ status' \in Statuses
           /\ cmds' \subseteq Commands /\ sent' \in Nat
<1>1. CASE Open(rows, g, "render_scenes")
  BY <1>1, OpenType DEF Steps, RenderSteps
<1>2. CASE Fail(rows, g, "render_scenes") /\ NothingSent
  BY <1>2, FailType DEF Steps, RenderSteps, NothingSent, TypeOK
<1> QED  BY <1>1, <1>2 DEF startRenderScenes

\* The types after what follows validation or an approval.
LEMMA AfterValidationType ==
    ASSUME TypeOK, NEW rows \in [Sagas -> [Steps -> StepStatuses]],
           NEW g \in Sagas, script' \in Nat, AfterValidation(rows, g)
    PROVE  /\ step' \in [Sagas -> [Steps -> StepStatuses]]
           /\ status' \in Statuses
           /\ cmds' \subseteq Commands /\ sent' \in Nat
           /\ tries' \in [Sagas -> 0 .. SynthesisRetries]
<1>1. CASE startSynthesizeSpeech(rows, g)
  <2>1. Open(rows, g, "synthesize_speech")
    BY <1>1 DEF startSynthesizeSpeech
  <2>2. tries' \in [Sagas -> 0 .. SynthesisRetries]
    BY <1>1, BoundsAssumption DEF startSynthesizeSpeech, TypeOK
  <2> QED  BY <2>1, <2>2, OpenType DEF Steps, RenderSteps
<1>2. CASE skipSynthesizeSpeech(rows, g)
  <2>1. Mark(rows, g, "synthesize_speech", "completed")
           \in [Sagas -> [Steps -> StepStatuses]]
    BY MarkType DEF Steps, RenderSteps, StepStatuses
  <2> QED  BY <1>2, <2>1, startRenderScenesType DEF skipSynthesizeSpeech, TypeOK
<1> QED  BY <1>1, <1>2 DEF AfterValidation

-----------------------------------------------------------------------------
\* The next-state relation action by action, for the proofs that follow.
LEMMA NextCases ==
    ASSUME Next
    PROVE  \/ StartRender \/ StartPublish \/ Approve \/ EditNarration \/ Reject
           \/ \E s \in Steps : RetryStep(s)
           \/ \E s \in Steps : CancelStep(s)
           \/ \E c \in cmds : Answer(c)
           \/ \E c \in cmds : DropCancelled(c)
           \/ \E c \in cmds : handleDLQDelivery(c)
           \/ \E e \in events : SkipEvent(e)
           \/ \E e \in events : handleEventsDLQDelivery(e)
           \/ \E e \in events : handleFailure(e)
           \/ \E e \in events : retryTransientSynthesisFailure(e)
           \/ \E e \in events : onScriptValidated(e)
           \/ \E e \in events : onSpeechSynthesized(e)
           \/ \E e \in events : onRenderingCompleted(e)
           \/ \E e \in events : onVideoAssembled(e)
           \/ \E e \in events : onVideoPublished(e)
           \/ Tick
BY DEF Next, Creator, Worker, Orchestrator

\* A project past its first draft has a saga, and messages are of sagas begun.
KnownSagas ==
    /\ status # "draft" => saga # 0
    /\ \A m \in cmds \cup events : m.saga <= saga

\* Every step of the saga keeps the types.
LEMMA TypeStep ==
    ASSUME TypeOK, KnownSagas, [Next]_vars
    PROVE  TypeOK'
<1>1. 0 \in 0 .. SynthesisRetries
  BY BoundsAssumption
<1>2. /\ "validate_script" \in Steps /\ "synthesize_speech" \in Steps
      /\ "render_scenes" \in Steps /\ "assemble_video" \in Steps
      /\ "publish_video" \in Steps
  BY DEF Steps, RenderSteps
<1>3. \A c \in cmds : c.saga \in Sagas /\ c.step \in Steps /\ c.id \in Nat /\ c.script \in Nat
  BY DEF TypeOK, Commands
<1>4. \A e \in events : e.saga \in Sagas /\ e.step \in Steps /\ e.script \in Nat
  BY DEF TypeOK, Events
<1>5. \A e \in events : Completed(e) \in [Sagas -> [Steps -> StepStatuses]]
  BY <1>4, MarkType DEF Completed, TypeOK, StepStatuses
<1>6. ASSUME Request PROVE requests' \in 0 .. MaxRequests /\ saga + 1 \in Sagas
                           /\ saga + 1 \in 0 .. requests' /\ saga \in 0 .. requests'
  BY <1>6, BoundsAssumption DEF Request, TypeOK, Sagas
<1>7. status \in {"awaiting_review"} \cup InFlight \cup Failed => saga \in Sagas
  BY StatusTables, BoundsAssumption DEF KnownSagas, TypeOK, Sagas, Resting, InFlight, Failed
<1>8. CASE StartRender
  <2>1. script' \in Nat
    BY <1>8 DEF StartRender, TypeOK
  <2> QED  BY <1>8, <1>2, <1>6, <2>1, OpenType DEF StartRender, TypeOK
<1>9. CASE StartPublish
  <2>1. script' \in Nat
    BY <1>9 DEF StartPublish, TypeOK, row
  <2> QED  BY <1>9, <1>2, <1>6, <2>1, OpenType DEF StartPublish, TypeOK, row
<1>10. CASE Approve
  <2>1. saga \in Sagas
    BY <1>10, <1>7 DEF Approve
  <2> QED  BY <1>10, <1>6, <2>1, AfterValidationType DEF Approve, TypeOK, row
<1>11. CASE EditNarration
  <2>1. saga \in Sagas /\ script' \in Nat
    BY <1>11, <1>7 DEF EditNarration, TypeOK
  <2>2. cmds' \subseteq Commands /\ sent' \in Nat
    BY <1>11, <2>1, <1>2, SendType DEF EditNarration, NoStamp
  <2>3. step' \in [Sagas -> [Steps -> StepStatuses]] /\ status' \in Statuses
    BY <1>11, <2>1, <1>2, MarkType, StatusTables
       DEF EditNarration, TypeOK, Statuses, StepStatuses, stepInProgressStatus
  <2> QED  BY <1>11, <1>6, <2>1, <2>2, <2>3 DEF EditNarration, TypeOK
<1>12. CASE Reject
  BY <1>12, <1>6 DEF Reject, TypeOK, row, Statuses, Resting
<1>13. ASSUME NEW s \in Steps, RetryStep(s) PROVE TypeOK'
  <2>1. saga \in Sagas /\ script' \in Nat
    BY <1>13, <1>7, StatusTables DEF RetryStep, TypeOK, row
  <2>2. tries' \in [Sagas -> 0 .. SynthesisRetries]
    BY <1>13, <1>1 DEF RetryStep, TypeOK
  <2> QED  BY <1>13, <1>6, <2>1, <2>2, OpenType DEF RetryStep, TypeOK, row
<1>14. ASSUME NEW s \in Steps, CancelStep(s) PROVE TypeOK'
  <2>1. saga \in Sagas
    BY <1>14, <1>7, StatusTables DEF CancelStep
  <2> QED  BY <1>14, <1>6, <2>1, FailType DEF CancelStep, TypeOK, row
<1>15. ASSUME NEW c \in cmds, Answer(c) PROVE TypeOK'
  BY <1>15, <1>3 DEF Answer, TypeOK, row, Events, Kinds
<1>16. ASSUME NEW c \in cmds, DropCancelled(c) PROVE TypeOK'
  BY <1>16 DEF DropCancelled, TypeOK, row
<1>17. ASSUME NEW c \in cmds, handleDLQDelivery(c) PROVE TypeOK'
  BY <1>17, <1>3, FailType DEF handleDLQDelivery, TypeOK, row
<1>18. ASSUME NEW e \in events, SkipEvent(e) PROVE TypeOK'
  BY <1>18 DEF SkipEvent, Take, TypeOK, row
<1>19. ASSUME NEW e \in events, handleEventsDLQDelivery(e) PROVE TypeOK'
  BY <1>19, <1>4, FailType DEF handleEventsDLQDelivery, Take, TypeOK, row
<1>20. ASSUME NEW e \in events, handleFailure(e) PROVE TypeOK'
  <2>1. tries' \in [Sagas -> 0 .. SynthesisRetries]
    BY <1>20, <1>1 DEF handleFailure, TypeOK
  <2> QED  BY <1>20, <2>1, <1>4, FailType DEF handleFailure, Take, TypeOK, row
<1>21. ASSUME NEW e \in events, retryTransientSynthesisFailure(e) PROVE TypeOK'
  BY <1>21, <1>2, <1>4, BoundsAssumption, SendType
     DEF retryTransientSynthesisFailure, Accepted, Take, TypeOK, row
<1>22. ASSUME NEW e \in events, onScriptValidated(e) PROVE TypeOK'
  <2>1. script' \in Nat /\ outline' \in Nat
    BY <1>22, <1>4 DEF onScriptValidated, TypeOK
  <2>2. events' \subseteq Events
    BY <1>22 DEF onScriptValidated, Accepted, Take, TypeOK
  <2>3. CASE Fail(step, e.saga, "validate_script") /\ NothingSent /\ UNCHANGED tries
    BY <1>22, <2>1, <2>2, <2>3, <1>2, <1>4, FailType
       DEF onScriptValidated, NothingSent, TypeOK
  <2>4. CASE /\ step' = Completed(e) /\ status' = "awaiting_review"
             /\ NothingSent /\ UNCHANGED tries
    BY <1>22, <2>1, <2>2, <2>4, <1>5
       DEF onScriptValidated, NothingSent, TypeOK, Statuses, Resting
  <2>5. CASE AfterValidation(Completed(e), e.saga)
    BY <1>22, <2>1, <2>2, <2>5, <1>4, <1>5, AfterValidationType
       DEF onScriptValidated, TypeOK
  <2> QED  BY <1>22, <2>3, <2>4, <2>5 DEF onScriptValidated
<1>23. ASSUME NEW e \in events, onSpeechSynthesized(e) PROVE TypeOK'
  <2>1. /\ script' \in Nat /\ events' \subseteq Events
        /\ tries' \in [Sagas -> 0 .. SynthesisRetries]
    BY <1>23, <1>1 DEF onSpeechSynthesized, Accepted, Take, TypeOK, row
  <2>2. CASE Fail(Completed(e), e.saga, "render_scenes") /\ NothingSent
    BY <1>23, <2>1, <2>2, <1>2, <1>4, <1>5, FailType
       DEF onSpeechSynthesized, NothingSent, TypeOK, row
  <2>3. CASE startRenderScenes(Completed(e), e.saga)
    BY <1>23, <2>1, <2>3, <1>4, <1>5, startRenderScenesType
       DEF onSpeechSynthesized, TypeOK, row
  <2> QED  BY <1>23, <2>2, <2>3 DEF onSpeechSynthesized
<1>24. ASSUME NEW e \in events, onRenderingCompleted(e) PROVE TypeOK'
  <2>1. script' \in Nat /\ events' \subseteq Events
    BY <1>24 DEF onRenderingCompleted, Accepted, Take, TypeOK, row
  <2>2. CASE Fail(step, e.saga, "render_scenes") /\ NothingSent
    BY <1>24, <2>1, <2>2, <1>2, <1>4, FailType
       DEF onRenderingCompleted, NothingSent, TypeOK, row
  <2>3. CASE Open(Completed(e), e.saga, "assemble_video")
    BY <1>24, <2>1, <2>3, <1>2, <1>4, <1>5, OpenType
       DEF onRenderingCompleted, TypeOK, row
  <2> QED  BY <1>24, <2>2, <2>3 DEF onRenderingCompleted
<1>25. ASSUME NEW e \in events, onVideoAssembled(e) PROVE TypeOK'
  BY <1>25, <1>5 DEF onVideoAssembled, Accepted, Take, TypeOK, row, Statuses, Resting
<1>26. ASSUME NEW e \in events, onVideoPublished(e) PROVE TypeOK'
  BY <1>26, <1>5 DEF onVideoPublished, Accepted, Take, TypeOK, row, Statuses, Resting
<1>27. CASE Tick
  BY <1>27 DEF Tick, TypeOK, row
<1>28. CASE UNCHANGED vars
  BY <1>28 DEF vars, TypeOK
<1> QED
  BY <1>8, <1>9, <1>10, <1>11, <1>12, <1>13, <1>14, <1>15, <1>16, <1>17, <1>18, <1>19,
     <1>20, <1>21, <1>22, <1>23, <1>24, <1>25, <1>26, <1>27, <1>28, NextCases

\* Every message under way is of a saga that was started, whatever happens next.
LEMMA KnownStep ==
    ASSUME TypeOK, KnownSagas, [Next]_vars
    PROVE  KnownSagas'
<1>1. saga \in Nat
  BY DEF TypeOK
<1>2. ASSUME saga' = saga + 1, events' = events,
             \A c \in cmds' : c \in cmds \/ c.saga = saga'
      PROVE  KnownSagas'
  BY <1>1, <1>2 DEF KnownSagas, TypeOK, Commands, Events, Sagas
<1>3. ASSUME saga' = saga, saga # 0 \/ status' = "draft",
             \A e \in events' : e \in events \/ e.saga <= saga,
             \A c \in cmds' : c \in cmds \/ c.saga <= saga
      PROVE  KnownSagas'
  BY <1>3 DEF KnownSagas
<1>4. \A m \in cmds \cup events : m.saga <= saga /\ saga # 0
  BY <1>1 DEF KnownSagas, TypeOK, Commands, Events, Sagas
<1>5. \A s \in Steps : stepInProgressStatus[s] # "draft" /\ FailedStatusForStep[s] # "draft"
  BY StatusTables DEF Resting
<1>6. ASSUME NEW rows, NEW g, NEW s, g <= saga, Open(rows, g, s)
      PROVE  \A c \in cmds' : c \in cmds \/ c.saga <= saga
  BY <1>6 DEF Open, Send
<1>7. ASSUME NEW rows, NEW g, g <= saga, startRenderScenes(rows, g)
      PROVE  \A c \in cmds' : c \in cmds \/ c.saga <= saga
  BY <1>7, <1>6 DEF startRenderScenes, NothingSent
<1>8. ASSUME NEW rows, NEW g, g <= saga, AfterValidation(rows, g)
      PROVE  \A c \in cmds' : c \in cmds \/ c.saga <= saga
  BY <1>8, <1>6, <1>7
     DEF AfterValidation, startSynthesizeSpeech, skipSynthesizeSpeech
<1>9. CASE StartRender \/ StartPublish
  BY <1>2, <1>9 DEF StartRender, StartPublish, Open, Send
<1>10. CASE Approve
  BY <1>1, <1>3, <1>10, <1>8 DEF Approve, KnownSagas
<1>11. CASE EditNarration
  BY <1>1, <1>3, <1>11 DEF EditNarration, Send, KnownSagas
<1>12. CASE Reject
  BY <1>3, <1>12 DEF Reject
<1>13. ASSUME NEW s \in Steps, RetryStep(s) PROVE KnownSagas'
  BY <1>1, <1>3, <1>13, <1>5, <1>6 DEF RetryStep, KnownSagas
<1>14. ASSUME NEW s \in Steps, CancelStep(s) PROVE KnownSagas'
  BY <1>3, <1>14, <1>5 DEF CancelStep, KnownSagas
<1>15. ASSUME NEW c \in cmds, Answer(c) \/ DropCancelled(c) \/ handleDLQDelivery(c)
       PROVE  KnownSagas'
  BY <1>3, <1>15, <1>4 DEF Answer, DropCancelled, handleDLQDelivery
<1>16. ASSUME NEW e \in events,
              \/ SkipEvent(e) \/ handleEventsDLQDelivery(e) \/ handleFailure(e)
              \/ onVideoAssembled(e) \/ onVideoPublished(e)
       PROVE  KnownSagas'
  BY <1>3, <1>16, <1>4
     DEF SkipEvent, handleEventsDLQDelivery, handleFailure, onVideoAssembled,
         onVideoPublished, Accepted, Take
<1>17. ASSUME NEW e \in events, retryTransientSynthesisFailure(e)
       PROVE  KnownSagas'
  BY <1>3, <1>17, <1>4 DEF retryTransientSynthesisFailure, Accepted, Take, Send
<1>18. ASSUME NEW e \in events, onScriptValidated(e)
       PROVE  KnownSagas'
  BY <1>3, <1>18, <1>4, <1>8 DEF onScriptValidated, Accepted, Take, NothingSent
<1>19. ASSUME NEW e \in events, onSpeechSynthesized(e)
       PROVE  KnownSagas'
  BY <1>3, <1>19, <1>4, <1>7 DEF onSpeechSynthesized, Accepted, Take, NothingSent
<1>20. ASSUME NEW e \in events, onRenderingCompleted(e)
       PROVE  KnownSagas'
  BY <1>3, <1>20, <1>4, <1>6 DEF onRenderingCompleted, Accepted, Take, NothingSent
<1>21. CASE Tick \/ UNCHANGED vars
  BY <1>21 DEF Tick, vars, KnownSagas
<1> QED
  BY <1>9, <1>10, <1>11, <1>12, <1>13, <1>14, <1>15, <1>16, <1>17, <1>18, <1>19,
     <1>20, <1>21, NextCases

\* The saga begins well typed, with no message under way.
LEMMA TypeInit == Init => TypeOK /\ KnownSagas
BY BoundsAssumption
DEF Init, TypeOK, KnownSagas, Statuses, Resting, Sagas, StepStatuses, NoStamp

\* Every variable keeps its type, whatever the Creator asks and however late
\* messages arrive.
THEOREM TypeCorrect == Spec => []TypeOK
<1>1. Init => TypeOK /\ KnownSagas
  BY TypeInit
<1>2. TypeOK /\ KnownSagas /\ [Next]_vars => TypeOK' /\ KnownSagas'
  BY TypeStep, KnownStep
<1> QED  BY <1>1, <1>2, PTL DEF Spec

-----------------------------------------------------------------------------
(* The project row and the step rows agree.  The inductive invariant adds   *)
(* that sagas not begun have no steps, and that under review everything    *)
(* after validation is untouched.                                          *)

FutureSagas ==
    \A g \in Sagas, s \in Steps : g > saga => step[g][s] = "none"

UnderReview ==
    status = "awaiting_review" =>
        /\ step[saga]["validate_script"] = "completed"
        /\ \A s \in RenderSteps \ {"validate_script"} : step[saga][s] = "none"

RowInv ==
    /\ StatusMatchesStep /\ EarlierStepsDone /\ FailedStatusIsOfStep
    /\ PublishedWasAssembled /\ FutureSagas /\ UnderReview

\* Step s of saga g, the last one, may be opened or closed in rows: nothing
\* else is in progress there and nothing after s is begun.
Assembled(rows, g) ==
    \E h \in 1 .. g :
        /\ \A r \in RenderSteps : rows[h][r] = "completed"
        /\ \A k \in (h + 1) .. g : rows[k]["validate_script"] = "none"

Quiet(rows, g, s) ==
    /\ \A h \in Sagas, r \in Steps : rows[h][r] = "in_progress" => h = g /\ r = s
    /\ \A h \in Sagas, r \in Steps : h > g => rows[h][r] = "none"
    /\ \A h \in Sagas, r \in Steps :
          rows[h][r] # "none" => \A q \in Earlier[r] : rows[h][q] = "completed"
    /\ \A q \in Earlier[s] : rows[g][q] = "completed"
    /\ \A r \in Steps : s \in Earlier[r] => rows[g][r] = "none"
    /\ s = "publish_video" => Assembled(rows, g)

\* A status says which step the project is at, and no two of them the same.
LEMMA StatusApart ==
    ASSUME NEW s \in Steps, NEW r \in Steps
    PROVE  /\ stepInProgressStatus[s] # FailedStatusForStep[r]
           /\ stepInProgressStatus[s] = stepInProgressStatus[r] <=> s = r
           /\ FailedStatusForStep[s] = FailedStatusForStep[r] <=> s = r
           /\ stepInProgressStatus[s] \notin {"draft", "awaiting_review", "ready_to_publish", "published"}
           /\ FailedStatusForStep[s] \notin {"draft", "awaiting_review", "ready_to_publish", "published"}
BY StatusTables DEF Resting

\* The statuses in which a video is offered or published are no render step's.
LEMMA PublishStatuses ==
    ASSUME NEW s \in Steps,
           \/ stepInProgressStatus[s] \in {"publishing", "failed_at_publish_video"}
           \/ FailedStatusForStep[s] \in {"publishing", "failed_at_publish_video"}
    PROVE  s = "publish_video"
BY DEF Steps, RenderSteps, stepInProgressStatus, FailedStatusForStep

\* Opening a quiet step, or failing it, leaves the invariant true.
LEMMA MoveKeeps ==
    ASSUME NEW rows \in [Sagas -> [Steps -> StepStatuses]],
           NEW g \in Sagas, NEW s \in Steps, NEW st \in {"in_progress", "failed"},
           Quiet(rows, g, s),
           saga' = g, step' = Mark(rows, g, s, st),
           status' = IF st = "in_progress" THEN stepInProgressStatus[s]
                                           ELSE FailedStatusForStep[s]
    PROVE  RowInv'
<1>1. \A h \in Sagas, r \in Steps :
         step'[h][r] = IF h = g /\ r = s THEN st ELSE rows[h][r]
  BY MarkType DEF StepStatuses
<1>2. \A r \in Steps : /\ status' = stepInProgressStatus[r] <=> r = s /\ st = "in_progress"
                       /\ status' = FailedStatusForStep[r] <=> r = s /\ st = "failed"
  BY StatusApart
<1>3. status' \notin {"draft", "awaiting_review", "ready_to_publish", "published"}
  BY StatusApart
<1>4. StatusMatchesStep'
  <2> SUFFICES ASSUME NEW h \in Sagas, NEW r \in Steps
               PROVE  step'[h][r] = "in_progress"
                        <=> h = saga' /\ status' = stepInProgressStatus[r]
    BY DEF StatusMatchesStep
  <2> QED  BY <1>1, <1>2 DEF Quiet
<1>5. EarlierStepsDone'
  BY <1>1, EarlierTable DEF EarlierStepsDone, Quiet, Steps
<1>6. FailedStatusIsOfStep'
  BY <1>1, <1>2 DEF FailedStatusIsOfStep
<1>7. FutureSagas'
  <2> SUFFICES ASSUME NEW h \in Sagas, NEW r \in Steps, h > g
               PROVE  step'[h][r] = "none"
    BY DEF FutureSagas
  <2> QED  BY <1>1 DEF Quiet, Sagas
<1>8. UnderReview'
  BY <1>3 DEF UnderReview
<1>9. PublishedWasAssembled'
  <2> SUFFICES ASSUME status' \in {"publishing", "failed_at_publish_video"}
               PROVE  \E h \in 1 .. g :
                         /\ \A r \in RenderSteps : step'[h][r] = "completed"
                         /\ \A k \in (h + 1) .. g : step'[k]["validate_script"] = "none"
    BY <1>3 DEF PublishedWasAssembled
  <2>1. s = "publish_video"
    BY PublishStatuses
  <2>2. \A h \in 1 .. g, r \in RenderSteps : h \in Sagas /\ step'[h][r] = rows[h][r]
    BY <1>1, <2>1, BoundsAssumption DEF Sagas, Steps, RenderSteps
  <2>3. Assembled(rows, g)
    BY <2>1 DEF Quiet
  <2>4. PICK h \in 1 .. g :
           /\ \A r \in RenderSteps : rows[h][r] = "completed"
           /\ \A k \in (h + 1) .. g : rows[k]["validate_script"] = "none"
    BY <2>3 DEF Assembled
  <2>5. \A k \in (h + 1) .. g : k \in 1 .. g
    BY DEF Sagas
  <2> QED  BY <2>2, <2>4, <2>5 DEF RenderSteps
<1> QED  BY <1>4, <1>5, <1>6, <1>7, <1>8, <1>9 DEF RowInv

\* The step that runs is quiet, and it is the one the project row speaks of.
LEMMA RunningQuiet ==
    ASSUME TypeOK, RowInv, NEW g \in Sagas, NEW s \in Steps,
           step[g][s] = "in_progress"
    PROVE  /\ g = saga /\ status = stepInProgressStatus[s]
           /\ Quiet(step, g, s)
<1>1. g = saga /\ status = stepInProgressStatus[s]
  BY DEF RowInv, StatusMatchesStep
<1>2. \A h \in Sagas, r \in Steps : step[h][r] = "in_progress" => h = g /\ r = s
  BY <1>1, StatusApart DEF RowInv, StatusMatchesStep
<1>3. \A h \in Sagas, r \in Steps : h > g => step[h][r] = "none"
  BY <1>1 DEF RowInv, FutureSagas
<1>4. \A h \in Sagas, r \in Steps :
         step[h][r] # "none" => \A q \in Earlier[r] : step[h][q] = "completed"
  BY DEF RowInv, EarlierStepsDone
<1>5. \A r \in Steps : s \in Earlier[r] => step[g][r] = "none"
  BY <1>4
<1>6. s = "publish_video" => Assembled(step, g)
  BY <1>1 DEF RowInv, PublishedWasAssembled, Assembled, stepInProgressStatus
<1> QED  BY <1>1, <1>2, <1>3, <1>4, <1>5, <1>6 DEF Quiet

\* So is the step a project says it failed at.
LEMMA FailedQuiet ==
    ASSUME TypeOK, RowInv, saga \in Sagas, NEW s \in Steps,
           status = FailedStatusForStep[s]
    PROVE  Quiet(step, saga, s)
<1>1. step[saga][s] = "failed"
  BY DEF RowInv, FailedStatusIsOfStep
<1>2. \A h \in Sagas, r \in Steps : step[h][r] # "in_progress"
  BY StatusApart DEF RowInv, StatusMatchesStep
<1>3. \A h \in Sagas, r \in Steps : h > saga => step[h][r] = "none"
  BY DEF RowInv, FutureSagas
<1>4. \A h \in Sagas, r \in Steps :
         step[h][r] # "none" => \A q \in Earlier[r] : step[h][q] = "completed"
  BY DEF RowInv, EarlierStepsDone
<1>5. \A r \in Steps : s \in Earlier[r] => step[saga][r] = "none"
  BY <1>1, <1>4
<1>6. s = "publish_video" => Assembled(step, saga)
  BY DEF RowInv, PublishedWasAssembled, Assembled, FailedStatusForStep
<1> QED  BY <1>1, <1>2, <1>3, <1>4, <1>5, <1>6 DEF Quiet

\* Once a quiet step is completed, the next one is quiet.
LEMMA NextQuiet ==
    ASSUME NEW rows \in [Sagas -> [Steps -> StepStatuses]],
           NEW g \in Sagas, NEW s \in RenderSteps, NEW n \in RenderSteps,
           Earlier[n] = Earlier[s] \cup {s},
           Quiet(rows, g, s)
    PROVE  /\ Mark(rows, g, s, "completed") \in [Sagas -> [Steps -> StepStatuses]]
           /\ Quiet(Mark(rows, g, s, "completed"), g, n)
<1> DEFINE new == Mark(rows, g, s, "completed")
<1>1. s \in Steps /\ n \in Steps /\ s # n /\ n # "publish_video"
  BY EarlierTable DEF Steps, RenderSteps
<1>2. /\ new \in [Sagas -> [Steps -> StepStatuses]]
      /\ \A h \in Sagas, r \in Steps :
            new[h][r] = IF h = g /\ r = s THEN "completed" ELSE rows[h][r]
  BY <1>1, MarkType DEF StepStatuses
<1>3. \A h \in Sagas, r \in Steps : new[h][r] # "in_progress"
  BY <1>2 DEF Quiet
<1>4. \A h \in Sagas, r \in Steps : h > g => new[h][r] = "none"
  BY <1>2 DEF Quiet, Sagas
<1>5. \A h \in Sagas, r \in Steps :
         new[h][r] # "none" => \A q \in Earlier[r] : new[h][q] = "completed"
  BY <1>1, <1>2, EarlierTable DEF Quiet, Steps
<1>6. \A q \in Earlier[n] : new[g][q] = "completed"
  BY <1>1, <1>2, EarlierTable DEF Quiet, Steps
<1>7. rows[g][n] = "none" /\ \A r \in Steps : s \in Earlier[r] => rows[g][r] = "none"
  BY <1>1 DEF Quiet
<1>8. \A r \in Steps : n \in Earlier[r] => s \in Earlier[r] /\ r # s
  BY EarlierTable DEF Steps, RenderSteps
<1>9. \A r \in Steps : n \in Earlier[r] => new[g][r] = "none"
  BY <1>2, <1>7, <1>8
<1> QED  BY <1>1, <1>2, <1>3, <1>4, <1>5, <1>6, <1>9 DEF Quiet

\* The two outcomes a started step has, taken together.
LEMMA OpenOrFailKeeps ==
    ASSUME NEW rows \in [Sagas -> [Steps -> StepStatuses]],
           NEW g \in Sagas, NEW s \in Steps, saga' = g, Quiet(rows, g, s),
           Open(rows, g, s) \/ Fail(rows, g, s)
    PROVE  RowInv'
<1>1. CASE Open(rows, g, s)
  BY <1>1, MoveKeeps DEF Open
<1>2. CASE Fail(rows, g, s)
  BY <1>2, MoveKeeps DEF Fail
<1> QED  BY <1>1, <1>2

\* The render step, once it is quiet, may be opened or refused.
LEMMA startRenderScenesKeeps ==
    ASSUME NEW rows \in [Sagas -> [Steps -> StepStatuses]],
           NEW g \in Sagas, saga' = g, Quiet(rows, g, "render_scenes"),
           startRenderScenes(rows, g)
    PROVE  RowInv'
BY OpenOrFailKeeps DEF startRenderScenes, Steps, RenderSteps

\* With validation done, either branch keeps the rows in agreement.
LEMMA AfterValidationKeeps ==
    ASSUME NEW rows \in [Sagas -> [Steps -> StepStatuses]],
           NEW g \in Sagas, saga' = g, Quiet(rows, g, "synthesize_speech"),
           AfterValidation(rows, g)
    PROVE  RowInv'
<1>1. CASE startSynthesizeSpeech(rows, g)
  BY <1>1, OpenOrFailKeeps DEF startSynthesizeSpeech, Steps, RenderSteps
<1>2. CASE skipSynthesizeSpeech(rows, g)
  <2> DEFINE new == Mark(rows, g, "synthesize_speech", "completed")
  <2>1. /\ new \in [Sagas -> [Steps -> StepStatuses]]
        /\ Quiet(new, g, "render_scenes")
    BY NextQuiet, EarlierTable DEF RenderSteps
  <2> QED  BY <1>2, <2>1, startRenderScenesKeeps DEF skipSynthesizeSpeech
<1> QED  BY <1>1, <1>2 DEF AfterValidation

\* Where only the status moves, to one that is no step's.
LEMMA RestKeeps ==
    ASSUME TypeOK, RowInv, saga \in Sagas, NEW s \in Steps,
           step[saga][s] = "in_progress",
           step' = Mark(step, saga, s, "completed"), saga' = saga,
           \/ s = "validate_script" /\ status' = "awaiting_review"
           \/ s = "assemble_video" /\ status' = "ready_to_publish"
           \/ s = "publish_video" /\ status' = "published"
    PROVE  RowInv'
<1>1. step \in [Sagas -> [Steps -> StepStatuses]]
  BY DEF TypeOK
<1>2. \A h \in Sagas, r \in Steps :
         step'[h][r] = IF h = saga /\ r = s THEN "completed" ELSE step[h][r]
  BY <1>1 DEF Mark
<1>3. \A r \in Steps : /\ status' # stepInProgressStatus[r]
                       /\ status' # FailedStatusForStep[r]
  BY StatusApart
<1>4. Quiet(step, saga, s)
  BY RunningQuiet
<1>5. StatusMatchesStep'
  BY <1>2, <1>3, <1>4 DEF StatusMatchesStep, Quiet
<1>6. EarlierStepsDone'
  BY <1>2, <1>4, EarlierTable DEF EarlierStepsDone, Quiet, Steps
<1>7. FailedStatusIsOfStep' /\ FutureSagas'
  BY <1>2, <1>3, <1>4 DEF FailedStatusIsOfStep, FutureSagas, Quiet
<1>8. UnderReview'
  <2> SUFFICES ASSUME s = "validate_script", saga' = saga
               PROVE  /\ step'[saga]["validate_script"] = "completed"
                      /\ \A r \in RenderSteps \ {"validate_script"} :
                            step'[saga][r] = "none"
    BY DEF UnderReview
  <2>1. \A r \in RenderSteps \ {"validate_script"} : r \in Steps /\ s \in Earlier[r]
    BY EarlierTable DEF Steps, RenderSteps
  <2>2. \A r \in Steps : s \in Earlier[r] => step[saga][r] = "none"
    BY <1>4 DEF Quiet
  <2> QED  BY <1>2, <2>1, <2>2
<1>9. PublishedWasAssembled'
  <2>1. CASE s = "validate_script"
    BY <2>1 DEF PublishedWasAssembled
  <2>2. CASE s = "assemble_video"
    <3>1. \A r \in RenderSteps : step'[saga][r] = "completed"
      BY <1>2, <1>4, <2>2, EarlierTable DEF Quiet, Steps
    <3> QED  BY <3>1 DEF PublishedWasAssembled, Sagas
  <2>3. CASE s = "publish_video"
    <3>1. Assembled(step, saga)
      BY <1>4, <2>3 DEF Quiet
    <3>2. \A h \in 1 .. saga, r \in RenderSteps : step'[h][r] = step[h][r]
      BY <1>2, <2>3, BoundsAssumption DEF Sagas, Steps, RenderSteps
    <3> QED  BY <3>1, <3>2, BoundsAssumption
             DEF PublishedWasAssembled, Assembled, Sagas, RenderSteps
  <2> QED  BY <2>1, <2>2, <2>3
<1> QED  BY <1>5, <1>6, <1>7, <1>8, <1>9 DEF RowInv

\* Every step of the saga keeps the project row and the step rows in agreement.
LEMMA RowStep ==
    ASSUME TypeOK, KnownSagas, RowInv, [Next]_vars,
           ~StartWhileRunning, ~StaleDeadLetters
    PROVE  RowInv'
<1>1. step \in [Sagas -> [Steps -> StepStatuses]]
  BY DEF TypeOK
<1>2. /\ "validate_script" \in Steps /\ "synthesize_speech" \in Steps
      /\ "render_scenes" \in Steps /\ "assemble_video" \in Steps
      /\ "publish_video" \in Steps
  BY DEF Steps, RenderSteps
<1>3. \A m \in cmds \cup events : m.saga \in Sagas /\ m.step \in Steps
  BY DEF TypeOK, Commands, Events
<1>4. status # "draft" => saga \in Sagas
  BY BoundsAssumption DEF KnownSagas, TypeOK, Sagas
<1>5. ASSUME Request PROVE saga + 1 \in Sagas
  BY <1>5, BoundsAssumption DEF Request, TypeOK, Sagas
<1>6. ASSUME UNCHANGED <<status, saga, step>> PROVE RowInv'
  BY <1>6 DEF RowInv, StatusMatchesStep, EarlierStepsDone, FailedStatusIsOfStep,
          PublishedWasAssembled, FutureSagas, UnderReview
<1>7. ASSUME status \notin InFlight, NEW g \in Sagas, NEW s \in Steps,
             g = saga + 1, Earlier[s] = {},
             s = "publish_video" => status = "ready_to_publish"
      PROVE  Quiet(step, g, s)
  <2>1. \A h \in Sagas, r \in Steps : step[h][r] # "in_progress"
    BY <1>7, StatusTables DEF RowInv, StatusMatchesStep
  <2>2. \A h \in Sagas, r \in Steps : h >= g => step[h][r] = "none"
    BY <1>7 DEF RowInv, FutureSagas, Sagas, TypeOK
  <2>3. s = "publish_video" => Assembled(step, g)
    <3> SUFFICES ASSUME status = "ready_to_publish" PROVE Assembled(step, g)
      BY <1>7
    <3>1. PICK h \in 1 .. saga :
             /\ \A r \in RenderSteps : step[h][r] = "completed"
             /\ \A k \in (h + 1) .. saga : step[k]["validate_script"] = "none"
      BY DEF RowInv, PublishedWasAssembled
    <3>2. step[g]["validate_script"] = "none"
      BY <1>2, <1>7, <2>2 DEF Sagas
    <3>3. h \in 1 .. g /\ \A k \in (h + 1) .. g : k = g \/ k \in (h + 1) .. saga
      BY <1>7 DEF TypeOK
    <3> QED  BY <3>1, <3>2, <3>3 DEF Assembled
  <2> QED  BY <1>7, <2>1, <2>2, <2>3, EarlierTable
           DEF Quiet, RowInv, EarlierStepsDone, Sagas
<1>8. CASE StartRender
  <2>1. status \notin InFlight /\ saga + 1 \in Sagas /\ saga' = saga + 1
    BY <1>8, <1>5 DEF StartRender
  <2>2. Quiet(step, saga + 1, "validate_script")
    BY <1>2, <1>7, <2>1, EarlierTable
  <2> QED  BY <1>1, <1>8, <1>2, <2>1, <2>2, OpenOrFailKeeps DEF StartRender
<1>9. CASE StartPublish
  <2>1. /\ status = "ready_to_publish" /\ saga + 1 \in Sagas /\ saga' = saga + 1
        /\ status \notin InFlight
    BY <1>9, <1>5, StatusApart DEF StartPublish, InFlight
  <2>2. Quiet(step, saga + 1, "publish_video")
    BY <1>2, <1>7, <2>1, EarlierTable
  <2> QED  BY <1>1, <1>9, <1>2, <2>1, <2>2, OpenOrFailKeeps DEF StartPublish
<1>10. ASSUME status = "awaiting_review"
      PROVE  /\ saga \in Sagas
             /\ Quiet(step, saga, "validate_script")
             /\ Quiet(step, saga, "synthesize_speech")
  <2>1. saga \in Sagas
    BY <1>4, <1>10
  <2>2. \A h \in Sagas, r \in Steps : step[h][r] # "in_progress"
    BY <1>10, StatusApart DEF RowInv, StatusMatchesStep
  <2>3. /\ step[saga]["validate_script"] = "completed"
        /\ \A r \in RenderSteps \ {"validate_script"} : step[saga][r] = "none"
    BY <1>10 DEF RowInv, UnderReview
  <2>4. /\ \A h \in Sagas, r \in Steps : h > saga => step[h][r] = "none"
        /\ \A h \in Sagas, r \in Steps :
              step[h][r] # "none" => \A q \in Earlier[r] : step[h][q] = "completed"
    BY DEF RowInv, FutureSagas, EarlierStepsDone
  <2>5. \A r \in Steps : "validate_script" \in Earlier[r] \/ "synthesize_speech" \in Earlier[r]
                           => step[saga][r] = "none"
    BY <2>3, EarlierTable DEF Steps, RenderSteps
  <2> QED  BY <2>1, <2>2, <2>3, <2>4, <2>5, EarlierTable DEF Quiet
<1>11. CASE Approve
  BY <1>1, <1>11, <1>10, AfterValidationKeeps DEF Approve
<1>12. CASE EditNarration
  <2>1. status' = stepInProgressStatus["validate_script"]
    BY <1>12 DEF EditNarration, stepInProgressStatus, Steps, RenderSteps
  <2> QED  BY <1>1, <1>12, <1>2, <1>10, <2>1, MoveKeeps DEF EditNarration
<1>13. CASE Reject
  <2>1. status' = "draft" /\ status = "awaiting_review" /\ UNCHANGED <<saga, step>>
    BY <1>13 DEF Reject
  <2> QED  BY <2>1, StatusApart
           DEF RowInv, StatusMatchesStep, EarlierStepsDone, FailedStatusIsOfStep,
               PublishedWasAssembled, FutureSagas, UnderReview
<1>14. ASSUME NEW s \in Steps, RetryStep(s) PROVE RowInv'
  <2>1. saga \in Sagas /\ saga' = saga /\ Quiet(step, saga, s)
    BY <1>14, <1>4, StatusApart, FailedQuiet DEF RetryStep
  <2> QED  BY <1>1, <1>14, <2>1, OpenOrFailKeeps DEF RetryStep
<1>15. ASSUME NEW s \in Steps, CancelStep(s) PROVE RowInv'
  <2>1. saga \in Sagas /\ saga' = saga /\ step[saga][s] = "in_progress"
    BY <1>15, <1>4, StatusApart DEF CancelStep, RowInv, StatusMatchesStep
  <2> QED  BY <1>1, <1>15, <2>1, RunningQuiet, OpenOrFailKeeps DEF CancelStep
<1>16. ASSUME NEW c \in cmds, Answer(c) \/ DropCancelled(c) PROVE RowInv'
  BY <1>16, <1>6 DEF Answer, DropCancelled
<1>17. ASSUME NEW c \in cmds, handleDLQDelivery(c) PROVE RowInv'
  <2>1. Current(c) /\ Fail(step, c.saga, c.step) /\ saga' = saga
    BY <1>17 DEF handleDLQDelivery
  <2> QED  BY <1>1, <1>3, <2>1, RunningQuiet, OpenOrFailKeeps DEF Current
<1>18. ASSUME NEW e \in events, SkipEvent(e) \/ retryTransientSynthesisFailure(e)
       PROVE  RowInv'
  BY <1>18, <1>6 DEF SkipEvent, retryTransientSynthesisFailure
<1>19. ASSUME NEW e \in events, handleEventsDLQDelivery(e) \/ handleFailure(e)
       PROVE  RowInv'
  <2>1. Current(e) /\ Fail(step, e.saga, e.step) /\ saga' = saga
    BY <1>19 DEF handleEventsDLQDelivery, handleFailure
  <2> QED  BY <1>1, <1>3, <2>1, RunningQuiet, OpenOrFailKeeps DEF Current
<1>20. ASSUME NEW e \in events, Current(e), e.step \in RenderSteps, NEW n \in RenderSteps,
             Earlier[n] = Earlier[e.step] \cup {e.step}
      PROVE  /\ e.saga = saga /\ saga \in Sagas
             /\ Completed(e) \in [Sagas -> [Steps -> StepStatuses]]
             /\ Quiet(Completed(e), e.saga, n)
  BY <1>1, <1>20, <1>3, RunningQuiet, NextQuiet DEF Current, Completed
<1>21. ASSUME NEW e \in events, Current(e)
      PROVE  e.saga = saga /\ saga \in Sagas /\ Quiet(step, e.saga, e.step)
  BY <1>3, <1>21, RunningQuiet DEF Current
<1>22. ASSUME NEW e \in events, onScriptValidated(e) PROVE RowInv'
  <2>1. Current(e) /\ e.step = "validate_script" /\ saga' = saga
    BY <1>22 DEF onScriptValidated, Accepted
  <2>2. CASE Fail(step, e.saga, "validate_script")
    BY <1>1, <1>2, <1>21, <2>1, <2>2, OpenOrFailKeeps
  <2>3. CASE step' = Completed(e) /\ status' = "awaiting_review"
    BY <1>2, <1>21, <2>1, <2>3, RestKeeps DEF Completed, Current
  <2>4. CASE AfterValidation(Completed(e), e.saga)
    <3>1. /\ e.saga = saga /\ saga \in Sagas
          /\ Completed(e) \in [Sagas -> [Steps -> StepStatuses]]
          /\ Quiet(Completed(e), e.saga, "synthesize_speech")
      BY <1>20, <2>1, EarlierTable DEF RenderSteps
    <3> QED  BY <2>1, <2>4, <3>1, AfterValidationKeeps
  <2> QED  BY <1>22, <2>2, <2>3, <2>4 DEF onScriptValidated
<1>23. ASSUME NEW e \in events, onSpeechSynthesized(e) PROVE RowInv'
  <2>1. Current(e) /\ e.step = "synthesize_speech" /\ saga' = saga
    BY <1>23 DEF onSpeechSynthesized, Accepted
  <2>2. /\ e.saga = saga /\ saga \in Sagas
        /\ Completed(e) \in [Sagas -> [Steps -> StepStatuses]]
        /\ Quiet(Completed(e), e.saga, "render_scenes")
    BY <1>20, <2>1, EarlierTable DEF RenderSteps
  <2>3. \/ Fail(Completed(e), e.saga, "render_scenes")
        \/ startRenderScenes(Completed(e), e.saga)
    BY <1>23 DEF onSpeechSynthesized
  <2> QED  BY <1>2, <2>1, <2>2, <2>3, OpenOrFailKeeps, startRenderScenesKeeps
<1>24. ASSUME NEW e \in events, onRenderingCompleted(e) PROVE RowInv'
  <2>1. Current(e) /\ e.step = "render_scenes" /\ saga' = saga
    BY <1>24 DEF onRenderingCompleted, Accepted
  <2>2. CASE Fail(step, e.saga, "render_scenes")
    BY <1>1, <1>2, <1>21, <2>1, <2>2, OpenOrFailKeeps
  <2>3. CASE Open(Completed(e), e.saga, "assemble_video")
    <3>1. /\ e.saga = saga /\ saga \in Sagas
          /\ Completed(e) \in [Sagas -> [Steps -> StepStatuses]]
          /\ Quiet(Completed(e), e.saga, "assemble_video")
      BY <1>20, <2>1, EarlierTable DEF RenderSteps
    <3> QED  BY <1>2, <2>1, <2>3, <3>1, OpenOrFailKeeps
  <2> QED  BY <1>24, <2>2, <2>3 DEF onRenderingCompleted
<1>25. ASSUME NEW e \in events, onVideoAssembled(e) \/ onVideoPublished(e)
       PROVE  RowInv'
  <2>1. /\ Current(e) /\ saga' = saga /\ step' = Completed(e)
        /\ \/ e.step = "assemble_video" /\ status' = "ready_to_publish"
           \/ e.step = "publish_video" /\ status' = "published"
    BY <1>25 DEF onVideoAssembled, onVideoPublished, Accepted
  <2> QED  BY <1>2, <1>21, <2>1, RestKeeps DEF Completed, Current
<1>26. CASE Tick \/ UNCHANGED vars
  BY <1>26, <1>6 DEF Tick, vars
<1> QED
  BY <1>8, <1>9, <1>11, <1>12, <1>13, <1>14, <1>15, <1>16, <1>17, <1>18, <1>19, <1>22,
     <1>23, <1>24, <1>25, <1>26, NextCases

\* They agree in a new project.
LEMMA RowInit == Init => RowInv
<1> SUFFICES ASSUME Init PROVE RowInv
  OBVIOUS
<1>1. status = "draft" /\ \A g \in Sagas, s \in Steps : step[g][s] = "none"
  BY DEF Init
<1> QED
  BY <1>1, StatusApart
  DEF RowInv, StatusMatchesStep, EarlierStepsDone, FailedStatusIsOfStep,
      PublishedWasAssembled, FutureSagas, UnderReview

\* The invariant that relates the project row to the step rows, from which the
\* next four theorems follow.
LEMMA RowsCorrect ==
    ASSUME ~StartWhileRunning, ~StaleDeadLetters
    PROVE  Spec => []RowInv
<1>1. Init => TypeOK /\ KnownSagas /\ RowInv
  BY TypeInit, RowInit
<1>2. TypeOK /\ KnownSagas /\ RowInv /\ [Next]_vars
         => TypeOK' /\ KnownSagas' /\ RowInv'
  BY TypeStep, KnownStep, RowStep
<1> QED  BY <1>1, <1>2, PTL DEF Spec

\* The project row and the step rows agree on what runs: with prompt dead
\* letters and no second start, in flight means exactly one step in progress,
\* the status's, of the current saga.
THEOREM StatusMatches ==
    ASSUME ~StartWhileRunning, ~StaleDeadLetters
    PROVE  Spec => []StatusMatchesStep
<1>1. RowInv => StatusMatchesStep
  BY DEF RowInv
<1> QED  BY <1>1, RowsCorrect, PTL

\* No step is begun, or left done after, before the steps it builds on are.
THEOREM StepsInOrder ==
    ASSUME ~StartWhileRunning, ~StaleDeadLetters
    PROVE  Spec => []EarlierStepsDone
<1>1. RowInv => EarlierStepsDone
  BY DEF RowInv
<1> QED  BY <1>1, RowsCorrect, PTL

\* A retry, which goes by the status alone, always reopens a failed step.
THEOREM RetryReopensFailedStep ==
    ASSUME ~StartWhileRunning, ~StaleDeadLetters
    PROVE  Spec => []FailedStatusIsOfStep
<1>1. RowInv => FailedStatusIsOfStep
  BY DEF RowInv
<1> QED  BY <1>1, RowsCorrect, PTL

\* Nothing is offered for publishing, or published, that the latest render
\* saga did not carry through all its steps.
THEOREM OnlyAssembledIsPublished ==
    ASSUME ~StartWhileRunning, ~StaleDeadLetters
    PROVE  Spec => []PublishedWasAssembled
<1>1. RowInv => PublishedWasAssembled
  BY DEF RowInv
<1> QED  BY <1>1, RowsCorrect, PTL

\* So the project row and the step rows agree in every state.
THEOREM RowsStandTogether ==
    ASSUME ~StartWhileRunning, ~StaleDeadLetters
    PROVE  Spec => []RowsAgree
<1>1. RowInv => RowsAgree
  BY DEF RowInv, RowsAgree
<1> QED  BY <1>1, RowsCorrect, PTL

-----------------------------------------------------------------------------
(* Work in flight.  The clock is past the last cancel whenever the project  *)
(* is not failed, so what a handler sends is never taken for cancelled.     *)

MessageInv ==
    /\ status \notin Failed => now > cancel.second
    /\ cancel.sent <= sent
    /\ \A c \in cmds : c.id <= sent
    /\ SentAfterCancelRuns
    /\ NeverStranded

\* A command sent now is newer than every cancel, so it keeps the message
\* invariant and feeds the step it was sent for.
LEMMA SendKeeps ==
    ASSUME TypeOK, MessageInv, now > cancel.second, UNCHANGED <<now, cancel>>,
           NEW g, NEW s, NEW text, NEW stamp \in {now, NoStamp},
           Send(g, s, text, stamp)
    PROVE  /\ cancel'.sent <= sent'
           /\ \A c \in cmds' : c.id <= sent'
           /\ SentAfterCancelRuns'
           /\ \E c \in cmds' : c.saga = g /\ c.step = s /\ ~IsCancelled(c)'
<1>1. PICK c0 : c0 = [id |-> sent + 1, saga |-> g, step |-> s,
                      script |-> text, stamp |-> stamp]
  OBVIOUS
<1>2. cmds' = cmds \cup {c0} /\ sent' = sent + 1 /\ sent \in Nat
  BY <1>1 DEF Send, TypeOK
<1>3. ~IsCancelled(c0)'
  BY <1>1 DEF IsCancelled, TypeOK, NoStamp
<1>4. \A c \in cmds : c.id \in Nat /\ (IsCancelled(c)' <=> IsCancelled(c))
  BY DEF IsCancelled, TypeOK, Commands
<1>5. cancel'.sent <= sent'
  BY <1>2 DEF MessageInv, TypeOK
<1>6. \A c \in cmds' : c.id <= sent'
  BY <1>1, <1>2, <1>4 DEF MessageInv
<1>7. SentAfterCancelRuns'
  <2> SUFFICES ASSUME NEW c \in cmds', c.id > cancel.sent
               PROVE  ~IsCancelled(c)'
    BY DEF SentAfterCancelRuns
  <2>1. CASE c = c0
    BY <1>3, <2>1
  <2>2. CASE c \in cmds
    BY <1>4, <2>2 DEF MessageInv, SentAfterCancelRuns
  <2> QED  BY <1>2, <2>1, <2>2
<1>8. c0 \in cmds' /\ c0.saga = g /\ c0.step = s
  BY <1>1, <1>2
<1> QED  BY <1>3, <1>5, <1>6, <1>7, <1>8

\* An opened step has a command that will run.
LEMMA OpenMessages ==
    ASSUME TypeOK, MessageInv, now > cancel.second, UNCHANGED <<now, cancel>>,
           NEW rows, NEW g, NEW s \in Steps, saga' = g, Open(rows, g, s)
    PROVE  MessageInv'
<1>1. Send(g, s, script', now) /\ status' = stepInProgressStatus[s]
  BY DEF Open
<1>2. /\ cancel'.sent <= sent' /\ \A c \in cmds' : c.id <= sent'
      /\ SentAfterCancelRuns'
      /\ \E c \in cmds' : c.saga = g /\ c.step = s /\ ~IsCancelled(c)'
  BY <1>1, SendKeeps
<1>3. \A r \in Steps : status' = stepInProgressStatus[r] => r = s
  BY <1>1, StatusApart
<1>4. NeverStranded'
  BY <1>2, <1>3, Zenon DEF NeverStranded
<1>5. (status \notin Failed => now > cancel.second)'
  OBVIOUS
<1> QED  BY <1>2, <1>4, <1>5 DEF MessageInv

\* With nothing sent, a project that is no longer in flight needs no message.
LEMMA QuietMessages ==
    ASSUME TypeOK, MessageInv, UNCHANGED <<now, cancel, sent>>, cmds' \subseteq cmds,
           \A s \in Steps : status' # stepInProgressStatus[s],
           status' \in Failed \/ now > cancel.second
    PROVE  MessageInv'
<1>1. \A c \in cmds' : c \in cmds /\ (IsCancelled(c)' <=> IsCancelled(c))
  BY DEF IsCancelled
<1>2. SentAfterCancelRuns'
  BY <1>1 DEF MessageInv, SentAfterCancelRuns
<1> QED  BY <1>1, <1>2 DEF MessageInv, NeverStranded

\* The render step is opened with a command, or the project is at rest.
LEMMA startRenderScenesMessages ==
    ASSUME TypeOK, MessageInv, now > cancel.second, UNCHANGED <<now, cancel>>,
           NEW rows, NEW g, saga' = g, startRenderScenes(rows, g)
    PROVE  MessageInv'
<1>1. "render_scenes" \in Steps
  BY DEF Steps, RenderSteps
<1>2. CASE Open(rows, g, "render_scenes")
  BY <1>1, <1>2, OpenMessages
<1>3. CASE Fail(rows, g, "render_scenes") /\ NothingSent
  <2>1. /\ status' = FailedStatusForStep["render_scenes"]
        /\ UNCHANGED sent /\ cmds' \subseteq cmds
    BY <1>3 DEF Fail, NothingSent
  <2> QED  BY <1>1, <2>1, StatusApart, QuietMessages
<1> QED  BY <1>2, <1>3 DEF startRenderScenes

\* So is whatever follows validation or an approval.
LEMMA AfterValidationMessages ==
    ASSUME TypeOK, MessageInv, now > cancel.second, UNCHANGED <<now, cancel>>,
           NEW rows, NEW g, saga' = g, AfterValidation(rows, g)
    PROVE  MessageInv'
BY OpenMessages, startRenderScenesMessages
   DEF AfterValidation, startSynthesizeSpeech, skipSynthesizeSpeech, Steps, RenderSteps

\* Every step of the saga keeps the message invariant.
LEMMA MessageStep ==
    ASSUME TypeOK, KnownSagas, RowInv, MessageInv, [Next]_vars,
           HumanPace, ~StaleDeadLetters
    PROVE  MessageInv'
<1>1. /\ "validate_script" \in Steps /\ "synthesize_speech" \in Steps
      /\ "render_scenes" \in Steps /\ "assemble_video" \in Steps
      /\ "publish_video" \in Steps
  BY DEF Steps, RenderSteps
<1>2. \A m \in cmds \cup events : m.saga \in Sagas /\ m.step \in Steps
  BY DEF TypeOK, Commands, Events
<1>3. \A s \in Steps : FailedStatusForStep[s] \in Failed
                       /\ stepInProgressStatus[s] \notin Failed
  BY StatusTables DEF Failed
<1>4. /\ "draft" \notin Failed /\ "awaiting_review" \notin Failed
      /\ "ready_to_publish" \notin Failed /\ "published" \notin Failed
  BY StatusApart DEF Failed
<1>5. ASSUME NEW m \in cmds \cup events, Current(m)
      PROVE  /\ m.saga = saga /\ status = stepInProgressStatus[m.step]
             /\ now > cancel.second
  BY <1>2, <1>5, <1>3, RunningQuiet DEF Current, MessageInv
<1>6. ASSUME UNCHANGED <<now, cancel, sent>>, cmds' \subseteq cmds,
             NEW rows, NEW g, NEW s \in Steps, Fail(rows, g, s)
      PROVE  MessageInv'
  BY <1>6, <1>3, StatusApart, QuietMessages DEF Fail
<1>7. ASSUME UNCHANGED <<now, cancel, sent>>, cmds' \subseteq cmds, now > cancel.second,
             status' \in {"draft", "awaiting_review", "ready_to_publish", "published"}
      PROVE  MessageInv'
  BY <1>7, StatusApart, QuietMessages
<1>8. CASE StartRender
  BY <1>8, <1>1, OpenMessages DEF StartRender, Paced
<1>9. CASE StartPublish
  BY <1>9, <1>1, <1>4, OpenMessages DEF StartPublish, MessageInv
<1>10. CASE Approve
  BY <1>10, <1>4, AfterValidationMessages DEF Approve, MessageInv
<1>11. CASE EditNarration
  <2>1. now > cancel.second /\ UNCHANGED <<now, cancel, saga>>
    BY <1>11, <1>4 DEF EditNarration, MessageInv
  <2>2. Send(saga, "validate_script", script', NoStamp)
    BY <1>11 DEF EditNarration
  <2>3. /\ cancel'.sent <= sent' /\ \A c \in cmds' : c.id <= sent'
        /\ SentAfterCancelRuns'
        /\ \E c \in cmds' : c.saga = saga /\ c.step = "validate_script" /\ ~IsCancelled(c)'
    BY <2>1, <2>2, SendKeeps
  <2>4. status' = stepInProgressStatus["validate_script"]
    BY <1>11, <1>1 DEF EditNarration, stepInProgressStatus
  <2>5. \A r \in Steps : status' = stepInProgressStatus[r] => r = "validate_script"
    BY <1>1, <2>4, StatusApart
  <2>6. NeverStranded'
    BY <2>1, <2>3, <2>5, Zenon DEF NeverStranded
  <2>7. (status \notin Failed => now > cancel.second)'
    BY <2>1
  <2> QED  BY <2>3, <2>6, <2>7 DEF MessageInv
<1>12. CASE Reject
  BY <1>12, <1>4, <1>7 DEF Reject, MessageInv
<1>13. ASSUME NEW s \in Steps, RetryStep(s) PROVE MessageInv'
  BY <1>13, OpenMessages DEF RetryStep, Paced
<1>14. ASSUME NEW s \in Steps, CancelStep(s) PROVE MessageInv'
  <2>1. /\ status' = FailedStatusForStep[s] /\ UNCHANGED <<cmds, sent>>
        /\ cancel'.sent = sent
    BY <1>14 DEF CancelStep, Fail
  <2>2. \A c \in cmds : c.id <= sent /\ c.id \in Nat
    BY DEF MessageInv, TypeOK, Commands
  <2>3. SentAfterCancelRuns'
    BY <2>1, <2>2 DEF SentAfterCancelRuns, TypeOK
  <2>4. NeverStranded'
    BY <2>1, StatusApart DEF NeverStranded
  <2>5. status' \in Failed /\ cancel'.sent <= sent'
    BY <1>3, <2>1 DEF TypeOK
  <2> QED  BY <2>1, <2>2, <2>3, <2>4, <2>5 DEF MessageInv
\* What NeverStranded asks for, of one step at a time.
<1>15. ASSUME UNCHANGED <<status, saga, now, cancel, sent>>, cmds' \subseteq cmds,
             \A s \in Steps, c \in cmds \ cmds' :
                 \/ status # stepInProgressStatus[s] \/ c.saga # saga \/ c.step # s
                 \/ s # "publish_video" /\ IsCancelled(c)
                 \/ \E e \in events' : e.saga = saga /\ e.step = s,
             \A s \in Steps, e \in events \ events' :
                 status # stepInProgressStatus[s] \/ e.saga # saga \/ e.step # s
      PROVE  MessageInv'
  <2>1. SentAfterCancelRuns' /\ \A c \in cmds' : c.id <= sent'
    BY <1>15 DEF SentAfterCancelRuns, IsCancelled, MessageInv
  <2>2. NeverStranded'
    BY <1>15 DEF NeverStranded, IsCancelled, MessageInv
  <2> QED  BY <1>15, <2>1, <2>2 DEF MessageInv
<1>16. ASSUME NEW c \in cmds, Answer(c) PROVE MessageInv'
  <2>1. UNCHANGED <<status, saga, now, cancel, sent>> /\ cmds' = cmds \ {c}
    BY <1>16 DEF Answer
  <2>2. PICK e : /\ events' = events \cup {e}
                 /\ e.saga = c.saga /\ e.step = c.step
    <3>1. PICK k : events' = events \cup {[id |-> c.id, saga |-> c.saga, step |-> c.step,
                                           script |-> c.script, kind |-> k]}
      BY <1>16 DEF Answer
    <3>2. PICK e : e = [id |-> c.id, saga |-> c.saga, step |-> c.step,
                        script |-> c.script, kind |-> k]
      OBVIOUS
    <3>3. e.saga = c.saga /\ e.step = c.step
      BY <3>2
    <3> QED  BY <3>1, <3>2, <3>3
  <2> QED  BY <1>15, <2>1, <2>2
<1>17. ASSUME NEW c \in cmds, DropCancelled(c) PROVE MessageInv'
  <2>1. /\ UNCHANGED <<status, saga, now, cancel, sent, events>>
        /\ cmds' = cmds \ {c} /\ c.step # "publish_video" /\ IsCancelled(c)
    BY <1>17 DEF DropCancelled
  <2> QED  BY <1>15, <2>1
<1>18. ASSUME NEW c \in cmds, handleDLQDelivery(c) PROVE MessageInv'
  BY <1>18, <1>6, <1>2 DEF handleDLQDelivery
<1>19. ASSUME NEW e \in events, SkipEvent(e) PROVE MessageInv'
  <2>1. /\ UNCHANGED <<status, saga, now, cancel, sent, cmds>>
        /\ events' = events \ {e} /\ step[e.saga][e.step] # "in_progress"
    BY <1>19 DEF SkipEvent, Take, Current
  <2>2. status # stepInProgressStatus[e.step] \/ e.saga # saga
    BY <1>2, <2>1 DEF RowInv, StatusMatchesStep
  <2> QED  BY <1>15, <2>1, <2>2
<1>20. ASSUME NEW e \in events, handleEventsDLQDelivery(e) \/ handleFailure(e)
       PROVE  MessageInv'
  BY <1>20, <1>6, <1>2 DEF handleEventsDLQDelivery, handleFailure
<1>21. ASSUME NEW e \in events, retryTransientSynthesisFailure(e)
       PROVE  MessageInv'
  <2>1. /\ Current(e) /\ e.step = "synthesize_speech"
        /\ Send(e.saga, "synthesize_speech", script, now)
        /\ UNCHANGED <<status, saga, now, cancel>>
    BY <1>21 DEF retryTransientSynthesisFailure, Accepted
  <2>2. /\ e.saga = saga /\ status = stepInProgressStatus["synthesize_speech"]
        /\ now > cancel.second
    BY <1>5, <2>1
  <2>3. /\ cancel'.sent <= sent' /\ \A c \in cmds' : c.id <= sent'
        /\ SentAfterCancelRuns'
        /\ \E c \in cmds' : c.saga = saga /\ c.step = "synthesize_speech" /\ ~IsCancelled(c)'
    BY <2>1, <2>2, SendKeeps
  <2>4. \A r \in Steps : status' = stepInProgressStatus[r] => r = "synthesize_speech"
    BY <1>1, <2>1, <2>2, StatusApart
  <2>5. NeverStranded'
    BY <2>1, <2>3, <2>4, Zenon DEF NeverStranded
  <2>6. (status \notin Failed => now > cancel.second)'
    BY <2>1, <2>2
  <2> QED  BY <2>3, <2>5, <2>6 DEF MessageInv
<1>22. ASSUME NEW e \in events, onScriptValidated(e) PROVE MessageInv'
  <2>1. /\ Current(e) /\ UNCHANGED <<saga, now, cancel>>
    BY <1>22 DEF onScriptValidated, Accepted
  <2>2. e.saga = saga /\ now > cancel.second
    BY <1>5, <2>1
  <2>3. CASE Fail(step, e.saga, "validate_script") /\ NothingSent
    BY <1>1, <1>6, <2>1, <2>3 DEF NothingSent
  <2>4. CASE status' = "awaiting_review" /\ NothingSent
    BY <1>7, <2>1, <2>2, <2>4 DEF NothingSent
  <2>5. CASE AfterValidation(Completed(e), e.saga)
    BY <2>1, <2>2, <2>5, AfterValidationMessages
  <2> QED  BY <1>22, <2>3, <2>4, <2>5 DEF onScriptValidated
<1>23. ASSUME NEW e \in events, onSpeechSynthesized(e) PROVE MessageInv'
  <2>1. /\ Current(e) /\ UNCHANGED <<saga, now, cancel>>
    BY <1>23 DEF onSpeechSynthesized, Accepted, row
  <2>2. e.saga = saga /\ now > cancel.second
    BY <1>5, <2>1
  <2>3. CASE Fail(Completed(e), e.saga, "render_scenes") /\ NothingSent
    BY <1>1, <1>6, <2>1, <2>3 DEF NothingSent
  <2>4. CASE startRenderScenes(Completed(e), e.saga)
    BY <2>1, <2>2, <2>4, startRenderScenesMessages
  <2> QED  BY <1>23, <2>3, <2>4 DEF onSpeechSynthesized
<1>24. ASSUME NEW e \in events, onRenderingCompleted(e) PROVE MessageInv'
  <2>1. /\ Current(e) /\ UNCHANGED <<saga, now, cancel>>
    BY <1>24 DEF onRenderingCompleted, Accepted, row
  <2>2. e.saga = saga /\ now > cancel.second
    BY <1>5, <2>1
  <2>3. CASE Fail(step, e.saga, "render_scenes") /\ NothingSent
    BY <1>1, <1>6, <2>1, <2>3 DEF NothingSent
  <2>4. CASE Open(Completed(e), e.saga, "assemble_video")
    BY <1>1, <2>1, <2>2, <2>4, OpenMessages
  <2> QED  BY <1>24, <2>3, <2>4 DEF onRenderingCompleted
<1>25. ASSUME NEW e \in events, onVideoAssembled(e) \/ onVideoPublished(e)
       PROVE  MessageInv'
  <2>1. /\ Current(e) /\ UNCHANGED <<now, cancel, sent, cmds>>
        /\ status' \in {"ready_to_publish", "published"}
    BY <1>25 DEF onVideoAssembled, onVideoPublished, Accepted
  <2> QED  BY <1>5, <1>7, <2>1
<1>26. CASE Tick
  <2>1. now' = now + 1 /\ UNCHANGED <<status, saga, cancel, sent, cmds, events>>
    BY <1>26 DEF Tick
  <2>2. now' > now
    BY <2>1 DEF TypeOK
  <2>3. (status \notin Failed => now > cancel.second)'
    BY <2>1, <2>2 DEF MessageInv, TypeOK
  <2>4. SentAfterCancelRuns' /\ NeverStranded'
    BY <2>1 DEF MessageInv, SentAfterCancelRuns, NeverStranded, IsCancelled
  <2> QED  BY <2>1, <2>3, <2>4 DEF MessageInv
<1>27. CASE UNCHANGED vars
  BY <1>27 DEF vars, MessageInv, SentAfterCancelRuns, NeverStranded, IsCancelled
<1> QED
  BY <1>8, <1>9, <1>10, <1>11, <1>12, <1>13, <1>14, <1>16, <1>17, <1>18, <1>19, <1>20,
     <1>21, <1>22, <1>23, <1>24, <1>25, <1>26, <1>27, NextCases

\* It holds in a new project, which has sent nothing.
LEMMA MessageInit == Init => MessageInv
<1> SUFFICES ASSUME Init PROVE MessageInv
  OBVIOUS
<1>1. status = "draft" /\ cmds = {} /\ sent = 0 /\ cancel.sent = 0 /\ now > cancel.second
  BY DEF Init, NoStamp
<1> QED  BY <1>1, StatusApart DEF MessageInv, SentAfterCancelRuns, NeverStranded

\* The invariant that relates a running step to its messages and the clock.
LEMMA MessagesCorrect ==
    ASSUME HumanPace, ~StartWhileRunning, ~StaleDeadLetters
    PROVE  Spec => []MessageInv
<1>1. Init => TypeOK /\ KnownSagas /\ RowInv /\ MessageInv
  BY TypeInit, RowInit, MessageInit
<1>2. TypeOK /\ KnownSagas /\ RowInv /\ MessageInv /\ [Next]_vars
         => TypeOK' /\ KnownSagas' /\ RowInv' /\ MessageInv'
  BY TypeStep, KnownStep, RowStep, MessageStep
<1> QED  BY <1>1, <1>2, PTL DEF Spec

\* A project in flight always has a command or an answer outstanding that will
\* bring its step on, as long as a second passes between a cancel and the next
\* request.
THEOREM NobodyStranded ==
    ASSUME HumanPace, ~StartWhileRunning, ~StaleDeadLetters
    PROVE  Spec => []NeverStranded
<1>1. MessageInv => NeverStranded
  BY DEF MessageInv
<1> QED  BY <1>1, MessagesCorrect, PTL

\* Under the same assumption no command sent after a cancel is taken for
\* cancelled.
THEOREM RetriesRun ==
    ASSUME HumanPace, ~StartWhileRunning, ~StaleDeadLetters
    PROVE  Spec => []SentAfterCancelRuns
<1>1. MessageInv => SentAfterCancelRuns
  BY DEF MessageInv
<1> QED  BY <1>1, MessagesCorrect, PTL

-----------------------------------------------------------------------------
(* A project at rest.                                                      *)

\* Nothing under way moves a project at rest: only a message for a step in
\* progress moves one, and no step is in progress then.
LEMMA RestStep ==
    ASSUME TypeOK, RowInv, Next, ~StaleDeadLetters, status \notin InFlight, requests' = requests
    PROVE  status' = status
<1>1. \A g \in Sagas, s \in Steps : step[g][s] # "in_progress"
  BY StatusTables DEF RowInv, StatusMatchesStep
<1>2. \A m \in cmds \cup events : ~Current(m)
  BY <1>1 DEF TypeOK, Commands, Events, Current
<1>3. ~Request
  BY DEF Request, TypeOK
<1>4. ~Creator
  BY <1>3 DEF Creator, StartRender, StartPublish, Approve, EditNarration, Reject, RetryStep,
              CancelStep
<1>5. ASSUME NEW e \in events,
             \/ SkipEvent(e) \/ handleEventsDLQDelivery(e)
             \/ handleFailure(e) \/ retryTransientSynthesisFailure(e)
             \/ onScriptValidated(e) \/ onSpeechSynthesized(e)
             \/ onRenderingCompleted(e) \/ onVideoAssembled(e) \/ onVideoPublished(e)
      PROVE  UNCHANGED status
  <2>1. ~Current(e)
    BY <1>2
  <2> QED
    BY <1>5, <2>1
    DEF SkipEvent, handleEventsDLQDelivery, handleFailure, retryTransientSynthesisFailure,
        onScriptValidated, onSpeechSynthesized, onRenderingCompleted, onVideoAssembled,
        onVideoPublished, Accepted
<1>6. CASE Worker
  BY <1>2, <1>6 DEF Worker, Answer, DropCancelled, handleDLQDelivery
<1>7. CASE Tick
  BY <1>7 DEF Tick
<1> QED  BY <1>4, <1>5, <1>6, <1>7 DEF Next, Orchestrator

\* A project at rest, its answers still under way, moves only when asked to.
THEOREM RestingStays ==
    ASSUME ~StartWhileRunning, ~StaleDeadLetters
    PROVE  Spec => OnlyRequestsWake
<1>1. TypeOK /\ RowInv /\ [Next]_vars
         => [status \notin InFlight /\ status' # status => requests' # requests]_vars
  BY RestStep
<1> QED  BY <1>1, TypeCorrect, RowsCorrect, PTL DEF Spec, OnlyRequestsWake

-----------------------------------------------------------------------------
(* RenderSaga implements Pipeline.  What a stage stands on is read off the *)
(* step rows, so the status alone has to tell them.                        *)

\* A saga renders or publishes; a status that stands for a finished step is
\* that of the current saga.

KindOf(rows) ==
    \A g \in Sagas :
        rows[g]["publish_video"] # "none" => \A s \in RenderSteps : rows[g][s] = "none"

OneKind == KindOf(step)

DoneIsOfSaga ==
    /\ status = "ready_to_publish" => step[saga]["assemble_video"] = "completed"
    /\ status = "published" => step[saga]["publish_video"] = "completed"

PipeInv == OneKind /\ DoneIsOfSaga

\* Step s of saga g is of the kind the saga is, or the first of it.
OfKind(rows, g, s) ==
    \/ s \in RenderSteps /\ \E r \in RenderSteps : rows[g][r] # "none"
    \/ s = "publish_video" /\ rows[g][s] # "none"
    \/ \A r \in Steps : rows[g][r] = "none"

\* A step of the saga's kind leaves the saga of one kind.
LEMMA MarkKind ==
    ASSUME NEW rows \in [Sagas -> [Steps -> StepStatuses]], KindOf(rows),
           NEW g \in Sagas, NEW s \in Steps, NEW st \in StepStatuses, OfKind(rows, g, s)
    PROVE  KindOf(Mark(rows, g, s, st))
<1>1. \A h \in Sagas, r \in Steps :
         Mark(rows, g, s, st)[h][r] = IF h = g /\ r = s THEN st ELSE rows[h][r]
  BY DEF Mark
<1>2. ASSUME NEW h \in Sagas, Mark(rows, g, s, st)[h]["publish_video"] # "none",
             NEW r \in RenderSteps
      PROVE  Mark(rows, g, s, st)[h][r] = "none"
  BY <1>1, <1>2 DEF KindOf, OfKind, Steps, RenderSteps
<1> QED  BY <1>2 DEF KindOf

\* A render step after another, with the first one completed.
LEMMA NextKind ==
    ASSUME NEW rows \in [Sagas -> [Steps -> StepStatuses]], KindOf(rows),
           NEW g \in Sagas, NEW s \in RenderSteps, NEW n \in RenderSteps, OfKind(rows, g, s)
    PROVE  /\ Mark(rows, g, s, "completed") \in [Sagas -> [Steps -> StepStatuses]]
           /\ KindOf(Mark(rows, g, s, "completed"))
           /\ OfKind(Mark(rows, g, s, "completed"), g, n)
<1>1. s \in Steps /\ "completed" \in StepStatuses
  BY DEF Steps, StepStatuses
<1>2. /\ Mark(rows, g, s, "completed") \in [Sagas -> [Steps -> StepStatuses]]
      /\ Mark(rows, g, s, "completed")[g][s] = "completed"
  BY <1>1 DEF Mark
<1>3. KindOf(Mark(rows, g, s, "completed"))
  BY <1>1, MarkKind
<1> QED  BY <1>2, <1>3 DEF OfKind

\* A step that is opened or failed stands for no finished one.
LEMMA MoveKind ==
    ASSUME NEW rows \in [Sagas -> [Steps -> StepStatuses]], KindOf(rows),
           NEW g \in Sagas, NEW s \in Steps, OfKind(rows, g, s),
           Open(rows, g, s) \/ Fail(rows, g, s)
    PROVE  PipeInv'
<1>1. PICK st \in {"in_progress", "failed"} : step' = Mark(rows, g, s, st)
  BY DEF Open, Fail
<1>2. KindOf(step')
  BY <1>1, MarkKind DEF StepStatuses
<1>3. status' \notin {"ready_to_publish", "published"}
  BY StatusApart DEF Open, Fail
<1> QED  BY <1>2, <1>3 DEF PipeInv, OneKind, DoneIsOfSaga, KindOf

\* The speech step after the validation, or the render step after it.
LEMMA AfterValidationKind ==
    ASSUME NEW rows \in [Sagas -> [Steps -> StepStatuses]], KindOf(rows),
           NEW g \in Sagas, OfKind(rows, g, "synthesize_speech"), AfterValidation(rows, g)
    PROVE  PipeInv'
<1>1. /\ "synthesize_speech" \in RenderSteps /\ "render_scenes" \in RenderSteps
      /\ RenderSteps \subseteq Steps
  BY DEF Steps, RenderSteps
<1>2. CASE startSynthesizeSpeech(rows, g)
  BY <1>2, <1>1, MoveKind DEF startSynthesizeSpeech
<1>3. CASE skipSynthesizeSpeech(rows, g)
  <2>1. PICK new : new = Mark(rows, g, "synthesize_speech", "completed")
    OBVIOUS
  <2>2. /\ new \in [Sagas -> [Steps -> StepStatuses]]
        /\ KindOf(new) /\ OfKind(new, g, "render_scenes")
    BY <1>1, <2>1, NextKind
  <2>3. Open(new, g, "render_scenes") \/ Fail(new, g, "render_scenes")
    BY <1>3, <2>1 DEF skipSynthesizeSpeech, startRenderScenes
  <2> QED  BY <1>1, <2>2, <2>3, MoveKind
<1> QED  BY <1>2, <1>3 DEF AfterValidation

\* Every step leaves the sagas of one kind each.
LEMMA PipeStep ==
    ASSUME TypeOK, KnownSagas, RowInv, PipeInv, [Next]_vars,
           ~StartWhileRunning, ~StaleDeadLetters
    PROVE  PipeInv'
<1>1. step \in [Sagas -> [Steps -> StepStatuses]] /\ KindOf(step)
  BY DEF TypeOK, PipeInv, OneKind
<1>2. /\ "validate_script" \in RenderSteps /\ "synthesize_speech" \in RenderSteps
      /\ "render_scenes" \in RenderSteps /\ "assemble_video" \in RenderSteps
      /\ "publish_video" \in Steps /\ RenderSteps \subseteq Steps
  BY DEF Steps, RenderSteps
<1>3. \A m \in cmds \cup events : m.saga \in Sagas /\ m.step \in Steps
  BY DEF TypeOK, Commands, Events
<1>4. status # "draft" => saga \in Sagas
  BY BoundsAssumption DEF KnownSagas, TypeOK, Sagas
<1>5. ASSUME UNCHANGED <<status, saga, step>> PROVE PipeInv'
  BY <1>5 DEF PipeInv, OneKind, DoneIsOfSaga, KindOf
<1>6. ASSUME NEW g \in Sagas, NEW s \in Steps, step[g][s] # "none" PROVE OfKind(step, g, s)
  BY <1>6 DEF OfKind, Steps
<1>7. CASE StartRender \/ StartPublish
  <2>1. saga + 1 \in Sagas /\ \A r \in Steps : step[saga + 1][r] = "none"
    BY <1>7, BoundsAssumption
    DEF StartRender, StartPublish, Request, TypeOK, Sagas, RowInv, FutureSagas
  <2>2. \E s \in {"validate_script", "publish_video"} : Open(step, saga + 1, s)
    BY <1>7 DEF StartRender, StartPublish
  <2> QED  BY <1>1, <1>2, <2>1, <2>2, MoveKind DEF OfKind
<1>8. ASSUME status = "awaiting_review"
      PROVE  /\ saga \in Sagas /\ OfKind(step, saga, "validate_script")
             /\ OfKind(step, saga, "synthesize_speech")
  BY <1>4, <1>8, <1>2 DEF RowInv, UnderReview, OfKind
<1>9. CASE Approve
  BY <1>1, <1>9, <1>8, AfterValidationKind DEF Approve
<1>10. CASE EditNarration
  <2>1. step' = Mark(step, saga, "validate_script", "in_progress") /\ status' = "validating_script"
    BY <1>10 DEF EditNarration
  <2>2. KindOf(step')
    BY <1>1, <1>10, <1>2, <1>8, <2>1, MarkKind DEF EditNarration, StepStatuses
  <2> QED  BY <2>1, <2>2 DEF PipeInv, OneKind, DoneIsOfSaga, KindOf
<1>11. CASE Reject
  BY <1>11 DEF Reject, PipeInv, OneKind, DoneIsOfSaga, KindOf
<1>12. ASSUME NEW s \in Steps, RetryStep(s) \/ CancelStep(s) PROVE PipeInv'
  <2>1. saga \in Sagas /\ step[saga][s] # "none"
    BY <1>12, <1>4, StatusApart
    DEF RetryStep, CancelStep, RowInv, StatusMatchesStep, FailedStatusIsOfStep
  <2>2. Open(step, saga, s) \/ Fail(step, saga, s)
    BY <1>12 DEF RetryStep, CancelStep
  <2> QED  BY <1>1, <1>6, <2>1, <2>2, MoveKind
<1>13. ASSUME NEW m \in cmds \cup events, Current(m), Fail(step, m.saga, m.step) PROVE PipeInv'
  <2>1. m.saga \in Sagas /\ m.step \in Steps /\ step[m.saga][m.step] # "none"
    BY <1>13, <1>3 DEF Current
  <2> QED  BY <1>1, <1>13, <1>6, <2>1, MoveKind
<1>14. ASSUME NEW c \in cmds, Answer(c) \/ DropCancelled(c) \/ handleDLQDelivery(c)
      PROVE  PipeInv'
  BY <1>13, <1>14, <1>5 DEF Answer, DropCancelled, handleDLQDelivery
<1>15. ASSUME NEW e \in events,
             \/ SkipEvent(e) \/ handleEventsDLQDelivery(e) \/ handleFailure(e)
             \/ retryTransientSynthesisFailure(e)
      PROVE  PipeInv'
  BY <1>13, <1>15, <1>5
  DEF SkipEvent, handleEventsDLQDelivery, handleFailure, retryTransientSynthesisFailure
<1>16. ASSUME NEW e \in events, Current(e), e.step \in RenderSteps
      PROVE  /\ Completed(e) \in [Sagas -> [Steps -> StepStatuses]] /\ KindOf(Completed(e))
             /\ \A n \in RenderSteps : OfKind(Completed(e), e.saga, n)
  BY <1>1, <1>16, <1>6, <1>3, NextKind DEF Current, Completed
<1>17. ASSUME NEW e \in events, onScriptValidated(e) PROVE PipeInv'
  <2>1. Current(e) /\ e.step = "validate_script"
    BY <1>17 DEF onScriptValidated, Accepted
  <2>2. CASE Fail(step, e.saga, "validate_script")
    BY <1>13, <2>1, <2>2
  <2>3. CASE step' = Completed(e) /\ status' = "awaiting_review"
    BY <1>2, <1>16, <2>1, <2>3 DEF PipeInv, OneKind, DoneIsOfSaga, KindOf
  <2>4. CASE AfterValidation(Completed(e), e.saga)
    BY <1>2, <1>16, <1>3, <2>1, <2>4, AfterValidationKind
  <2> QED  BY <1>17, <2>2, <2>3, <2>4 DEF onScriptValidated
<1>18. ASSUME NEW e \in events, onSpeechSynthesized(e) \/ onRenderingCompleted(e)
       PROVE  PipeInv'
  <2>1. Current(e) /\ e.step \in {"synthesize_speech", "render_scenes"}
    BY <1>18 DEF onSpeechSynthesized, onRenderingCompleted, Accepted
  <2>2. \/ Fail(step, e.saga, e.step)
        \/ \E n \in RenderSteps : Open(Completed(e), e.saga, n) \/ Fail(Completed(e), e.saga, n)
    BY <1>18, <1>2
    DEF onSpeechSynthesized, onRenderingCompleted, Accepted, startRenderScenes
  <2> QED  BY <1>13, <1>2, <1>16, <1>3, <2>1, <2>2, MoveKind
<1>19. ASSUME NEW e \in events, onVideoAssembled(e) \/ onVideoPublished(e)
       PROVE  PipeInv'
  <2>1. /\ Current(e) /\ saga' = saga /\ step' = Completed(e)
        /\ \/ e.step = "assemble_video" /\ status' = "ready_to_publish"
           \/ e.step = "publish_video" /\ status' = "published"
    BY <1>19 DEF onVideoAssembled, onVideoPublished, Accepted
  <2>2. e.saga = saga /\ saga \in Sagas /\ step[e.saga][e.step] # "none" /\ e.step \in Steps
    BY <1>3, <2>1, RunningQuiet DEF Current
  <2>3. KindOf(step')
    BY <1>1, <1>6, <2>1, <2>2, MarkKind DEF Completed, StepStatuses
  <2>4. step'[saga][e.step] = "completed"
    BY <1>1, <2>1, <2>2, MarkType DEF Completed, StepStatuses
  <2> QED  BY <2>1, <2>3, <2>4 DEF PipeInv, OneKind, DoneIsOfSaga, KindOf
<1>20. CASE Tick \/ UNCHANGED vars
  BY <1>20, <1>5 DEF Tick, vars
<1> QED
  BY <1>7, <1>9, <1>10, <1>11, <1>12, <1>14, <1>15, <1>17, <1>18, <1>19, <1>20, NextCases

\* No saga is begun in a new project.
LEMMA PipeInit == Init => PipeInv
BY DEF Init, PipeInv, OneKind, KindOf, DoneIsOfSaga, Steps, RenderSteps

\* What holds of every reachable state, together.
SagaInv == TypeOK /\ KnownSagas /\ RowInv /\ PipeInv

\* The refinement's invariant is kept by every step.
LEMMA SagaInvStep ==
    ASSUME SagaInv, [Next]_vars, ~StartWhileRunning, ~StaleDeadLetters
    PROVE  SagaInv'
BY TypeStep, KnownStep, RowStep, PipeStep DEF SagaInv

\* The saga that renders is the last one with a validation begun.
LEMMA RunIs ==
    ASSUME NEW g \in Sagas, step[g]["validate_script"] # "none",
           \A h \in Sagas : h > g => step[h]["validate_script"] = "none"
    PROVE  RenderRun = g
<1>1. \A h \in Sagas :
         /\ step[h]["validate_script"] # "none"
         /\ \A k \in Sagas : k > h => step[k]["validate_script"] = "none"
         => h = g
  BY DEF Sagas
<1> QED  BY <1>1 DEF RenderRun

\* Its finished steps, and the publishing one if it is finished, are the stages done.
LEMMA DoneIs ==
    ASSUME NEW g \in Sagas, RenderRun = g, NEW D \in SUBSET RenderSteps, saga \in Sagas,
           \A r \in RenderSteps : step[g][r] = "completed" <=> r \in D
    PROVE  DoneOf = {StageOf[r] : r \in D}
                    \cup {n \in {5} : step[saga]["publish_video"] = "completed"}
<1>1. RenderRun # 0 /\ saga # 0
  BY DEF Sagas
<1>2. {r \in RenderSteps : RenderRun # 0 /\ step[RenderRun][r] = "completed"} = D
  BY <1>1
<1>3. {StageOf[s] : s \in {r \in {"publish_video"} :
                            saga # 0 /\ step[saga][r] = "completed"}}
         = {n \in {5} : step[saga]["publish_video"] = "completed"}
  BY <1>1 DEF StageOf, Steps
<1> QED  BY <1>2, <1>3 DEF DoneOf

\* The stages, by the steps.
LEMMA StageTable ==
    /\ StageOf["validate_script"] = 1 /\ StageOf["synthesize_speech"] = 2
    /\ StageOf["render_scenes"] = 3 /\ StageOf["assemble_video"] = 4
    /\ StageOf["publish_video"] = 5
    /\ \A s \in RenderSteps : {StageOf[r] : r \in Earlier[s]} = 1 .. (StageOf[s] - 1)
    /\ {StageOf[r] : r \in RenderSteps} = 1 .. 4
<1>1. /\ StageOf["validate_script"] = 1 /\ StageOf["synthesize_speech"] = 2
      /\ StageOf["render_scenes"] = 3 /\ StageOf["assemble_video"] = 4
      /\ StageOf["publish_video"] = 5
  BY DEF StageOf, Steps, RenderSteps
<1>2. {StageOf[r] : r \in RenderSteps} = 1 .. 4
  BY <1>1 DEF RenderSteps
<1>3. {StageOf[r] : r \in {"validate_script"}} = 1 .. 1
  BY <1>1
<1>4. {StageOf[r] : r \in {"validate_script", "synthesize_speech"}} = 1 .. 2
  BY <1>1
<1>5. {StageOf[r] : r \in RenderSteps \ {"assemble_video"}} = 1 .. 3
  BY <1>1 DEF RenderSteps
<1>6. ASSUME NEW s \in RenderSteps
      PROVE  {StageOf[r] : r \in Earlier[s]} = 1 .. (StageOf[s] - 1)
  <2>1. CASE s = "validate_script"
    BY <1>1, <2>1, EarlierTable
  <2>2. CASE s = "synthesize_speech"
    BY <1>1, <1>3, <2>2, EarlierTable
  <2>3. CASE s = "render_scenes"
    BY <1>1, <1>4, <2>3, EarlierTable
  <2>4. CASE s = "assemble_video"
    <3>1. Earlier[s] = RenderSteps \ {"assemble_video"} /\ StageOf[s] - 1 = 3
      BY <1>1, <2>4, EarlierTable
    <3> QED  BY <1>5, <3>1
  <2> QED  BY <2>1, <2>2, <2>3, <2>4 DEF RenderSteps
<1> QED  BY <1>1, <1>2, <1>6

\* The current saga is the one that renders when a step of it is.
LEMMA Rendering ==
    ASSUME SagaInv, saga \in Sagas, NEW s \in RenderSteps, step[saga][s] # "none"
    PROVE  /\ RenderRun = saga /\ step[saga]["publish_video"] = "none"
<1>1. s \in Steps /\ "validate_script" \in Steps /\ "publish_video" \in Steps
  BY DEF Steps, RenderSteps
<1>2. step[saga]["validate_script"] # "none"
  BY <1>1, EarlierTable DEF SagaInv, RowInv, EarlierStepsDone, RenderSteps
<1>3. \A h \in Sagas : h > saga => step[h]["validate_script"] = "none"
  BY <1>1 DEF SagaInv, RowInv, FutureSagas
<1> QED  BY <1>2, <1>3, RunIs DEF SagaInv, PipeInv, OneKind, KindOf

\* What is assembled was rendered by the last saga that rendered.
LEMMA Published ==
    ASSUME SagaInv, saga \in Sagas,
           status \in {"ready_to_publish", "publishing", "published", "failed_at_publish_video"}
    PROVE  RenderRun \in Sagas /\ \A s \in RenderSteps : step[RenderRun][s] = "completed"
<1>1. PICK g \in 1 .. saga :
         /\ \A s \in RenderSteps : step[g][s] = "completed"
         /\ \A h \in (g + 1) .. saga : step[h]["validate_script"] = "none"
  BY DEF SagaInv, RowInv, PublishedWasAssembled
<1>2. g \in Sagas /\ step[g]["validate_script"] # "none"
  BY <1>1, BoundsAssumption DEF Sagas, RenderSteps
<1>3. \A h \in Sagas : h > g => step[h]["validate_script"] = "none"
  BY <1>1 DEF Sagas, SagaInv, RowInv, FutureSagas, Steps, RenderSteps
<1> QED  BY <1>1, <1>2, <1>3, RunIs

\* A project at a step, or failed there, is at its stage, on all those before it.
LEMMA AtStep ==
    ASSUME SagaInv, NEW s \in Steps,
           status = stepInProgressStatus[s] \/ status = FailedStatusForStep[s]
    PROVE  /\ ModeOf = IF status = stepInProgressStatus[s] THEN "running" ELSE "failed"
           /\ AtOf = StageOf[s] /\ DoneOf = 1 .. (StageOf[s] - 1)
<1>1. saga \in Sagas
  BY StatusApart, BoundsAssumption DEF SagaInv, KnownSagas, TypeOK, Sagas
<1>2. ModeOf = IF status = stepInProgressStatus[s] THEN "running" ELSE "failed"
  BY StatusApart DEF ModeOf, InFlight, Failed
<1>3. AtOf = StageOf[s]
  <2>1. \A r \in Steps :
           status \in {stepInProgressStatus[r], FailedStatusForStep[r]} <=> r = s
    BY StatusApart
  <2>2. (CHOOSE r \in Steps : status \in {stepInProgressStatus[r], FailedStatusForStep[r]}) = s
    BY <2>1
  <2>3. status \notin {"draft", "awaiting_review", "ready_to_publish", "published"}
    BY StatusApart
  <2> QED  BY <2>2, <2>3 DEF AtOf
<1>4. step[saga][s] \notin {"none", "completed"}
  BY <1>1 DEF SagaInv, RowInv, StatusMatchesStep, FailedStatusIsOfStep
<1>5. CASE s \in RenderSteps
  <2>1. RenderRun = saga /\ step[saga]["publish_video"] = "none"
    BY <1>1, <1>4, <1>5, Rendering
  <2>2. \A r \in RenderSteps : step[saga][r] = "completed" <=> r \in Earlier[s]
    <3>1. \A r \in Steps : step[saga][r] # "none" => \A q \in Earlier[r] : step[saga][q] = "completed"
      BY <1>1 DEF SagaInv, RowInv, EarlierStepsDone
    <3>2. \A r \in RenderSteps \ {s} : s \in Earlier[r] \/ r \in Earlier[s]
      BY <1>5, EarlierTable DEF RenderSteps
    <3> QED  BY <1>4, <3>1, <3>2, EarlierTable DEF Steps
  <2>3. PICK D \in SUBSET RenderSteps : D = Earlier[s]
    BY EarlierTable
  <2>4. DoneOf = {StageOf[r] : r \in D}
    BY <1>1, <2>1, <2>2, <2>3, DoneIs
  <2>5. {StageOf[r] : r \in D} = 1 .. (StageOf[s] - 1)
    BY <1>5, <2>3, StageTable
  <2> QED  BY <1>2, <1>3, <2>4, <2>5
<1>6. CASE s = "publish_video"
  <2>1. RenderRun \in Sagas /\ \A r \in RenderSteps : step[RenderRun][r] = "completed"
    BY <1>1, <1>6, Published DEF stepInProgressStatus, FailedStatusForStep, Steps
  <2>2. PICK D \in SUBSET RenderSteps : D = RenderSteps
    OBVIOUS
  <2>3. DoneOf = {StageOf[r] : r \in D}
    BY <1>1, <1>4, <1>6, <2>1, <2>2, DoneIs
  <2>4. {StageOf[r] : r \in D} = 1 .. 4 /\ StageOf[s] - 1 = 4
    BY <1>6, <2>2, StageTable
  <2> QED  BY <1>2, <1>3, <2>3, <2>4
<1> QED  BY <1>5, <1>6 DEF Steps

\* A project at rest waits after its first stage, after its fourth, or is done.
LEMMA AtRest ==
    ASSUME SagaInv
    PROVE  /\ status = "awaiting_review" => ModeOf = "waiting" /\ AtOf = 1 /\ DoneOf = {1}
           /\ status = "ready_to_publish" => ModeOf = "waiting" /\ AtOf = 4 /\ DoneOf = 1 .. 4
           /\ status = "published" => ModeOf = "finished" /\ AtOf = 5 /\ DoneOf = 1 .. 5
           /\ status = "draft" => ModeOf = "draft" /\ AtOf = 0
<1>1. status # "draft" => saga \in Sagas
  BY BoundsAssumption DEF SagaInv, KnownSagas, TypeOK, Sagas
<1>2. status \in Resting => status \notin InFlight /\ status \notin Failed
  BY StatusTables DEF InFlight, Failed
<1>3. CASE status = "awaiting_review"
  <2>1. /\ step[saga]["validate_script"] = "completed"
        /\ \A s \in RenderSteps \ {"validate_script"} : step[saga][s] = "none"
    BY <1>3 DEF SagaInv, RowInv, UnderReview
  <2>2. RenderRun = saga /\ step[saga]["publish_video"] = "none"
    BY <1>1, <1>3, <2>1, Rendering DEF RenderSteps
  <2>3. PICK D \in SUBSET RenderSteps : D = {"validate_script"}
    BY DEF RenderSteps
  <2>4. DoneOf = {StageOf[r] : r \in D}
    BY <1>1, <1>3, <2>1, <2>2, <2>3, DoneIs
  <2> QED  BY <1>2, <1>3, <2>3, <2>4, StageTable DEF ModeOf, AtOf, Resting
<1>4. CASE status \in {"ready_to_publish", "published"}
  <2>1. RenderRun \in Sagas /\ \A r \in RenderSteps : step[RenderRun][r] = "completed"
    BY <1>1, <1>4, Published
  <2>2. PICK D \in SUBSET RenderSteps : D = RenderSteps
    OBVIOUS
  <2>3. DoneOf = 1 .. 4 \cup {n \in {5} : step[saga]["publish_video"] = "completed"}
    BY <1>1, <1>4, <2>1, <2>2, DoneIs, StageTable
  <2>4. status = "ready_to_publish" => step[saga]["publish_video"] = "none"
    BY <1>1, Rendering DEF SagaInv, PipeInv, DoneIsOfSaga, RenderSteps
  <2>5. status = "published" => step[saga]["publish_video"] = "completed"
    BY DEF SagaInv, PipeInv, DoneIsOfSaga
  <2> QED  BY <1>2, <1>4, <2>3, <2>4, <2>5 DEF ModeOf, AtOf, Resting
<1>5. CASE status = "draft"
  BY <1>2, <1>5 DEF ModeOf, AtOf, Resting
<1>6. CASE status \notin {"awaiting_review", "ready_to_publish", "published", "draft"}
  BY <1>6
<1> QED  BY <1>3, <1>4, <1>5, <1>6

\* What each status stands for in Pipeline.
StandsFor ==
    /\ \A s \in Steps :
          status = stepInProgressStatus[s] \/ status = FailedStatusForStep[s] =>
             /\ ModeOf = IF status = stepInProgressStatus[s] THEN "running" ELSE "failed"
             /\ AtOf = StageOf[s] /\ DoneOf = 1 .. (StageOf[s] - 1)
    /\ status = "awaiting_review" => ModeOf = "waiting" /\ AtOf = 1 /\ DoneOf = {1}
    /\ status = "ready_to_publish" => ModeOf = "waiting" /\ AtOf = 4 /\ DoneOf = 1 .. 4
    /\ status = "published" => ModeOf = "finished" /\ AtOf = 5 /\ DoneOf = 1 .. 5
    /\ status = "draft" => ModeOf = "draft" /\ AtOf = 0

\* In a reachable state every status stands for what the table says.
LEMMA Mapped == SagaInv => StandsFor
BY AtStep, AtRest DEF StandsFor

\* So it does in the next state.
LEMMA MappedNext == SagaInv' => StandsFor'
BY Mapped, PTL

\* Without a step row moved, a project's stage is as it was.
LEMMA Unmoved ==
    ASSUME UNCHANGED <<status, saga, step>>
    PROVE  UNCHANGED <<ModeOf, AtOf, DoneOf>>
BY DEF ModeOf, AtOf, DoneOf, RenderRun

\* A step that starts, or fails to, at a later stage than the project was at.
LEMMA GoesOn ==
    ASSUME StandsFor, StandsFor', NEW s \in Steps, NEW r \in Steps,
           status = stepInProgressStatus[r], StageOf[s] > StageOf[r],
           status' = stepInProgressStatus[s] \/ status' = FailedStatusForStep[s]
    PROVE  Pipe!Advance(StageOf[s])
BY DEF StandsFor, Pipe!Advance

\* A step that fails, or is given up, while it runs.
LEMMA FailsThere ==
    ASSUME StandsFor, StandsFor', NEW s \in Steps,
           status = stepInProgressStatus[s], status' = FailedStatusForStep[s]
    PROVE  Pipe!Fail
<1>1. status' # stepInProgressStatus[s]
  BY StatusApart
<1> QED  BY <1>1 DEF StandsFor, Pipe!Fail

\* A waiting run that goes on, at a later stage.
LEMMA ResumesAt ==
    ASSUME StandsFor, StandsFor', NEW s \in Steps,
           \/ status = "awaiting_review" /\ s # "validate_script"
           \/ status = "ready_to_publish" /\ s = "publish_video",
           status' = stepInProgressStatus[s] \/ status' = FailedStatusForStep[s]
    PROVE  Pipe!Resume(StageOf[s])
<1>1. StageOf[s] > AtOf
  BY StageTable DEF StandsFor, Steps, RenderSteps
<1> QED  BY <1>1 DEF StandsFor, Pipe!Resume

\* The status after an approval, or a validation nobody reviews, is of a later step.
LEMMA AfterValidationStatus ==
    ASSUME NEW rows, NEW g, AfterValidation(rows, g)
    PROVE  \E s \in {"synthesize_speech", "render_scenes"} :
              status' = stepInProgressStatus[s] \/ status' = FailedStatusForStep[s]
BY DEF AfterValidation, startSynthesizeSpeech, skipSynthesizeSpeech, startRenderScenes, Open, Fail

\* Every step of the saga is one of Pipeline's, or none.
LEMMA StepMaps ==
    ASSUME SagaInv, SagaInv', [Next]_vars, ~StartWhileRunning, ~StaleDeadLetters
    PROVE  [Pipe!Next]_(Pipe!vars)
<1>1. StandsFor /\ StandsFor' /\ TypeOK
  BY Mapped, MappedNext DEF SagaInv
<1>2. /\ "validate_script" \in Steps /\ "synthesize_speech" \in Steps
      /\ "render_scenes" \in Steps /\ "assemble_video" \in Steps
      /\ "publish_video" \in Steps /\ RenderSteps \subseteq Steps
  BY DEF Steps, RenderSteps
<1>3. \A m \in cmds \cup events : m.saga \in Sagas /\ m.step \in Steps
  BY <1>1 DEF TypeOK, Commands, Events
<1>4. \A s \in Steps : StageOf[s] \in 1 .. 5
  BY StageTable DEF Steps, RenderSteps
<1>5. ASSUME UNCHANGED <<status, saga, step>> PROVE UNCHANGED Pipe!vars
  BY <1>5, Unmoved DEF Pipe!vars
<1>6. ASSUME NEW m \in cmds \cup events, Current(m)
      PROVE  status = stepInProgressStatus[m.step]
  BY <1>1, <1>3, <1>6, RunningQuiet DEF Current, SagaInv
<1>7. ASSUME NEW m \in cmds \cup events, Current(m), Fail(step, m.saga, m.step)
      PROVE  Pipe!Next
  BY <1>1, <1>7, <1>3, <1>6, FailsThere DEF Fail, Pipe!Next
<1>8. ASSUME NEW r \in Steps, NEW s \in Steps, status = stepInProgressStatus[r],
             StageOf[s] > StageOf[r],
             status' = stepInProgressStatus[s] \/ status' = FailedStatusForStep[s]
      PROVE  Pipe!Next
  <2>1. Pipe!Advance(StageOf[s]) /\ StageOf[s] \in 1 .. 5
    BY <1>1, <1>8, <1>4, GoesOn
  <2> QED  BY <2>1 DEF Pipe!Next, Pipe!Stages
<1>9. CASE StartRender
  <2>1. status' = stepInProgressStatus["validate_script"] /\ status \notin InFlight
    BY <1>9 DEF StartRender, Open
  <2>2. ModeOf # "running"
    <3>1. status \in Failed \cup Resting
      BY <1>1, <2>1 DEF TypeOK, Statuses
    <3>2. CASE status \in Resting
      BY <1>1, <3>2 DEF StandsFor, Resting
    <3>3. CASE status \in Failed
      <4>1. PICK s \in Steps : status = FailedStatusForStep[s]
        BY <3>3 DEF Failed
      <4> QED  BY <1>1, <4>1, StatusApart DEF StandsFor
    <3> QED  BY <3>1, <3>2, <3>3
  <2>3. ModeOf' = "running" /\ AtOf' = 1 /\ DoneOf' = {}
    BY <1>1, <1>2, <2>1, StageTable DEF StandsFor
  <2> QED  BY <2>2, <2>3 DEF Pipe!Begin, Pipe!Next
<1>10. CASE StartPublish
  <2>1. status = "ready_to_publish" /\ status' = stepInProgressStatus["publish_video"]
    BY <1>10 DEF StartPublish, Open
  <2>2. Pipe!Resume(StageOf["publish_video"])
    BY <1>1, <1>2, <2>1, ResumesAt
  <2> QED  BY <1>2, <1>4, <2>2 DEF Pipe!Next, Pipe!Stages
<1>11. CASE Approve
  <2>1. status = "awaiting_review" /\ AfterValidation(step, saga)
    BY <1>11 DEF Approve
  <2>2. PICK s \in {"synthesize_speech", "render_scenes"} :
           status' = stepInProgressStatus[s] \/ status' = FailedStatusForStep[s]
    BY <2>1, AfterValidationStatus
  <2>3. Pipe!Resume(StageOf[s])
    BY <1>1, <1>2, <2>1, <2>2, ResumesAt
  <2> QED  BY <1>2, <1>4, <2>3 DEF Pipe!Next, Pipe!Stages
<1>12. CASE EditNarration
  <2>1. status = "awaiting_review" /\ status' = stepInProgressStatus["validate_script"]
    BY <1>12, <1>2 DEF EditNarration, stepInProgressStatus
  <2>2. ModeOf = "waiting" /\ AtOf = 1 /\ DoneOf = {1}
    BY <1>1, <2>1 DEF StandsFor
  <2>3. ModeOf' = "running" /\ AtOf' = 1 /\ DoneOf' = {}
    BY <1>1, <1>2, <2>1, StageTable DEF StandsFor
  <2> QED  BY <2>2, <2>3 DEF Pipe!Redo, Pipe!Next
<1>13. CASE Reject
  <2>1. status = "awaiting_review" /\ status' = "draft" /\ UNCHANGED <<saga, step>>
    BY <1>13 DEF Reject
  <2>2. ModeOf = "waiting" /\ ModeOf' = "draft" /\ AtOf' = 0
    BY <1>1, <2>1 DEF StandsFor
  <2>3. UNCHANGED DoneOf
    BY <2>1 DEF DoneOf, RenderRun
  <2> QED  BY <2>2, <2>3 DEF Pipe!Abandon, Pipe!Next
<1>14. ASSUME NEW s \in Steps, RetryStep(s) PROVE Pipe!Next
  <2>1. status = FailedStatusForStep[s] /\ status' = stepInProgressStatus[s]
    BY <1>14 DEF RetryStep, Open
  <2>2. /\ ModeOf = "failed" /\ ModeOf' = "running"
        /\ AtOf' = AtOf /\ DoneOf' = DoneOf
    BY <1>1, <2>1, StatusApart DEF StandsFor
  <2> QED  BY <2>2 DEF Pipe!Retry, Pipe!Next
<1>15. ASSUME NEW s \in Steps, CancelStep(s) PROVE Pipe!Next
  BY <1>1, <1>15, FailsThere DEF CancelStep, Fail, Pipe!Next
<1>16. ASSUME NEW c \in cmds, Answer(c) \/ DropCancelled(c) \/ handleDLQDelivery(c)
      PROVE  [Pipe!Next]_(Pipe!vars)
  BY <1>16, <1>7, <1>5 DEF Answer, DropCancelled, handleDLQDelivery
<1>17. ASSUME NEW e \in events,
             \/ SkipEvent(e) \/ handleEventsDLQDelivery(e) \/ handleFailure(e)
             \/ retryTransientSynthesisFailure(e)
      PROVE  [Pipe!Next]_(Pipe!vars)
  BY <1>17, <1>7, <1>5
  DEF SkipEvent, handleEventsDLQDelivery, handleFailure, retryTransientSynthesisFailure
<1>18. ASSUME NEW e \in events, onScriptValidated(e) PROVE Pipe!Next
  <2>1. Current(e) /\ e.step = "validate_script" /\ status = stepInProgressStatus["validate_script"]
    BY <1>18, <1>6 DEF onScriptValidated, Accepted
  <2>2. CASE Fail(step, e.saga, "validate_script")
    BY <1>7, <2>1, <2>2
  <2>3. CASE status' = "awaiting_review"
    <3>1. ModeOf = "running" /\ AtOf = 1 /\ DoneOf = {}
      BY <1>1, <1>2, <2>1, StageTable DEF StandsFor
    <3>2. ModeOf' = "waiting" /\ AtOf' = 1 /\ DoneOf' = {1}
      BY <1>1, <2>3 DEF StandsFor
    <3> QED  BY <3>1, <3>2 DEF Pipe!Pause, Pipe!Next
  <2>4. CASE AfterValidation(Completed(e), e.saga)
    BY <1>2, <1>8, <2>1, <2>4, AfterValidationStatus, StageTable
  <2> QED  BY <1>18, <2>2, <2>3, <2>4 DEF onScriptValidated
<1>19. ASSUME NEW e \in events, onSpeechSynthesized(e) PROVE Pipe!Next
  <2>1. status = stepInProgressStatus["synthesize_speech"]
    BY <1>19, <1>6 DEF onSpeechSynthesized, Accepted
  <2>2. \/ status' = stepInProgressStatus["render_scenes"]
        \/ status' = FailedStatusForStep["render_scenes"]
    BY <1>19 DEF onSpeechSynthesized, startRenderScenes, Open, Fail
  <2> QED  BY <1>2, <1>8, <2>1, <2>2, StageTable
<1>20. ASSUME NEW e \in events, onRenderingCompleted(e) PROVE Pipe!Next
  <2>1. Current(e) /\ e.step = "render_scenes" /\ status = stepInProgressStatus["render_scenes"]
    BY <1>20, <1>6 DEF onRenderingCompleted, Accepted
  <2>2. CASE Fail(step, e.saga, "render_scenes")
    BY <1>7, <2>1, <2>2
  <2>3. CASE Open(Completed(e), e.saga, "assemble_video")
    <3>1. status' = stepInProgressStatus["assemble_video"]
      BY <2>3 DEF Open
    <3> QED  BY <1>2, <1>8, <2>1, <3>1, StageTable
  <2> QED  BY <1>20, <2>2, <2>3 DEF onRenderingCompleted
<1>21. ASSUME NEW e \in events, onVideoAssembled(e) PROVE Pipe!Next
  <2>1. status = stepInProgressStatus["assemble_video"] /\ status' = "ready_to_publish"
    BY <1>21, <1>6 DEF onVideoAssembled, Accepted
  <2>2. ModeOf = "running" /\ AtOf = 4 /\ DoneOf = 1 .. 3
    BY <1>1, <1>2, <2>1, StageTable DEF StandsFor
  <2>3. ModeOf' = "waiting" /\ AtOf' = 4 /\ DoneOf' = 1 .. 4
    BY <1>1, <2>1 DEF StandsFor
  <2>4. DoneOf' = DoneOf \cup {AtOf}
    BY <2>2, <2>3
  <2> QED  BY <2>2, <2>3, <2>4 DEF Pipe!Pause, Pipe!Next
<1>22. ASSUME NEW e \in events, onVideoPublished(e) PROVE Pipe!Next
  <2>1. status = stepInProgressStatus["publish_video"] /\ status' = "published"
    BY <1>22, <1>6 DEF onVideoPublished, Accepted
  <2>2. ModeOf = "running" /\ AtOf = 5 /\ DoneOf = 1 .. 4
    BY <1>1, <1>2, <2>1, StageTable DEF StandsFor
  <2>3. ModeOf' = "finished" /\ AtOf' = 5 /\ DoneOf' = 1 .. 5
    BY <1>1, <2>1 DEF StandsFor
  <2>4. DoneOf' = DoneOf \cup {AtOf}
    BY <2>2, <2>3
  <2> QED  BY <2>2, <2>3, <2>4 DEF Pipe!Finish, Pipe!Next
<1>23. CASE Tick \/ UNCHANGED vars
  BY <1>23, <1>5 DEF Tick, vars
<1> QED
  BY <1>9, <1>10, <1>11, <1>12, <1>13, <1>14, <1>15, <1>16, <1>17, <1>18, <1>19, <1>20,
     <1>21, <1>22, <1>23, NextCases

\* A new project is a run not begun.
LEMMA InitMaps ==
    ASSUME Init
    PROVE  Pipe!Init
<1>1. status = "draft" /\ saga = 0 /\ \A g \in Sagas, s \in Steps : step[g][s] = "none"
  BY DEF Init
<1>2. ModeOf = "draft" /\ AtOf = 0
  BY <1>1, StatusApart DEF ModeOf, AtOf, InFlight, Failed
<1>3. RenderRun = 0
  BY <1>1 DEF RenderRun, Steps, RenderSteps
<1> QED  BY <1>1, <1>2, <1>3 DEF Pipe!Init, DoneOf

\* Each video is produced stage by stage, every stage on the finished results of
\* those before it, as Pipeline has it: no late answer, retry, cancel or second
\* request makes the handlers leave that order.
THEOREM Implements ==
    ASSUME ~StartWhileRunning, ~StaleDeadLetters
    PROVE  Spec => ImplementsPipeline
<1>1. Init => SagaInv /\ Pipe!Init
  BY TypeInit, RowInit, PipeInit, InitMaps DEF SagaInv
<1>2. SagaInv /\ [Next]_vars => SagaInv'
  BY SagaInvStep
<1>3. SagaInv /\ SagaInv' /\ [Next]_vars => [Pipe!Next]_(Pipe!vars)
  BY StepMaps
<1> QED  BY <1>1, <1>2, <1>3, PTL DEF Spec, ImplementsPipeline, Pipe!Spec

-----------------------------------------------------------------------------
(* What RenderSaga inherits from Pipeline.                                 *)

\* What a step of the pipeline can disturb of its promise.
LEMMA PrefixStep ==
    ASSUME Pipe!PrefixDone, [Pipe!Next]_(Pipe!vars)
    PROVE  Pipe!PrefixDone'
<1>1. CASE Pipe!Begin
  BY <1>1 DEF Pipe!Begin, Pipe!PrefixDone, Pipe!Stages
<1>2. ASSUME NEW i \in Pipe!Stages, Pipe!Resume(i) \/ Pipe!Advance(i) PROVE Pipe!PrefixDone'
  BY <1>2 DEF Pipe!Resume, Pipe!Advance, Pipe!PrefixDone, Pipe!Stages
<1>3. CASE Pipe!Redo
  <2>1. AtOf \in 1 .. 5 /\ DoneOf = 1 .. AtOf
    BY <1>3 DEF Pipe!Redo, Pipe!PrefixDone, Pipe!Stages
  <2>2. (1 .. AtOf) \ {AtOf} = 1 .. (AtOf - 1)
    BY <2>1
  <2> QED  BY <1>3, <2>1, <2>2 DEF Pipe!Redo, Pipe!PrefixDone, Pipe!Stages
<1>4. CASE Pipe!Retry \/ Pipe!Abandon
  BY <1>4 DEF Pipe!Retry, Pipe!Abandon, Pipe!PrefixDone, Pipe!Stages
<1>5. CASE Pipe!Fail
  BY <1>5 DEF Pipe!Fail, Pipe!PrefixDone, Pipe!Stages
<1>6. CASE Pipe!Pause \/ Pipe!Finish
  <2>1. AtOf \in 1 .. 5 /\ DoneOf = 1 .. (AtOf - 1)
    BY <1>6 DEF Pipe!Pause, Pipe!Finish, Pipe!PrefixDone, Pipe!Stages
  <2>2. (1 .. (AtOf - 1)) \cup {AtOf} = 1 .. AtOf
    BY <2>1
  <2> QED  BY <1>6, <2>1, <2>2 DEF Pipe!Pause, Pipe!Finish, Pipe!PrefixDone, Pipe!Stages
<1>7. CASE UNCHANGED Pipe!vars
  BY <1>7 DEF Pipe!vars, Pipe!PrefixDone, Pipe!Stages
<1> QED  BY <1>1, <1>2, <1>3, <1>4, <1>5, <1>6, <1>7 DEF Pipe!Next

\* A stage that runs or is to be retried stands on the results of exactly the stages
\* before it, and a video that waits or is published has its own stage's too: nothing
\* is produced from a missing or a left-over result.
THEOREM PrefixStands ==
    ASSUME ~StartWhileRunning, ~StaleDeadLetters
    PROVE  Spec => []Pipe!PrefixDone
<1>1. Pipe!Init => Pipe!PrefixDone
  BY DEF Pipe!Init, Pipe!PrefixDone
<1>2. Spec => Pipe!Spec
  BY Implements DEF ImplementsPipeline
<1> QED  BY <1>1, <1>2, PrefixStep, PTL DEF Pipe!Spec

-----------------------------------------------------------------------------
(* The delete of a project: the invariant.                                 *)

PurgeCommand ==
    [id : Nat, kind : {"work", "purge"}, to : PurgeTargets, saga : Deletion!Sagas, at : Nat]
HeldCommand == [cmd : PurgeCommand, at : {"begun", "purged", "unable", "written"}]
PurgeAnswer ==
    [id : Nat, from : PurgeTargets, saga : Deletion!Sagas, ok : BOOLEAN,
     at : {"new", "recorded", "deleting"}]

\* Every saga id the row or the request shows is one of those generated.
RowOfSagas ==
    /\ projectRow \in [status : Deletion!Statuses, saga : Nat, sagas : Nat]
    /\ projectRow.saga <= projectRow.sagas /\ projectRow.sagas <= moves
    /\ moves \in Nat /\ moves <= MaxDeletes
    /\ deleteRequest \in [saga : Nat, todo : SUBSET PurgeTargets, stepped : SUBSET PurgeTargets]
    /\ deleteRequest.stepped \subseteq deleteRequest.todo
    /\ deleteRequest.todo # {} => deleteRequest.saga \in Deletion!Sagas

\* Whatever is on its way to a worker or held by one is a command of such a saga.
CommandsOfSagas ==
    /\ purgeSent \in Nat /\ clock \in Nat /\ outbox \subseteq PurgeCommand
    /\ queue \in [PurgeTargets -> Seq(PurgeCommand)]
    /\ held \in [PurgeTargets -> SUBSET HeldCommand]
    /\ \A w \in PurgeTargets : IsFiniteSet(held[w])

\* What is said of a purge is so: by the worker that did it, by its answer, by the
\* step, and by the answer that found every step completed.
PurgesAreTrue ==
    /\ purged \in [Deletion!Sagas -> SUBSET PurgeTargets]
    /\ purgeAnswers \subseteq PurgeAnswer
    /\ purgeSteps \in [Deletion!Sagas ->
                          [PurgeTargets -> {"none", "in_progress", "completed", "failed"}]]
    /\ \A w \in PurgeTargets : \A h \in held[w] : h.at = "purged" => w \in purged[h.cmd.saga]
    /\ \A e \in purgeAnswers :
          /\ e.ok => e.from \in purged[e.saga]
          /\ e.at = "deleting" => purged[e.saga] = PurgeTargets
    /\ \A g \in Deletion!Sagas, w \in PurgeTargets :
          purgeSteps[g][w] = "completed" => w \in purged[g]

DeletionInv == RowOfSagas /\ CommandsOfSagas /\ PurgesAreTrue

LEMMA DeletionInit ==
    ASSUME Deletion!Init PROVE DeletionInv
<1> USE DEF Deletion!Init
<1>1. RowOfSagas
  BY DeletionAssumption DEF RowOfSagas, Deletion!NoRequest, Deletion!BoundsAssumption, Deletion!Statuses
<1>2. CommandsOfSagas
  BY FS_EmptySet DEF CommandsOfSagas
<1>3. PurgesAreTrue
  BY DEF PurgesAreTrue
<1> QED  BY <1>1, <1>2, <1>3 DEF DeletionInv

\* Sagas are numbered within the bound.
LEMMA FreshSaga ==
    ASSUME RowOfSagas, Deletion!Moves
    PROVE  /\ projectRow.sagas + 1 \in Deletion!Sagas /\ projectRow.sagas + 1 <= moves'
           /\ moves' \in Nat /\ moves' <= MaxDeletes
           /\ projectRow.saga # 0 => projectRow.saga \in Deletion!Sagas
BY DeletionAssumption DEF RowOfSagas, Deletion!Moves, Deletion!Sagas, Deletion!BoundsAssumption

-----------------------------------------------------------------------------
(* The delete of a project: the steps.                                     *)

\* The row and the request.
LEMMA ProjectRowStep ==
    ASSUME DeletionInv, [Deletion!Next]_(Deletion!vars) PROVE RowOfSagas'
<1> USE DEF DeletionInv, RowOfSagas
<1>1. ASSUME NEW w \in PurgeTargets, Deletion!StartRender(w) PROVE RowOfSagas'
  <2>1. /\ projectRow' = [status |-> "rendering", saga |-> projectRow.sagas + 1,
                          sagas |-> projectRow.sagas + 1]
        /\ Deletion!Moves /\ UNCHANGED deleteRequest
    BY <1>1 DEF Deletion!StartRender
  <2>2. /\ projectRow.sagas + 1 <= moves' /\ projectRow.sagas + 1 \in Nat
        /\ moves' \in Nat /\ moves' <= MaxDeletes
    BY <2>1, FreshSaga
  <2> DEFINE n == projectRow.sagas + 1
  <2>3. n \in Nat /\ n <= moves' /\ moves' \in Nat /\ moves' <= MaxDeletes
    BY <2>2
  <2>4. projectRow' = [status |-> "rendering", saga |-> n, sagas |-> n] /\ UNCHANGED deleteRequest
    BY <2>1
  <2> HIDE DEF n
  <2>5. projectRow' \in [status : Deletion!Statuses, saga : Nat, sagas : Nat]
    BY <2>3, <2>4 DEF Deletion!Statuses
  <2>6. projectRow'.saga <= projectRow'.sagas /\ projectRow'.sagas <= moves'
    BY <2>3, <2>4
  <2> QED  BY <2>3, <2>4, <2>5, <2>6
<1>2. ASSUME Deletion!Cancel PROVE RowOfSagas'
  BY <1>2 DEF Deletion!Cancel, Deletion!bounds, Deletion!Statuses
<1>3. ASSUME Deletion!BeginDelete PROVE RowOfSagas'
  <2> DEFINE fresh == IF projectRow.saga = 0 THEN projectRow.sagas + 1 ELSE projectRow.saga
             last == IF fresh > projectRow.sagas THEN fresh ELSE projectRow.sagas
  <2>1. /\ projectRow' = [status |-> "deleting", saga |-> fresh, sagas |-> last]
        /\ deleteRequest' = [saga |-> fresh, todo |-> PurgeTargets, stepped |-> {}]
        /\ Deletion!Moves
    BY <1>3 DEF Deletion!BeginDelete
  <2>2. /\ fresh \in Deletion!Sagas /\ fresh \in Nat /\ last \in Nat
        /\ fresh <= last /\ last <= moves'
    BY <2>1, FreshSaga DEF Deletion!Sagas, Deletion!Moves
  <2> HIDE DEF fresh, last
  <2> QED  BY <2>1, <2>2, FreshSaga DEF Deletion!Statuses
<1>4. ASSUME Deletion!UpdatePurgeStep PROVE RowOfSagas'
  <2> DEFINE w == CHOOSE x \in deleteRequest.todo : TRUE
  <2>1. /\ deleteRequest.todo # {} /\ deleteRequest' = [deleteRequest EXCEPT !.stepped = {w}]
        /\ UNCHANGED <<projectRow, moves>>
    BY <1>4 DEF Deletion!UpdatePurgeStep, Deletion!bounds
  <2>2. w \in deleteRequest.todo
    BY <2>1
  <2> HIDE DEF w
  <2> QED  BY <2>1, <2>2
<1>5. ASSUME Deletion!PublishPurge PROVE RowOfSagas'
  <2>1. PICK w \in deleteRequest.stepped :
           /\ deleteRequest' = IF deleteRequest.todo = {w} THEN Deletion!NoRequest
                               ELSE [deleteRequest EXCEPT !.todo = @ \ {w}, !.stepped = {}]
           /\ UNCHANGED <<projectRow, moves>>
    BY <1>5 DEF Deletion!PublishPurge, Deletion!bounds
  <2>2. CASE deleteRequest' = Deletion!NoRequest
    BY <2>1, <2>2 DEF Deletion!NoRequest
  <2>3. CASE deleteRequest' = [deleteRequest EXCEPT !.todo = @ \ {w}, !.stepped = {}]
    BY <2>1, <2>3
  <2> QED  BY <2>1, <2>2, <2>3
<1>6. ASSUME NEW w \in PurgeTargets, Deletion!EndWork(w) PROVE RowOfSagas'
  <2>1. /\ projectRow' \in {projectRow, [projectRow EXCEPT !.status = "ready"]}
        /\ UNCHANGED <<deleteRequest, moves>>
    BY <1>6 DEF Deletion!EndWork, Deletion!bounds
  <2> QED  BY <2>1 DEF Deletion!Statuses
<1>7. ASSUME NEW e \in purgeAnswers, Deletion!Delete(e) PROVE RowOfSagas'
  <2>1. /\ projectRow' \in {projectRow, [projectRow EXCEPT !.status = "gone"]}
        /\ UNCHANGED <<deleteRequest, moves>>
    BY <1>7 DEF Deletion!Delete, Deletion!bounds
  <2> QED  BY <2>1 DEF Deletion!Statuses
<1>8. ASSUME NEW w \in PurgeTargets, Deletion!DeadLetter(w) PROVE RowOfSagas'
  <2>1. /\ projectRow' \in {projectRow, [projectRow EXCEPT !.status = ""]}
        /\ Deletion!Moves /\ UNCHANGED deleteRequest
    BY <1>8 DEF Deletion!DeadLetter
  <2>2. moves' = moves + 1 /\ moves < MaxDeletes
    BY <2>1 DEF Deletion!Moves
  <2>3. MaxDeletes \in Nat
    BY DeletionAssumption DEF Deletion!BoundsAssumption
  <2>4. /\ projectRow' \in [status : Deletion!Statuses, saga : Nat, sagas : Nat]
        /\ projectRow'.saga = projectRow.saga /\ projectRow'.sagas = projectRow.sagas
    BY <2>1 DEF Deletion!Statuses
  <2>5. moves' \in Nat /\ moves' <= MaxDeletes /\ projectRow.sagas <= moves'
    BY <2>2, <2>3
  <2> QED  BY <2>1, <2>4, <2>5
<1>9. ASSUME NEW w \in PurgeTargets, Deletion!RestartWorker(w) PROVE RowOfSagas'
  <2>1. Deletion!Moves /\ UNCHANGED <<projectRow, deleteRequest>>
    BY <1>9 DEF Deletion!RestartWorker
  <2> QED  BY <2>1, FreshSaga DEF Deletion!Moves
<1>10. ASSUME Deletion!RestartOrchestrator PROVE RowOfSagas'
  <2>1. Deletion!Moves /\ deleteRequest' = Deletion!NoRequest /\ UNCHANGED projectRow
    BY <1>10 DEF Deletion!RestartOrchestrator
  <2> QED  BY <2>1, FreshSaga DEF Deletion!Moves, Deletion!NoRequest
<1>11. CASE UNCHANGED <<projectRow, deleteRequest, moves>>
  BY <1>11
<1> QED
  BY <1>1, <1>2, <1>3, <1>4, <1>5, <1>6, <1>7, <1>8, <1>9, <1>10, <1>11
  DEF Deletion!Next, Deletion!vars, Deletion!bounds, Deletion!Execute, Deletion!Relay, Deletion!Work,
      Deletion!Tick, Deletion!Publish, Deletion!MarkPublished, Deletion!Take, Deletion!Purge,
      Deletion!Answer, Deletion!Write, Deletion!HandlePurgeEvent, Deletion!RecordAnswer,
      Deletion!CheckSteps

\* The commands, and what a worker holds.
LEMMA CommandsStep ==
    ASSUME DeletionInv, [Deletion!Next]_(Deletion!vars) PROVE CommandsOfSagas'
<1> USE DEF DeletionInv, CommandsOfSagas
<1>1. ASSUME NEW kind \in {"work", "purge"}, NEW w \in PurgeTargets, NEW g \in Deletion!Sagas,
             Deletion!PublishCommand(kind, w, g), UNCHANGED <<queue, held, clock>>
      PROVE  CommandsOfSagas'
  <2> DEFINE c == [id |-> purgeSent + 1, kind |-> kind, to |-> w, saga |-> g, at |-> clock]
  <2>1. outbox' = outbox \cup {c} /\ purgeSent' = purgeSent + 1
    BY <1>1 DEF Deletion!PublishCommand
  <2>2. c \in PurgeCommand
    BY DEF PurgeCommand
  <2> HIDE DEF c
  <2> QED  BY <1>1, <2>1, <2>2
<1>2. ASSUME NEW w \in PurgeTargets, Deletion!StartRender(w) PROVE CommandsOfSagas'
  <2>1. /\ Deletion!PublishCommand("work", w, projectRow.sagas + 1)
        /\ Deletion!Moves /\ UNCHANGED <<queue, held, clock>>
    BY <1>2 DEF Deletion!StartRender, Deletion!worker
  <2> QED  BY <1>1, <2>1, FreshSaga
<1>3. ASSUME Deletion!PublishPurge PROVE CommandsOfSagas'
  <2>1. PICK w \in deleteRequest.stepped :
           /\ Deletion!PublishCommand("purge", w, deleteRequest.saga)
           /\ UNCHANGED <<queue, held, clock>>
    BY <1>3 DEF Deletion!PublishPurge, Deletion!worker, Deletion!bounds
  <2>2. w \in PurgeTargets /\ deleteRequest.saga \in Deletion!Sagas
    BY DEF RowOfSagas
  <2> QED  BY <1>1, <2>1, <2>2
<1>4. ASSUME NEW c \in outbox, Deletion!Publish(c) PROVE CommandsOfSagas'
  <2>1. /\ queue' = [queue EXCEPT ![c.to] = Append(@, c)]
        /\ UNCHANGED <<outbox, held, clock, purgeSent>>
    BY <1>4 DEF Deletion!Publish, Deletion!bounds
  <2>2. c \in PurgeCommand /\ c.to \in PurgeTargets
    BY DEF PurgeCommand
  <2> QED  BY <2>1, <2>2
<1>5. ASSUME Deletion!MarkPublished PROVE CommandsOfSagas'
  BY <1>5 DEF Deletion!MarkPublished, Deletion!worker, Deletion!bounds
<1>6. ASSUME NEW w \in PurgeTargets, NEW more \in SUBSET HeldCommand, IsFiniteSet(more),
             held' = [held EXCEPT ![w] = more], UNCHANGED <<outbox, clock, purgeSent>>,
             queue' \in [PurgeTargets -> Seq(PurgeCommand)]
      PROVE  CommandsOfSagas'
  BY <1>6
<1>7. ASSUME NEW w \in PurgeTargets, Deletion!Take(w) PROVE CommandsOfSagas'
  <2> DEFINE c == Head(queue[w])
             h == [cmd |-> c, at |-> "begun"]
  <2>1. /\ queue[w] # <<>> /\ queue' = [queue EXCEPT ![w] = Tail(@)]
        /\ held' \in {held, [held EXCEPT ![w] = @ \cup {h}]}
        /\ UNCHANGED <<outbox, clock, purgeSent>>
    BY <1>7 DEF Deletion!Take, Deletion!bounds
  <2>2. queue[w] \in Seq(PurgeCommand)
    OBVIOUS
  <2>3. c \in PurgeCommand /\ Tail(queue[w]) \in Seq(PurgeCommand)
    BY <2>1, <2>2
  <2>4. h \in HeldCommand
    BY <2>3 DEF HeldCommand
  <2>5. queue' \in [PurgeTargets -> Seq(PurgeCommand)]
    BY <2>1, <2>3
  <2> HIDE DEF c, h
  <2>6. IsFiniteSet(held[w] \cup {h}) /\ held[w] \cup {h} \in SUBSET HeldCommand
    BY <2>4, FS_AddElement
  <2>7. CASE held' = held
    BY <2>1, <2>5, <2>7
  <2>8. CASE held' = [held EXCEPT ![w] = held[w] \cup {h}]
    BY <1>6, <2>1, <2>5, <2>6, <2>8
  <2> QED  BY <2>1, <2>7, <2>8
<1>8. ASSUME NEW w \in PurgeTargets, NEW h \in held[w], NEW at \in {"purged", "unable", "written"},
             Deletion!Get(w, h, at), UNCHANGED <<outbox, clock, purgeSent, queue>>
      PROVE  CommandsOfSagas'
  <2> DEFINE more == (held[w] \ {h}) \cup {[h EXCEPT !.at = at]}
  <2>1. held' = [held EXCEPT ![w] = more]
    BY <1>8 DEF Deletion!Get
  <2>2. h \in HeldCommand
    OBVIOUS
  <2>3. [h EXCEPT !.at = at] \in HeldCommand
    BY <2>2 DEF HeldCommand
  <2>4. IsFiniteSet(more)
    BY FS_RemoveElement, FS_AddElement
  <2>5. more \in SUBSET HeldCommand
    BY <2>3
  <2> HIDE DEF more
  <2> QED  BY <1>6, <1>8, <2>1, <2>4, <2>5
<1>9. ASSUME NEW w \in PurgeTargets, Deletion!Purge(w) PROVE CommandsOfSagas'
  <2>1. PICK h \in held[w] :
           /\ Deletion!Get(w, h, "purged") \/ Deletion!Get(w, h, "unable")
           /\ UNCHANGED <<outbox, clock, purgeSent, queue>>
    BY <1>9 DEF Deletion!Purge, Deletion!bounds
  <2> QED  BY <1>8, <2>1
<1>10. ASSUME NEW w \in PurgeTargets, Deletion!Write(w) PROVE CommandsOfSagas'
  <2>1. PICK h \in held[w] :
           Deletion!Get(w, h, "written") /\ UNCHANGED <<outbox, clock, purgeSent, queue>>
    BY <1>10 DEF Deletion!Write, Deletion!bounds
  <2> QED  BY <1>8, <2>1
<1>11. ASSUME NEW w \in PurgeTargets, Deletion!Answer(w) \/ Deletion!EndWork(w) \/ Deletion!DeadLetter(w)
       PROVE  CommandsOfSagas'
  <2>1. PICK h \in held[w] :
           held' = [held EXCEPT ![w] = held[w] \ {h}] /\ UNCHANGED <<outbox, clock, purgeSent, queue>>
    BY <1>11 DEF Deletion!Answer, Deletion!EndWork, Deletion!DeadLetter, Deletion!bounds
  <2>2. IsFiniteSet(held[w] \ {h}) /\ held[w] \ {h} \in SUBSET HeldCommand
    BY FS_RemoveElement
  <2> QED  BY <1>6, <2>1, <2>2
<1>12. ASSUME NEW w \in PurgeTargets, Deletion!RestartWorker(w) PROVE CommandsOfSagas'
  <2> DEFINE n == Deletion!Cardinality(held[w])
  <2>1. PICK back \in [1 .. n -> {h.cmd : h \in held[w]}] :
           queue' = [queue EXCEPT ![w] = back \o @]
    BY <1>12 DEF Deletion!RestartWorker
  <2>2. held' = [held EXCEPT ![w] = {}] /\ UNCHANGED <<outbox, clock, purgeSent>>
    BY <1>12 DEF Deletion!RestartWorker
  <2>3. n = Cardinality(held[w])
    BY DEF Deletion!Cardinality, Cardinality, Deletion!IsFiniteSet, IsFiniteSet
  <2>4. n \in Nat
    BY <2>3, FS_CardinalityType
  <2> HIDE DEF n
  <2>5. {h.cmd : h \in held[w]} \subseteq PurgeCommand
    BY DEF HeldCommand
  <2>6. back \in Seq(PurgeCommand)
    BY <2>4, <2>5
  <2>7. queue' \in [PurgeTargets -> Seq(PurgeCommand)]
    BY <2>1, <2>6
  <2> QED  BY <1>6, <2>2, <2>7, FS_EmptySet
<1>13. ASSUME NEW e \in purgeAnswers, Deletion!Delete(e) PROVE CommandsOfSagas'
  BY <1>13 DEF Deletion!Delete, Deletion!worker, Deletion!bounds
<1>14. ASSUME Deletion!Tick PROVE CommandsOfSagas'
  BY <1>14 DEF Deletion!Tick, Deletion!worker
<1>15. CASE UNCHANGED <<outbox, queue, held, clock, purgeSent>>
  BY <1>15
<1> QED
  BY <1>2, <1>3, <1>4, <1>5, <1>7, <1>9, <1>10, <1>11, <1>12, <1>13, <1>14, <1>15
  DEF Deletion!Next, Deletion!vars, Deletion!bounds, Deletion!worker, Deletion!Execute, Deletion!Relay,
      Deletion!Work, Deletion!Cancel, Deletion!BeginDelete, Deletion!UpdatePurgeStep,
      Deletion!HandlePurgeEvent, Deletion!RecordAnswer, Deletion!CheckSteps,
      Deletion!RestartOrchestrator

\* What is said of the purges; a history only grows.
LEMMA PurgesStep ==
    ASSUME DeletionInv, [Deletion!Next]_(Deletion!vars) PROVE PurgesAreTrue'
<1>1. /\ RowOfSagas /\ CommandsOfSagas /\ PurgesAreTrue
      /\ held \in [PurgeTargets -> SUBSET HeldCommand]
  BY DEF DeletionInv, CommandsOfSagas
<1> USE DEF PurgesAreTrue
<1>2. ASSUME NEW w \in PurgeTargets, NEW more \in SUBSET HeldCommand,
             held' = [held EXCEPT ![w] = more], UNCHANGED <<purged, purgeAnswers, purgeSteps>>,
             \A h \in more : h.at = "purged" => w \in purged[h.cmd.saga]
      PROVE  PurgesAreTrue'
  <2>1. \A v \in PurgeTargets : held'[v] = IF v = w THEN more ELSE held[v]
    BY <1>1, <1>2
  <2> QED  BY <1>1, <1>2, <2>1
<1>3. ASSUME NEW w \in PurgeTargets, Deletion!Take(w) PROVE PurgesAreTrue'
  <2> DEFINE c == Head(queue[w])
             h == [cmd |-> c, at |-> "begun"]
  <2>1. /\ queue[w] # <<>> /\ held' \in {held, [held EXCEPT ![w] = @ \cup {h}]}
        /\ UNCHANGED <<purged, purgeAnswers, purgeSteps>>
    BY <1>3 DEF Deletion!Take
  <2>2. queue[w] \in Seq(PurgeCommand)
    BY <1>1 DEF CommandsOfSagas
  <2>3. c \in PurgeCommand
    BY <2>1, <2>2
  <2>4. h \in HeldCommand /\ h.at # "purged"
    BY <2>3 DEF HeldCommand
  <2> HIDE DEF c, h
  <2>5. CASE held' = held
    BY <1>1, <2>1, <2>5
  <2>6. CASE held' = [held EXCEPT ![w] = held[w] \cup {h}]
    BY <1>1, <1>2, <2>1, <2>4, <2>6
  <2> QED  BY <2>1, <2>5, <2>6
<1>4. ASSUME NEW w \in PurgeTargets, Deletion!Purge(w) PROVE PurgesAreTrue'
  <2>1. PICK h \in held[w] :
           /\ \/ /\ Deletion!Get(w, h, "purged")
                 /\ purged' = [purged EXCEPT ![h.cmd.saga] = @ \cup {w}]
              \/ Deletion!Get(w, h, "unable") /\ UNCHANGED purged
           /\ UNCHANGED <<purgeAnswers, purgeSteps>>
    BY <1>4 DEF Deletion!Purge
  <2>2. h \in HeldCommand /\ h.cmd.saga \in Deletion!Sagas
    BY <1>1 DEF HeldCommand, PurgeCommand
  <2> DEFINE g == h.cmd.saga
  <2>3. CASE Deletion!Get(w, h, "unable") /\ UNCHANGED purged
    <3>1. held' = [held EXCEPT ![w] = (held[w] \ {h}) \cup {[h EXCEPT !.at = "unable"]}]
      BY <2>3 DEF Deletion!Get
    <3>2. [h EXCEPT !.at = "unable"] \in HeldCommand /\ [h EXCEPT !.at = "unable"].at # "purged"
      BY <2>2 DEF HeldCommand
    <3> DEFINE more == (held[w] \ {h}) \cup {[h EXCEPT !.at = "unable"]}
    <3>3. more \in SUBSET HeldCommand /\ \A k \in more : k.at = "purged" => w \in purged[k.cmd.saga]
      BY <1>1, <3>2
    <3>4. held' = [held EXCEPT ![w] = more]
      BY <3>1
    <3> HIDE DEF more
    <3> QED  BY <1>2, <2>1, <2>3, <3>3, <3>4
  <2>4. CASE Deletion!Get(w, h, "purged") /\ purged' = [purged EXCEPT ![g] = @ \cup {w}]
    <3> DEFINE done == [h EXCEPT !.at = "purged"]
    <3>1. held' = [held EXCEPT ![w] = (held[w] \ {h}) \cup {done}]
      BY <2>4 DEF Deletion!Get
    <3>2. done \in HeldCommand /\ done.cmd = h.cmd
      BY <2>2 DEF HeldCommand
    <3> HIDE DEF done
    <3>3. /\ purged' \in [Deletion!Sagas -> SUBSET PurgeTargets]
          /\ w \in purged'[g] /\ \A k \in Deletion!Sagas : purged[k] \subseteq purged'[k]
      BY <1>1, <2>2, <2>4
    <3>4. \A v \in PurgeTargets : \A k \in held[v] : k.cmd.saga \in Deletion!Sagas
      BY <1>1 DEF HeldCommand, PurgeCommand
    <3>5. \A v \in PurgeTargets : \A k \in held'[v] :
             k \in held[v] \/ (v = w /\ k = done)
      BY <1>1, <3>1
    <3>6. \A v \in PurgeTargets : \A k \in held'[v] : k.at = "purged" => v \in purged'[k.cmd.saga]
      BY <1>1, <3>2, <3>3, <3>4, <3>5
    <3>7. \A e \in purgeAnswers : e.saga \in Deletion!Sagas
      BY <1>1 DEF PurgeAnswer
    <3>8. \A e \in purgeAnswers :
             /\ e.ok => e.from \in purged'[e.saga]
             /\ e.at = "deleting" => purged'[e.saga] = PurgeTargets
      BY <1>1, <3>3, <3>7
    <3> QED  BY <1>1, <2>1, <3>3, <3>6, <3>8
  <2> QED  BY <2>1, <2>3, <2>4
<1>5. ASSUME NEW w \in PurgeTargets, Deletion!Answer(w) PROVE PurgesAreTrue'
  <2>1. PICK h \in held[w] :
           /\ h.at \in {"purged", "unable"}
           /\ held' = [held EXCEPT ![w] = held[w] \ {h}]
           /\ purgeAnswers' \in {purgeAnswers, purgeAnswers \cup
                 {[id |-> h.cmd.id, from |-> w, saga |-> h.cmd.saga, ok |-> h.at = "purged",
                   at |-> "new"]}}
           /\ UNCHANGED <<purged, purgeSteps>>
    BY <1>5 DEF Deletion!Answer
  <2> DEFINE e == [id |-> h.cmd.id, from |-> w, saga |-> h.cmd.saga, ok |-> h.at = "purged",
                   at |-> "new"]
  <2>2. h \in HeldCommand /\ h.cmd \in PurgeCommand
    BY <1>1 DEF HeldCommand
  <2>3. e \in PurgeAnswer /\ e.from = w /\ e.saga = h.cmd.saga /\ e.at = "new"
    BY <2>2 DEF PurgeCommand, PurgeAnswer
  <2>4. e.ok => h.at = "purged"
    OBVIOUS
  <2>5. purgeAnswers' \in {purgeAnswers, purgeAnswers \cup {e}}
    BY <2>1
  <2> HIDE DEF e
  <2>6. /\ purgeAnswers' \subseteq PurgeAnswer
        /\ \A a \in purgeAnswers' : a \in purgeAnswers \/ a = e
    BY <1>1, <2>3, <2>5
  <2>7. \A a \in purgeAnswers' : /\ a.ok => a.from \in purged[a.saga]
                                 /\ a.at = "deleting" => purged[a.saga] = PurgeTargets
    BY <1>1, <2>3, <2>4, <2>6
  <2>8. \A v \in PurgeTargets : held'[v] \subseteq held[v]
    BY <1>1, <2>1
  <2> QED  BY <1>1, <2>1, <2>6, <2>7, <2>8
<1>6. ASSUME NEW w \in PurgeTargets, Deletion!Write(w) PROVE PurgesAreTrue'
  <2>1. PICK h \in held[w] :
           Deletion!Get(w, h, "written") /\ UNCHANGED <<purged, purgeAnswers, purgeSteps>>
    BY <1>6 DEF Deletion!Write
  <2>2. h \in HeldCommand
    BY <1>1
  <2>3. held' = [held EXCEPT ![w] = (held[w] \ {h}) \cup {[h EXCEPT !.at = "written"]}]
    BY <2>1 DEF Deletion!Get
  <2>4. [h EXCEPT !.at = "written"] \in HeldCommand /\ [h EXCEPT !.at = "written"].at # "purged"
    BY <2>2 DEF HeldCommand
  <2> DEFINE more == (held[w] \ {h}) \cup {[h EXCEPT !.at = "written"]}
  <2>5. more \in SUBSET HeldCommand /\ \A k \in more : k.at = "purged" => w \in purged[k.cmd.saga]
    BY <1>1, <2>4
  <2>6. held' = [held EXCEPT ![w] = more]
    BY <2>3
  <2> HIDE DEF more
  <2> QED  BY <1>2, <2>1, <2>5, <2>6
<1>7. ASSUME NEW w \in PurgeTargets,
             Deletion!EndWork(w) \/ Deletion!DeadLetter(w) \/ Deletion!RestartWorker(w)
      PROVE  PurgesAreTrue'
  <2>1. /\ UNCHANGED <<purged, purgeAnswers, purgeSteps>>
        /\ \/ \E h \in held[w] : held' = [held EXCEPT ![w] = held[w] \ {h}]
           \/ held' = [held EXCEPT ![w] = {}]
    BY <1>7 DEF Deletion!EndWork, Deletion!DeadLetter, Deletion!RestartWorker
  <2>2. \A v \in PurgeTargets : held'[v] \subseteq held[v]
    BY <1>1, <2>1
  <2> QED  BY <1>1, <2>1, <2>2
<1>8. ASSUME Deletion!UpdatePurgeStep PROVE PurgesAreTrue'
  <2> DEFINE w == CHOOSE x \in deleteRequest.todo : TRUE
             g == deleteRequest.saga
  <2>1. /\ deleteRequest.todo # {} /\ purgeSteps' = [purgeSteps EXCEPT ![g][w] = "in_progress"]
        /\ UNCHANGED <<purged, purgeAnswers, held>>
    BY <1>8 DEF Deletion!UpdatePurgeStep, Deletion!worker
  <2>2. w \in PurgeTargets /\ g \in Deletion!Sagas
    BY <1>1, <2>1 DEF RowOfSagas
  <2> HIDE DEF w, g
  <2>3. /\ purgeSteps' \in [Deletion!Sagas ->
                               [PurgeTargets -> {"none", "in_progress", "completed", "failed"}]]
        /\ \A k \in Deletion!Sagas, v \in PurgeTargets :
              purgeSteps'[k][v] = "completed" => purgeSteps[k][v] = "completed"
    BY <1>1, <2>1, <2>2
  <2> QED  BY <1>1, <2>1, <2>3
<1>9. ASSUME NEW e \in purgeAnswers, NEW at \in {"new", "recorded", "deleting"},
             Deletion!Acked(e) \/ Deletion!Reached(e, at),
             at = "deleting" => purged[e.saga] = PurgeTargets,
             UNCHANGED <<purged, held>>,
             /\ purgeSteps' \in [Deletion!Sagas ->
                                    [PurgeTargets -> {"none", "in_progress", "completed", "failed"}]]
             /\ \A k \in Deletion!Sagas, v \in PurgeTargets :
                   purgeSteps'[k][v] = "completed" =>
                      purgeSteps[k][v] = "completed" \/ (k = e.saga /\ v = e.from /\ e.ok)
      PROVE  PurgesAreTrue'
  <2> DEFINE f == [e EXCEPT !.at = at]
  <2>1. e \in PurgeAnswer
    BY <1>1
  <2>2. /\ f \in PurgeAnswer /\ f.at = at /\ f.from = e.from /\ f.saga = e.saga /\ f.ok = e.ok
    BY <2>1 DEF PurgeAnswer
  <2>3. \A a \in purgeAnswers' : a \in purgeAnswers \/ a = f
    BY <1>9 DEF Deletion!Acked, Deletion!Reached
  <2> HIDE DEF f
  <2>4. /\ purgeAnswers' \subseteq PurgeAnswer
        /\ \A a \in purgeAnswers' : /\ a.ok => a.from \in purged[a.saga]
                                    /\ a.at = "deleting" => purged[a.saga] = PurgeTargets
    BY <1>1, <1>9, <2>2, <2>3
  <2>5. \A k \in Deletion!Sagas, v \in PurgeTargets :
           purgeSteps'[k][v] = "completed" => v \in purged[k]
    BY <1>1, <1>9
  <2> QED  BY <1>1, <1>9, <2>4, <2>5
<1>10. ASSUME NEW e \in purgeAnswers, Deletion!RecordAnswer(e) PROVE PurgesAreTrue'
  <2>1. /\ \/ e.ok /\ Deletion!SetStep(e, "completed") /\ Deletion!Reached(e, "recorded")
           \/ ~e.ok /\ Deletion!SetStep(e, "failed") /\ Deletion!Acked(e)
        /\ UNCHANGED <<purged, held>>
    BY <1>10 DEF Deletion!RecordAnswer, Deletion!PurgeFailed, Deletion!worker
  <2>2. e.saga \in Deletion!Sagas /\ e.from \in PurgeTargets
    BY <1>1 DEF PurgeAnswer
  <2>3. /\ purgeSteps' \in [Deletion!Sagas ->
                               [PurgeTargets -> {"none", "in_progress", "completed", "failed"}]]
        /\ \A k \in Deletion!Sagas, v \in PurgeTargets :
              purgeSteps'[k][v] = "completed" =>
                 purgeSteps[k][v] = "completed" \/ (k = e.saga /\ v = e.from /\ e.ok)
    <3>1. PICK st \in {"completed", "failed"} :
             /\ purgeSteps' = [purgeSteps EXCEPT ![e.saga][e.from] = st]
             /\ st = "completed" => e.ok
      BY <2>1 DEF Deletion!SetStep
    <3>2. \A k \in Deletion!Sagas, v \in PurgeTargets :
             purgeSteps'[k][v] = IF k = e.saga /\ v = e.from THEN st ELSE purgeSteps[k][v]
      BY <1>1, <2>2, <3>1
    <3>3. purgeSteps' \in [Deletion!Sagas ->
                              [PurgeTargets -> {"none", "in_progress", "completed", "failed"}]]
      BY <1>1, <2>2, <3>1
    <3> QED  BY <3>1, <3>2, <3>3
  <2> QED  BY <1>9, <2>1, <2>3
<1>11. ASSUME NEW e \in purgeAnswers, Deletion!CheckSteps(e) PROVE PurgesAreTrue'
  <2>1. /\ IF Deletion!AllCompleted(e.saga) THEN Deletion!Reached(e, "deleting") ELSE Deletion!Acked(e)
        /\ UNCHANGED <<purged, held, purgeSteps>>
    BY <1>11 DEF Deletion!CheckSteps, Deletion!worker
  <2>2. e.saga \in Deletion!Sagas
    BY <1>1 DEF PurgeAnswer
  <2>3. Deletion!AllCompleted(e.saga) => purged[e.saga] = PurgeTargets
    BY <1>1, <2>2 DEF Deletion!AllCompleted
  <2>4. CASE Deletion!AllCompleted(e.saga)
    BY <1>1, <1>9, <2>1, <2>3, <2>4
  <2>5. CASE ~Deletion!AllCompleted(e.saga)
    BY <1>1, <1>9, <2>1, <2>5
  <2> QED  BY <2>4, <2>5
<1>12. ASSUME NEW e \in purgeAnswers, Deletion!Delete(e) PROVE PurgesAreTrue'
  <2> DEFINE cleared == [purgeSteps EXCEPT ![projectRow.saga] = [w \in PurgeTargets |-> "none"]]
  <2>1. /\ Deletion!Acked(e) \/ Deletion!Reached(e, "new")
        /\ purgeSteps' \in {purgeSteps, cleared}
        /\ UNCHANGED <<purged, held>>
    BY <1>12 DEF Deletion!Delete, Deletion!worker
  <2>2. /\ purgeSteps' \in [Deletion!Sagas ->
                               [PurgeTargets -> {"none", "in_progress", "completed", "failed"}]]
        /\ \A k \in Deletion!Sagas, v \in PurgeTargets :
              purgeSteps'[k][v] = "completed" => purgeSteps[k][v] = "completed"
    <3>1. /\ cleared \in [Deletion!Sagas ->
                             [PurgeTargets -> {"none", "in_progress", "completed", "failed"}]]
          /\ \A k \in Deletion!Sagas, v \in PurgeTargets :
                cleared[k][v] = "completed" => purgeSteps[k][v] = "completed"
      BY <1>1
    <3> HIDE DEF cleared
    <3> QED  BY <1>1, <2>1, <3>1
  <2> HIDE DEF cleared
  <2> QED  BY <1>9, <2>1, <2>2
<1>13. ASSUME Deletion!RestartOrchestrator PROVE PurgesAreTrue'
  <2>1. /\ purgeAnswers' = {[e EXCEPT !.at = "new"] : e \in purgeAnswers}
        /\ UNCHANGED <<purged, held, purgeSteps>>
    BY <1>13 DEF Deletion!RestartOrchestrator, Deletion!worker
  <2>2. ASSUME NEW a \in purgeAnswers'
        PROVE  a \in PurgeAnswer /\ (a.ok => a.from \in purged[a.saga]) /\ a.at # "deleting"
    <3>1. PICK e \in purgeAnswers : a = [e EXCEPT !.at = "new"]
      BY <2>1, <2>2
    <3>2. e \in PurgeAnswer
      BY <1>1
    <3>3. a \in PurgeAnswer /\ a.from = e.from /\ a.saga = e.saga /\ a.ok = e.ok /\ a.at = "new"
      BY <3>1, <3>2 DEF PurgeAnswer
    <3> QED  BY <1>1, <3>3
  <2> QED  BY <1>1, <2>1, <2>2
<1>14. CASE UNCHANGED <<purged, held, purgeSteps, purgeAnswers>>
  BY <1>1, <1>14
<1> QED
  BY <1>3, <1>4, <1>5, <1>6, <1>7, <1>8, <1>10, <1>11, <1>12, <1>13, <1>14
  DEF Deletion!Next, Deletion!vars, Deletion!worker, Deletion!Execute, Deletion!Relay,
      Deletion!Work, Deletion!HandlePurgeEvent, Deletion!Cancel, Deletion!BeginDelete,
      Deletion!Tick, Deletion!StartRender, Deletion!PublishPurge, Deletion!Publish,
      Deletion!MarkPublished

\* Only an answer that found every worker's step completed removes the row.
LEMMA DeletedAfterPurges ==
    ASSUME DeletionInv, [Deletion!Next]_(Deletion!vars),
           projectRow.status # "gone", projectRow'.status = "gone"
    PROVE  \E g \in Deletion!Sagas : purged[g] = PurgeTargets
<1>1. projectRow \in [status : Deletion!Statuses, saga : Nat, sagas : Nat]
  BY DEF DeletionInv, RowOfSagas
<1>2. ASSUME NEW e \in purgeAnswers, Deletion!Delete(e)
      PROVE  \E g \in Deletion!Sagas : purged[g] = PurgeTargets
  <2>1. e.saga \in Deletion!Sagas /\ e.at = "deleting"
    BY <1>2 DEF DeletionInv, PurgesAreTrue, PurgeAnswer, Deletion!Delete
  <2> QED  BY <2>1 DEF DeletionInv, PurgesAreTrue
<1>3. ASSUME NEW w \in PurgeTargets, Deletion!EndWork(w) PROVE FALSE
  BY <1>1, <1>3 DEF Deletion!EndWork
<1>4. ASSUME NEW w \in PurgeTargets, Deletion!DeadLetter(w) PROVE FALSE
  BY <1>1, <1>4 DEF Deletion!DeadLetter
<1>5. ASSUME Deletion!Cancel PROVE FALSE
  BY <1>1, <1>5 DEF Deletion!Cancel
<1>6. ASSUME NEW w \in PurgeTargets, Deletion!StartRender(w) PROVE FALSE
  BY <1>6 DEF Deletion!StartRender
<1>7. ASSUME Deletion!BeginDelete PROVE FALSE
  BY <1>7 DEF Deletion!BeginDelete
<1>8. CASE UNCHANGED projectRow
  BY <1>8
<1> QED
  BY <1>2, <1>3, <1>4, <1>5, <1>6, <1>7, <1>8
  DEF Deletion!Next, Deletion!vars, Deletion!Execute, Deletion!Relay, Deletion!Work,
      Deletion!HandlePurgeEvent, Deletion!Tick, Deletion!UpdatePurgeStep, Deletion!PublishPurge,
      Deletion!Publish, Deletion!MarkPublished, Deletion!Take, Deletion!Purge, Deletion!Answer,
      Deletion!Write, Deletion!RecordAnswer, Deletion!CheckSteps, Deletion!RestartWorker,
      Deletion!RestartOrchestrator

\* A row goes only when every owner of files has removed its own for one delete,
\* whatever is answered late or twice, restarted, dead-lettered or started between.
THEOREM RowsGoAfterPurges == Deletion!Spec => GoneAfterPurges
<1>1. DeletionInv /\ [Deletion!Next]_(Deletion!vars) => DeletionInv'
  BY ProjectRowStep, CommandsStep, PurgesStep DEF DeletionInv
<1>2. ASSUME DeletionInv, [Deletion!Next]_(Deletion!vars)
      PROVE  projectRow.status # "gone" /\ projectRow'.status = "gone"
                => \E g \in Deletion!Sagas : purged[g] = PurgeTargets
  BY <1>2, DeletedAfterPurges
<1> QED
  BY <1>1, <1>2, DeletionInit, PTL
  DEF Deletion!Spec, GoneAfterPurges, Deletion!GoneAfterPurges

-----------------------------------------------------------------------------
(* The handlers: the shapes of what they work on.                          *)

ProjectRow ==
    [status : Handlers!Statuses, saga : Nat, script : Nat, outline : Nat,
     config : [review : BOOLEAN, tts : BOOLEAN]]
OutboxCommand ==
    [id : Nat, saga : Nat, step : Handlers!Steps, script : Nat, stamp : Nat]
Delivery ==
    {e \in [id : Nat, saga : Nat, step : Handlers!Steps, script : Nat,
            kind : {"ok", "failed", "engine_failure"}, attempts : Nat] :
        e.kind = "engine_failure" => e.step = "synthesize_speech"}
Shared ==
    [project : ProjectRow,
     step : [Handlers!Sagas -> [Handlers!Steps -> Handlers!StepStatuses]],
     outbox : SUBSET OutboxCommand, cancel : [second : Nat, sent : Nat]]

StepCall ==
    [op : {"UpdateStep"}, saga : Nat, step : Handlers!Steps, to : Handlers!StepStatuses]
PublishCall ==
    [op : {"PublishCommand"}, saga : Nat, step : Handlers!Steps, script : Nat, stamp : Nat]
OtherCall ==
    [op : {"UpdateStatus"}, to : Handlers!Statuses] \cup [op : {"Save"}, project : ProjectRow]
    \cup [op : {"PublishCancel"}, at : Nat]
HandlerCall == StepCall \cup PublishCall \cup OtherCall

Job ==
    [for : {"nobody", "request", "event", "dead_letter", "expired"},
     msg : Delivery \cup OutboxCommand \cup {Handlers!NoMessage},
     todo : Seq(HandlerCall), deciding : BOOLEAN]

-----------------------------------------------------------------------------
(* The handlers: calls that lead to a dispatch of a step.                  *)

\* This call dispatches the step, or opens one before it.
Opens(c, g, s) ==
    \/ c \in PublishCall /\ c.saga = g /\ c.step = s
    \/ c \in StepCall /\ c.saga = g /\ c.to = "in_progress" /\ c.step \in Handlers!Earlier[s]

Owes(q, g, s) == \E i \in DOMAIN q : Opens(q[i], g, s)
Once(q, g, s) == \A i, k \in DOMAIN q : Opens(q[i], g, s) /\ Opens(q[k], g, s) => i = k

\* These calls open step s of saga g and no other; these open none.
Leads(q, g, s) ==
    /\ q \in Seq(HandlerCall)
    /\ \A h, x : /\ Once(q, h, x)
                 /\ Owes(q, h, x) => h = g /\ (x = s \/ s \in Handlers!Earlier[x])
Idles(q) == q \in Seq(HandlerCall) /\ \A h, x : ~Owes(q, h, x)

\* No step comes before validation, before synthesis only that, and so on.
LEMMA EarlierAre ==
    /\ Handlers!Earlier["validate_script"] = {}
    /\ Handlers!Earlier["synthesize_speech"] = {"validate_script"}
    /\ Handlers!Earlier["render_scenes"] = {"validate_script", "synthesize_speech"}
    /\ Handlers!Earlier["assemble_video"] =
          {"validate_script", "synthesize_speech", "render_scenes"}
    /\ Handlers!Earlier["publish_video"] = {}
    /\ Handlers!Steps = {"validate_script", "synthesize_speech", "render_scenes",
                         "assemble_video", "publish_video"}
BY DEF Handlers!Earlier, Handlers!Steps, Handlers!RenderSteps

\* A step has finitely many before it, none of them itself.
LEMMA EarlierFinite ==
    ASSUME NEW s \in Handlers!Steps
    PROVE  /\ IsFiniteSet(Handlers!Earlier[s]) /\ Handlers!Earlier[s] \subseteq Handlers!Steps
           /\ s \notin Handlers!Earlier[s]
<1> DEFINE v == {"validate_script"}
           y == v \cup {"synthesize_speech"}
           z == y \cup {"render_scenes"}
<1>1. v = {} \cup {"validate_script"}
  OBVIOUS
<1>2. IsFiniteSet(v)
  BY <1>1, FS_EmptySet, FS_AddElement
<1>3. IsFiniteSet(y)
  BY <1>2, FS_AddElement
<1>4. IsFiniteSet(z)
  BY <1>3, FS_AddElement
<1>5. IsFiniteSet({"validate_script", "synthesize_speech", "render_scenes"})
  <2>1. z = {"validate_script", "synthesize_speech", "render_scenes"}
    OBVIOUS
  <2> QED  BY <1>4, <2>1
<1>6. Handlers!Earlier[s] \subseteq {"validate_script", "synthesize_speech", "render_scenes"}
  BY EarlierAre
<1>7. IsFiniteSet(Handlers!Earlier[s])
  BY <1>5, <1>6, FS_Subset
<1> QED  BY <1>7, EarlierAre

\* Counting is counting.
LEMMA HandlersCount == \A S : Handlers!Cardinality(S) = Cardinality(S)
BY DEF Handlers!Cardinality, Cardinality, Handlers!IsFiniteSet, IsFiniteSet

\* Calls after one another.
LEMMA Joined ==
    ASSUME NEW a \in Seq(HandlerCall), NEW b \in Seq(HandlerCall)
    PROVE  /\ a \o b \in Seq(HandlerCall)
           /\ \A i \in DOMAIN (a \o b) :
                 \/ i \in DOMAIN a /\ (a \o b)[i] = a[i]
                 \/ i - Len(a) \in DOMAIN b /\ (a \o b)[i] = b[i - Len(a)]
OBVIOUS

\* Two calls after one another.
LEMMA Pair ==
    ASSUME NEW a, NEW b PROVE <<a>> \o <<b>> = <<a, b>>
<1>1. PICK S : S = {a, b}
  OBVIOUS
<1>2. PICK x, y : x = <<a>> /\ y = <<b>>
  OBVIOUS
<1>3. x \in Seq(S) /\ y \in Seq(S) /\ Len(x) = 1 /\ Len(y) = 1 /\ x[1] = a /\ y[1] = b
  BY <1>1, <1>2
<1>4. PICK q : q = x \o y
  OBVIOUS
<1>5. /\ q \in Seq(S)
      /\ Len(q) = Len(x) + Len(y)
      /\ \A i \in 1 .. Len(x) + Len(y) :
             q[i] = IF i <= Len(x) THEN x[i] ELSE y[i - Len(x)]
  BY <1>3, <1>4, ConcatProperties, Zenon
<1>6. PICK z : z = <<a, b>>
  OBVIOUS
<1>7. z \in Seq(S) /\ Len(z) = 2 /\ z[1] = a /\ z[2] = b
  BY <1>1, <1>6
<1>8. Len(q) = 2 /\ \A i \in 1 .. 2 : q[i] = z[i]
  BY <1>3, <1>5, <1>7
<1>9. q = z
  BY <1>5, <1>7, <1>8, SeqEqual
<1> QED  BY <1>2, <1>4, <1>6, <1>9
LEMMA LeadsAfter ==
    ASSUME NEW a, NEW b, NEW g, NEW s, Idles(a), Leads(b, g, s)
    PROVE  Leads(a \o b, g, s)
<1>1. a \in Seq(HandlerCall) /\ b \in Seq(HandlerCall)
  BY DEF Idles, Leads
<1>2. ASSUME NEW h, NEW x, NEW i \in DOMAIN (a \o b), Opens((a \o b)[i], h, x)
      PROVE  i - Len(a) \in DOMAIN b /\ Opens(b[i - Len(a)], h, x)
  BY <1>1, <1>2, Joined DEF Idles, Owes
<1>3. ASSUME NEW h, NEW x PROVE Once(a \o b, h, x)
  <2> SUFFICES ASSUME NEW i \in DOMAIN (a \o b), NEW k \in DOMAIN (a \o b),
                      Opens((a \o b)[i], h, x), Opens((a \o b)[k], h, x)
               PROVE  i = k
    BY DEF Once
  <2>1. i - Len(a) = k - Len(a)
    BY <1>2 DEF Leads, Once
  <2> QED  BY <1>1, <2>1
<1>4. ASSUME NEW h, NEW x, Owes(a \o b, h, x) PROVE Owes(b, h, x)
  BY <1>2, <1>4 DEF Owes
<1> QED  BY <1>1, <1>3, <1>4, Joined DEF Leads

LEMMA LeadsBefore ==
    ASSUME NEW a, NEW b, NEW g, NEW s, Leads(a, g, s), Idles(b)
    PROVE  Leads(a \o b, g, s)
<1>1. a \in Seq(HandlerCall) /\ b \in Seq(HandlerCall)
  BY DEF Idles, Leads
<1>2. ASSUME NEW h, NEW x, NEW i \in DOMAIN (a \o b), Opens((a \o b)[i], h, x)
      PROVE  i \in DOMAIN a /\ Opens(a[i], h, x)
  BY <1>1, <1>2, Joined DEF Idles, Owes
<1>3. ASSUME NEW h, NEW x PROVE Once(a \o b, h, x)
  BY <1>2 DEF Leads, Once
<1>4. ASSUME NEW h, NEW x, Owes(a \o b, h, x) PROVE Owes(a, h, x)
  BY <1>2, <1>4 DEF Owes
<1> QED  BY <1>1, <1>3, <1>4, Joined DEF Leads

LEMMA IdlesAfter ==
    ASSUME NEW a, NEW b, Idles(a), Idles(b) PROVE Idles(a \o b)
BY Joined DEF Idles, Owes

\* One call that opens nothing.
LEMMA OtherIdles ==
    ASSUME NEW c \in HandlerCall, c \in OtherCall PROVE Idles(<<c>>)
<1>1. \A h, x : ~Opens(c, h, x)
  BY DEF Opens, OtherCall, StepCall, PublishCall
<1> QED  BY <1>1 DEF Idles, Owes

\* What a step is moved to, and where a project goes with it.
LEMMA StatusOfStep ==
    ASSUME NEW s \in Handlers!Steps
    PROVE  /\ Handlers!stepInProgressStatus[s] \in Handlers!Statuses
           /\ Handlers!FailedStatusForStep[s] \in Handlers!Statuses
BY DEF Handlers!Statuses, Handlers!InFlight, Handlers!Failed

\* A step written as anything else than in progress is opened by nothing.
LEMMA ClosingIdles ==
    ASSUME NEW g \in Nat, NEW s \in Handlers!Steps, NEW to \in Handlers!StepStatuses,
           to # "in_progress"
    PROVE  Idles(<<Handlers!UpdateStep(g, s, to)>>)
<1> DEFINE c == Handlers!UpdateStep(g, s, to)
<1>1. c \in StepCall /\ c.to = to
  BY DEF Handlers!UpdateStep, StepCall
<1>2. c \in HandlerCall /\ c \notin PublishCall
  BY <1>1 DEF HandlerCall, StepCall, PublishCall
<1> HIDE DEF c
<1>3. \A h, x : ~Opens(c, h, x)
  BY <1>1, <1>2 DEF Opens
<1> QED  BY <1>2, <1>3 DEF Idles, Owes, c

LEMMA StatusIdles ==
    ASSUME NEW st \in Handlers!Statuses PROVE Idles(<<Handlers!UpdateStatus(st)>>)
<1>1. Handlers!UpdateStatus(st) \in OtherCall
  BY DEF Handlers!UpdateStatus, OtherCall
<1> QED  BY <1>1, OtherIdles DEF HandlerCall

LEMMA SaveIdles ==
    ASSUME NEW p \in ProjectRow PROVE Idles(<<Handlers!Save(p)>>)
<1>1. Handlers!Save(p) \in OtherCall
  BY DEF Handlers!Save, OtherCall
<1> QED  BY <1>1, OtherIdles DEF HandlerCall

LEMMA CancelIdles ==
    ASSUME NEW at \in Nat PROVE Idles(<<Handlers!PublishCancel(at)>>)
<1>1. Handlers!PublishCancel(at) \in OtherCall
  BY DEF Handlers!PublishCancel, OtherCall
<1> QED  BY <1>1, OtherIdles DEF HandlerCall

LEMMA FailingIdles ==
    ASSUME NEW g \in Nat, NEW s \in Handlers!Steps PROVE Idles(Handlers!Failing(g, s))
<1>1. Idles(<<Handlers!UpdateStep(g, s, "failed")>>)
  BY ClosingIdles DEF Handlers!StepStatuses
<1>2. Idles(<<Handlers!UpdateStatus(Handlers!FailedStatusForStep[s])>>)
  BY StatusIdles, StatusOfStep
<1>3. Handlers!Failing(g, s) = <<Handlers!UpdateStep(g, s, "failed")>>
                                  \o <<Handlers!UpdateStatus(Handlers!FailedStatusForStep[s])>>
  BY DEF Handlers!Failing
<1> QED  BY <1>1, <1>2, <1>3, IdlesAfter

\* The two calls that open a step: its status and its command.
LEMMA StepOpens ==
    ASSUME NEW g \in Nat, NEW s \in Handlers!Steps
    PROVE  Leads(<<Handlers!UpdateStep(g, s, "in_progress")>>, g, s)
<1> DEFINE c == Handlers!UpdateStep(g, s, "in_progress")
<1>1. c \in StepCall /\ c.saga = g /\ c.step = s
  BY DEF Handlers!UpdateStep, StepCall, Handlers!StepStatuses
<1>2. c \in HandlerCall /\ c \notin PublishCall
  BY <1>1 DEF HandlerCall, StepCall, PublishCall
<1> HIDE DEF c
<1>3. \A h, x : Opens(c, h, x) => h = g /\ s \in Handlers!Earlier[x]
  BY <1>1, <1>2 DEF Opens
<1> QED  BY <1>2, <1>3 DEF Leads, Owes, Once, c

LEMMA Opening ==
    ASSUME NEW g \in Nat, NEW s \in Handlers!Steps, NEW text \in Nat, NEW stamp \in Nat
    PROVE  /\ Leads(<<Handlers!UpdateStep(g, s, "in_progress"),
                      Handlers!PublishCommand(g, s, text, stamp)>>, g, s)
           /\ Leads(<<Handlers!PublishCommand(g, s, text, stamp)>>, g, s)
           /\ \A p \in ProjectRow :
              Leads(<<Handlers!Save(p), Handlers!UpdateStep(g, s, "in_progress"),
                      Handlers!UpdateStatus(Handlers!stepInProgressStatus[s]),
                      Handlers!PublishCommand(g, s, text, stamp)>>, g, s)
<1> DEFINE c == Handlers!UpdateStep(g, s, "in_progress")
           d == Handlers!PublishCommand(g, s, text, stamp)
           u == Handlers!UpdateStatus(Handlers!stepInProgressStatus[s])
<1>1. c \in StepCall /\ c.saga = g /\ c.step = s
  BY DEF Handlers!UpdateStep, StepCall, Handlers!StepStatuses
<1>2. c \in HandlerCall /\ c \notin PublishCall
  BY <1>1 DEF HandlerCall, StepCall, PublishCall
<1>3. d \in PublishCall /\ d.saga = g /\ d.step = s
  BY DEF Handlers!PublishCommand, PublishCall
<1>4. d \in HandlerCall /\ d \notin StepCall
  BY <1>3 DEF HandlerCall, StepCall, PublishCall
<1>5. u \in OtherCall
  BY StatusOfStep DEF Handlers!UpdateStatus, OtherCall
<1>6. u \in HandlerCall /\ u \notin StepCall /\ u \notin PublishCall
  BY <1>5 DEF HandlerCall, OtherCall, StepCall, PublishCall
<1> HIDE DEF c, d, u
<1>7. \A h, x : Opens(c, h, x) => h = g /\ s \in Handlers!Earlier[x]
  BY <1>1, <1>2 DEF Opens
<1>8. \A h, x : Opens(d, h, x) => h = g /\ x = s
  BY <1>3, <1>4 DEF Opens
<1>9. \A h, x : ~Opens(u, h, x) /\ ~(Opens(c, h, x) /\ Opens(d, h, x))
  BY <1>6, <1>7, <1>8, EarlierFinite DEF Opens
<1>10. Leads(<<c, d>>, g, s)
  BY <1>2, <1>4, <1>7, <1>8, <1>9 DEF Leads, Owes, Once
<1>11. Leads(<<d>>, g, s)
  BY <1>4, <1>8 DEF Leads, Owes, Once
<1>12. ASSUME NEW p \in ProjectRow PROVE Leads(<<Handlers!Save(p), c, u, d>>, g, s)
  <2> DEFINE w == Handlers!Save(p)
             q == <<w, c, u, d>>
  <2>1. w \in HandlerCall /\ \A h, x : ~Opens(w, h, x)
    <3>1. Idles(<<w>>)
      BY SaveIdles
    <3> HIDE DEF w
    <3> QED  BY <3>1 DEF Idles, Owes
  <2> HIDE DEF w
  <2>2. /\ q \in Seq(HandlerCall) /\ DOMAIN q = {1, 2, 3, 4}
        /\ q[1] = w /\ q[2] = c /\ q[3] = u /\ q[4] = d
    BY <1>2, <1>4, <1>6, <2>1
  <2> HIDE DEF q
  <2>3. Leads(q, g, s)
    BY <1>7, <1>8, <1>9, <2>1, <2>2 DEF Leads, Owes, Once
  <2> QED  BY <2>3 DEF q, w
<1> QED  BY <1>10, <1>11, <1>12 DEF c, d, u

\* A step is opened and the project moves on to it.
LEMMA OpeningLeads ==
    ASSUME NEW g \in Nat, NEW s \in Handlers!Steps, NEW p \in ProjectRow, second \in Nat
    PROVE  Leads(Handlers!Opening(g, s, p), g, s)
<1>1. p.script \in Nat
  BY DEF ProjectRow
<1>2. Handlers!Opening(g, s, p) =
         <<Handlers!UpdateStep(g, s, "in_progress"),
           Handlers!PublishCommand(g, s, p.script, second)>>
         \o <<Handlers!UpdateStatus(Handlers!stepInProgressStatus[s])>>
  BY DEF Handlers!Opening
<1>3. Idles(<<Handlers!UpdateStatus(Handlers!stepInProgressStatus[s])>>)
  BY StatusIdles, StatusOfStep
<1> QED  BY <1>1, <1>2, <1>3, Opening, LeadsBefore

\* Rendering is opened, or fails for want of a language.
LEMMA RenderLeads ==
    ASSUME NEW g \in Nat, NEW p \in ProjectRow, second \in Nat,
           NEW q \in Handlers!startRenderScenes(g, p)
    PROVE  Leads(q, g, "render_scenes")
<1>1. "render_scenes" \in Handlers!Steps
  BY EarlierAre
<1>2. CASE q = Handlers!Opening(g, "render_scenes", p)
  BY <1>1, <1>2, OpeningLeads
<1>3. CASE q = <<Handlers!UpdateStep(g, "render_scenes", "in_progress")>>
                  \o Handlers!Failing(g, "render_scenes")
  BY <1>1, <1>3, StepOpens, FailingIdles, LeadsBefore
<1> QED  BY <1>2, <1>3 DEF Handlers!startRenderScenes

LEMMA ValidatedLeads ==
    ASSUME NEW g \in Nat, NEW p \in ProjectRow, second \in Nat,
           NEW q \in Handlers!AfterValidation(g, p)
    PROVE  \E s \in {"synthesize_speech", "render_scenes"} : Leads(q, g, s)
<1>1. "synthesize_speech" \in Handlers!Steps
  BY EarlierAre
<1>2. CASE p.config.tts
  BY <1>1, <1>2, OpeningLeads DEF Handlers!AfterValidation
<1>3. CASE ~p.config.tts
  <2>1. PICK rest \in Handlers!startRenderScenes(g, p) :
           q = <<Handlers!Save(p), Handlers!UpdateStep(g, "synthesize_speech", "completed")>> \o rest
    BY <1>3 DEF Handlers!AfterValidation
  <2>2. Idles(<<Handlers!UpdateStep(g, "synthesize_speech", "completed")>>)
    BY <1>1, ClosingIdles DEF Handlers!StepStatuses
  <2>3. Idles(<<Handlers!Save(p)>>
                 \o <<Handlers!UpdateStep(g, "synthesize_speech", "completed")>>)
    BY <2>2, SaveIdles, IdlesAfter
  <2>4. <<Handlers!Save(p)>> \o <<Handlers!UpdateStep(g, "synthesize_speech", "completed")>>
           = <<Handlers!Save(p), Handlers!UpdateStep(g, "synthesize_speech", "completed")>>
    BY Pair
  <2> QED  BY <2>1, <2>3, <2>4, RenderLeads, LeadsAfter
<1> QED  BY <1>2, <1>3

\* What a success leads to: nothing, or one step that comes later.
LEMMA SuccessLeads ==
    ASSUME NEW e \in Delivery, NEW p \in ProjectRow, second \in Nat,
           NEW q \in Handlers!handleSuccess(e, p)
    PROVE  \/ Idles(q)
           \/ \E s \in Handlers!Steps : Leads(q, e.saga, s) /\ e.step \in Handlers!Earlier[s]
<1>1. e.saga \in Nat /\ e.step \in Handlers!Steps /\ e.script \in Nat
  BY DEF Delivery
<1>2. "render_scenes" \in Handlers!Steps /\ "validate_script" \in Handlers!Steps
       /\ "synthesize_speech" \in Handlers!Steps /\ "assemble_video" \in Handlers!Steps
  BY EarlierAre
<1>3. CASE e.step = "validate_script"
  <2> DEFINE read == [p EXCEPT !.outline = e.script]
  <2>1. read \in ProjectRow
    BY <1>1 DEF ProjectRow
  <2>2. q \in Handlers!onScriptValidated(e, p)
    BY <1>3 DEF Handlers!handleSuccess
  <2>3. PICK rest :
           \/ q = <<Handlers!Save(read)>> \o Handlers!Failing(e.saga, "validate_script")
           \/ /\ q = <<Handlers!Save(read), Handlers!Save(read)>> \o rest
              /\ \/ rest = <<Handlers!UpdateStatus("awaiting_review")>>
                 \/ rest \in Handlers!AfterValidation(e.saga, read)
    BY <2>2 DEF Handlers!onScriptValidated
  <2> HIDE DEF read
  <2>4. Idles(<<Handlers!Save(read)>>)
    BY <2>1, SaveIdles
  <2>5. <<Handlers!Save(read), Handlers!Save(read)>>
           = <<Handlers!Save(read)>> \o <<Handlers!Save(read)>>
    OBVIOUS
  <2>6. Idles(<<Handlers!Save(read), Handlers!Save(read)>>)
    BY <2>4, <2>5, IdlesAfter
  <2>7. Idles(<<Handlers!UpdateStatus("awaiting_review")>>)
    <3>1. "awaiting_review" \in Handlers!Statuses
      BY DEF Handlers!Statuses, Handlers!Resting
    <3> QED  BY <3>1, StatusIdles
  <2>8. CASE q = <<Handlers!Save(read)>> \o Handlers!Failing(e.saga, "validate_script")
    BY <1>1, <1>2, <2>4, <2>8, FailingIdles, IdlesAfter
  <2>9. CASE /\ q = <<Handlers!Save(read), Handlers!Save(read)>> \o rest
             /\ rest = <<Handlers!UpdateStatus("awaiting_review")>>
    BY <2>6, <2>7, <2>9, IdlesAfter
  <2>10. CASE /\ q = <<Handlers!Save(read), Handlers!Save(read)>> \o rest
              /\ rest \in Handlers!AfterValidation(e.saga, read)
    <3>1. PICK s \in {"synthesize_speech", "render_scenes"} : Leads(rest, e.saga, s)
      BY <1>1, <2>1, <2>10, ValidatedLeads
    <3>2. Leads(q, e.saga, s)
      BY <2>6, <2>10, <3>1, LeadsAfter
    <3> QED  BY <1>3, <3>1, <3>2, EarlierAre
  <2> QED  BY <2>3, <2>8, <2>9, <2>10
<1>4. CASE e.step = "synthesize_speech"
  <2>1. q \in Handlers!onSpeechSynthesized(e, p)
    BY <1>4 DEF Handlers!handleSuccess
  <2>2. PICK rest :
           \/ q = Handlers!Failing(e.saga, "render_scenes")
           \/ q = <<Handlers!Save(p)>> \o rest /\ rest \in Handlers!startRenderScenes(e.saga, p)
    BY <2>1 DEF Handlers!onSpeechSynthesized
  <2>3. CASE q = Handlers!Failing(e.saga, "render_scenes")
    BY <1>1, <1>2, <2>3, FailingIdles
  <2>4. CASE q = <<Handlers!Save(p)>> \o rest /\ rest \in Handlers!startRenderScenes(e.saga, p)
    <3>1. Leads(q, e.saga, "render_scenes")
      BY <1>1, <2>4, RenderLeads, SaveIdles, LeadsAfter
    <3> QED  BY <1>2, <1>4, <3>1, EarlierAre
  <2> QED  BY <2>2, <2>3, <2>4
<1>5. CASE e.step = "render_scenes"
  <2>1. q \in Handlers!onRenderingCompleted(e, p)
    BY <1>5 DEF Handlers!handleSuccess
  <2>2. CASE q = Handlers!Failing(e.saga, "render_scenes")
    BY <1>1, <1>2, <2>2, FailingIdles
  <2>3. CASE q = <<Handlers!Save(p)>> \o Handlers!Opening(e.saga, "assemble_video", p)
    <3>1. Leads(q, e.saga, "assemble_video")
      BY <1>1, <1>2, <2>3, OpeningLeads, SaveIdles, LeadsAfter
    <3> QED  BY <1>2, <1>5, <3>1, EarlierAre
  <2> QED  BY <2>1, <2>2, <2>3 DEF Handlers!onRenderingCompleted
<1>6. CASE e.step \in {"assemble_video", "publish_video"}
  <2>1. PICK st \in {"ready_to_publish", "published"} :
           q = <<Handlers!Save(p)>> \o <<Handlers!UpdateStatus(st)>>
    <3>1. CASE e.step = "assemble_video"
      BY <3>1 DEF Handlers!handleSuccess
    <3>2. CASE e.step = "publish_video"
      BY <3>2 DEF Handlers!handleSuccess
    <3> QED  BY <1>6, <3>1, <3>2
  <2>2. st \in Handlers!Statuses
    BY DEF Handlers!Statuses, Handlers!Resting
  <2> QED  BY <2>1, <2>2, SaveIdles, StatusIdles, IdlesAfter
<1> QED  BY <1>1, <1>3, <1>4, <1>5, <1>6, EarlierAre

-----------------------------------------------------------------------------
(* The handlers: what a call costs.                                        *)

One(b) == IF b THEN 1 ELSE 0

SentOf(d, g, s) == {c \in d.outbox : c.saga = g /\ c.step = s}
RunningBefore(d, g, s) == {r \in Handlers!Earlier[s] : d.step[g][r] = "in_progress"}

\* The dispatches of a step that have happened or that a step in progress before it
\* stands for.
Spent(d, g, s) == Cardinality(SentOf(d, g, s)) + Cardinality(RunningBefore(d, g, s))

LEMMA SpentIsNat ==
    ASSUME NEW d \in Shared, IsFiniteSet(d.outbox), NEW g, NEW s \in Handlers!Steps
    PROVE  /\ IsFiniteSet(SentOf(d, g, s)) /\ Cardinality(SentOf(d, g, s)) \in Nat
           /\ IsFiniteSet(RunningBefore(d, g, s)) /\ Cardinality(RunningBefore(d, g, s)) \in Nat
           /\ Spent(d, g, s) \in Nat
<1>1. SentOf(d, g, s) \subseteq d.outbox /\ RunningBefore(d, g, s) \subseteq Handlers!Earlier[s]
  BY DEF SentOf, RunningBefore
<1>2. IsFiniteSet(SentOf(d, g, s)) /\ IsFiniteSet(RunningBefore(d, g, s))
  BY <1>1, EarlierFinite, FS_Subset
<1> QED  BY <1>2, FS_CardinalityType DEF Spent

\* A call that moves a step, one that sends a command, and the others.
LEMMA StepCallDone ==
    ASSUME NEW d \in Shared, NEW c \in StepCall
    PROVE  /\ Handlers!Do(d, c) \in Shared /\ Handlers!Do(d, c).outbox = d.outbox
           /\ \A g \in Handlers!Sagas, r \in Handlers!Steps :
                 Handlers!Do(d, c).step[g][r] =
                    IF g = c.saga /\ r = c.step THEN c.to ELSE d.step[g][r]
<1> DEFINE rows == [d.step EXCEPT ![c.saga][c.step] = c.to]
           e == [d EXCEPT !.step = rows]
<1>1. Handlers!Do(d, c) = e
  BY DEF Handlers!Do, StepCall, Shared
<1>2. /\ d.step \in [Handlers!Sagas -> [Handlers!Steps -> Handlers!StepStatuses]]
      /\ c.to \in Handlers!StepStatuses
  BY DEF StepCall, Shared
<1>3. rows \in [Handlers!Sagas -> [Handlers!Steps -> Handlers!StepStatuses]]
  BY <1>2
<1>4. \A g \in Handlers!Sagas, r \in Handlers!Steps :
         rows[g][r] = IF g = c.saga /\ r = c.step THEN c.to ELSE d.step[g][r]
  BY <1>2
<1> HIDE DEF rows
<1>5. e \in Shared /\ e.outbox = d.outbox /\ e.step = rows
  BY <1>3 DEF Shared
<1> QED  BY <1>1, <1>4, <1>5

LEMMA PublishCallDone ==
    ASSUME NEW d \in Shared, IsFiniteSet(d.outbox), NEW c \in PublishCall
    PROVE  /\ Handlers!Do(d, c) \in Shared /\ Handlers!Do(d, c).step = d.step
           /\ \E x : /\ Handlers!Do(d, c).outbox = d.outbox \cup {x}
                     /\ x.saga = c.saga /\ x.step = c.step
<1> DEFINE n == Handlers!Cardinality(d.outbox) + 1
           x == [id |-> n, saga |-> c.saga, step |-> c.step, script |-> c.script,
                 stamp |-> c.stamp]
           e == [d EXCEPT !.outbox = @ \cup {x}]
<1>1. Handlers!Do(d, c) = e
  BY DEF Handlers!Do, PublishCall, Shared
<1>2. n \in Nat
  BY HandlersCount, FS_CardinalityType
<1> HIDE DEF n
<1>3. x \in OutboxCommand /\ x.saga = c.saga /\ x.step = c.step
  BY <1>2 DEF OutboxCommand, PublishCall
<1> HIDE DEF x
<1>4. e \in Shared /\ e.step = d.step /\ e.outbox = d.outbox \cup {x}
  BY <1>3 DEF Shared
<1> QED  BY <1>1, <1>3, <1>4

LEMMA OtherCallDone ==
    ASSUME NEW d \in Shared, IsFiniteSet(d.outbox), NEW c \in OtherCall
    PROVE  /\ Handlers!Do(d, c) \in Shared /\ Handlers!Do(d, c).step = d.step
           /\ Handlers!Do(d, c).outbox = d.outbox
<1>1. CASE c \in [op : {"UpdateStatus"}, to : Handlers!Statuses]
  <2>1. Handlers!Do(d, c) = [d EXCEPT !.project = [d.project EXCEPT !.status = c.to]]
    BY <1>1 DEF Handlers!Do, Shared
  <2>2. [d.project EXCEPT !.status = c.to] \in ProjectRow
    BY <1>1 DEF Shared, ProjectRow
  <2> QED  BY <2>1, <2>2 DEF Shared
<1>2. CASE c \in [op : {"Save"}, project : ProjectRow]
  <2>1. Handlers!Do(d, c) = [d EXCEPT !.project = c.project]
    BY <1>2 DEF Handlers!Do
  <2> QED  BY <1>2, <2>1 DEF Shared
<1>3. CASE c \in [op : {"PublishCancel"}, at : Nat]
  <2> DEFINE n == Handlers!Cardinality(d.outbox)
  <2>1. Handlers!Do(d, c) = [d EXCEPT !.cancel = [second |-> c.at, sent |-> n]]
    BY <1>3 DEF Handlers!Do
  <2>2. n \in Nat
    BY HandlersCount, FS_CardinalityType
  <2> HIDE DEF n
  <2> QED  BY <1>3, <2>1, <2>2 DEF Shared
<1> QED  BY <1>1, <1>2, <1>3 DEF OtherCall

\* A set with one member more, and one with one less.
LEMMA OneMore ==
    ASSUME NEW S, NEW R, NEW x, IsFiniteSet(S), R \subseteq S \cup {x}
    PROVE  Cardinality(R) <= Cardinality(S) + 1
<1>1. Cardinality(S) \in Nat
  BY FS_CardinalityType
<1>2. /\ IsFiniteSet(S \cup {x})
      /\ \/ Cardinality(S \cup {x}) = Cardinality(S)
         \/ Cardinality(S \cup {x}) = Cardinality(S) + 1
  BY FS_AddElement
<1>3. IsFiniteSet(S \cup {x}) /\ Cardinality(S \cup {x}) <= Cardinality(S) + 1
  BY <1>1, <1>2
<1>4. IsFiniteSet(R) /\ Cardinality(R) <= Cardinality(S \cup {x})
  BY <1>3, FS_Subset
<1> QED  BY <1>3, <1>4, FS_CardinalityType

\* A call costs a dispatch at most where it opens a step.
LEMMA CallCosts ==
    ASSUME NEW d \in Shared, IsFiniteSet(d.outbox), NEW c \in HandlerCall,
           NEW g \in Handlers!Sagas, NEW s \in Handlers!Steps
    PROVE  /\ Handlers!Do(d, c) \in Shared /\ IsFiniteSet(Handlers!Do(d, c).outbox)
           /\ Spent(Handlers!Do(d, c), g, s) <= Spent(d, g, s) + One(Opens(c, g, s))
<1> DEFINE e == Handlers!Do(d, c)
<1>1. /\ Cardinality(SentOf(d, g, s)) \in Nat /\ Cardinality(RunningBefore(d, g, s)) \in Nat
      /\ IsFiniteSet(SentOf(d, g, s)) /\ IsFiniteSet(RunningBefore(d, g, s))
  BY SpentIsNat
<1>2. CASE c \in StepCall
  <2>1. /\ e \in Shared /\ e.outbox = d.outbox
        /\ \A r \in Handlers!Steps :
              e.step[g][r] = IF g = c.saga /\ r = c.step THEN c.to ELSE d.step[g][r]
    BY <1>2, StepCallDone
  <2> HIDE DEF e
  <2>2. SentOf(e, g, s) = SentOf(d, g, s)
    BY <2>1 DEF SentOf
  <2>3. CASE Opens(c, g, s)
    <3>1. RunningBefore(e, g, s) \subseteq RunningBefore(d, g, s) \cup {c.step}
      BY <2>1, EarlierFinite DEF RunningBefore
    <3>2. Cardinality(RunningBefore(e, g, s)) <= Cardinality(RunningBefore(d, g, s)) + 1
      BY <1>1, <3>1, OneMore
    <3>3. Cardinality(RunningBefore(e, g, s)) \in Nat
      BY <2>1, SpentIsNat
    <3> QED  BY <1>1, <2>1, <2>2, <2>3, <3>2, <3>3 DEF Spent, One, e
  <2>4. CASE ~Opens(c, g, s)
    <3>1. RunningBefore(e, g, s) \subseteq RunningBefore(d, g, s)
      BY <1>2, <2>1, <2>4, EarlierFinite DEF RunningBefore, Opens
    <3>2. Cardinality(RunningBefore(e, g, s)) <= Cardinality(RunningBefore(d, g, s))
      BY <1>1, <3>1, FS_Subset
    <3>3. Cardinality(RunningBefore(e, g, s)) \in Nat
      BY <2>1, SpentIsNat
    <3> QED  BY <1>1, <2>1, <2>2, <2>4, <3>2, <3>3 DEF Spent, One, e
  <2> QED  BY <2>3, <2>4
<1>3. CASE c \in PublishCall
  <2>1. PICK x : /\ e \in Shared /\ e.step = d.step /\ e.outbox = d.outbox \cup {x}
                 /\ x.saga = c.saga /\ x.step = c.step
    BY <1>3, PublishCallDone
  <2> HIDE DEF e
  <2>2. RunningBefore(e, g, s) = RunningBefore(d, g, s)
    BY <2>1 DEF RunningBefore
  <2>3. IsFiniteSet(e.outbox)
    BY <2>1, FS_AddElement
  <2>4. Cardinality(SentOf(e, g, s)) \in Nat
    BY <2>1, <2>3, SpentIsNat
  <2>5. CASE Opens(c, g, s)
    <3>1. SentOf(e, g, s) \subseteq SentOf(d, g, s) \cup {x}
      BY <2>1 DEF SentOf
    <3>2. Cardinality(SentOf(e, g, s)) <= Cardinality(SentOf(d, g, s)) + 1
      BY <1>1, <3>1, OneMore
    <3> QED  BY <1>1, <2>1, <2>2, <2>3, <2>4, <2>5, <3>2 DEF Spent, One, e
  <2>6. CASE ~Opens(c, g, s)
    <3>1. SentOf(e, g, s) = SentOf(d, g, s)
      BY <1>3, <2>1, <2>6 DEF SentOf, Opens
    <3> QED  BY <1>1, <2>1, <2>2, <2>3, <2>6, <3>1 DEF Spent, One, e
  <2> QED  BY <2>5, <2>6
<1>4. CASE c \in OtherCall
  <2>1. e \in Shared /\ e.step = d.step /\ e.outbox = d.outbox
    BY <1>4, OtherCallDone
  <2> HIDE DEF e
  <2>2. Spent(e, g, s) = Spent(d, g, s)
    BY <2>1 DEF Spent, SentOf, RunningBefore
  <2>3. Spent(d, g, s) \in Nat /\ One(Opens(c, g, s)) \in {0, 1}
    BY SpentIsNat DEF One
  <2> QED  BY <2>1, <2>2, <2>3 DEF e
<1> QED  BY <1>2, <1>3, <1>4 DEF HandlerCall

LEMMA CallKeepsShape ==
    ASSUME NEW d \in Shared, IsFiniteSet(d.outbox), NEW c \in HandlerCall
    PROVE  Handlers!Do(d, c) \in Shared /\ IsFiniteSet(Handlers!Do(d, c).outbox)
<1>1. CASE c \in PublishCall
  <2>1. PICK x : Handlers!Do(d, c).outbox = d.outbox \cup {x}
    BY <1>1, PublishCallDone
  <2>2. IsFiniteSet(d.outbox \cup {x})
    BY FS_AddElement
  <2> QED  BY <1>1, <2>1, <2>2, PublishCallDone
<1>2. CASE c \in StepCall
  BY <1>2, StepCallDone
<1>3. CASE c \in OtherCall
  BY <1>3, OtherCallDone
<1> QED  BY <1>1, <1>2, <1>3 DEF HandlerCall

\* A step that is completed gives back what it stood for.
LEMMA CompletionPays ==
    ASSUME NEW d \in Shared, IsFiniteSet(d.outbox),
           NEW g \in Handlers!Sagas, NEW r \in Handlers!Steps, NEW s \in Handlers!Steps,
           d.step[g][r] = "in_progress", r \in Handlers!Earlier[s]
    PROVE  Spent(Handlers!Do(d, Handlers!UpdateStep(g, r, "completed")), g, s) + 1
              <= Spent(d, g, s)
<1> DEFINE c == Handlers!UpdateStep(g, r, "completed")
           e == Handlers!Do(d, c)
<1>1. g \in Nat
  BY HandlersAssumption DEF Handlers!Sagas, Handlers!CountsAssumption
<1>2. c \in StepCall /\ c.saga = g /\ c.step = r /\ c.to = "completed"
  BY <1>1 DEF Handlers!UpdateStep, StepCall, Handlers!StepStatuses
<1> HIDE DEF c
<1>3. /\ e \in Shared /\ e.outbox = d.outbox
      /\ \A x \in Handlers!Steps :
            e.step[g][x] = IF x = r THEN "completed" ELSE d.step[g][x]
  BY <1>2, StepCallDone
<1> HIDE DEF e
<1>4. SentOf(e, g, s) = SentOf(d, g, s)
  BY <1>3 DEF SentOf
<1>5. RunningBefore(e, g, s) = RunningBefore(d, g, s) \ {r} /\ r \in RunningBefore(d, g, s)
  BY <1>3, EarlierFinite DEF RunningBefore
<1>6. /\ Cardinality(SentOf(d, g, s)) \in Nat /\ Cardinality(RunningBefore(d, g, s)) \in Nat
      /\ IsFiniteSet(RunningBefore(d, g, s))
  BY SpentIsNat
<1>7. Cardinality(RunningBefore(e, g, s)) = Cardinality(RunningBefore(d, g, s)) - 1
  BY <1>5, <1>6, FS_RemoveElement
<1> QED  BY <1>4, <1>6, <1>7 DEF Spent, e, c

-----------------------------------------------------------------------------
(* The handlers: what their goroutine owes.                                *)

\* The calls to come dispatch the step, or the handler is to decide on calls that may.
Due(j, g, s) ==
    \/ Owes(j.todo, g, s)
    \/ j.deciding /\ j.todo = <<>> /\ j.msg.saga = g /\ s \in Handlers!Steps
       /\ j.msg.step \in Handlers!Earlier[s]

Excused(s) == s = "synthesize_speech" /\ SynthesisRetries > 0

\* A dispatch is paid for by a request, whether it happened, is owed by the calls to
\* come, or stands open with an earlier step that is in progress.
Paid(j) ==
    \A g \in Handlers!Sagas, s \in Handlers!Steps :
        Excused(s) \/ Spent(shared, g, s) + One(Due(j, g, s)) <= asked

\* The calls of a handler open a step once; a handler that has still to decide is
\* completing the step its event is about.
Fits(j) ==
    /\ \A g, s : Once(j.todo, g, s)
    /\ j.for \in {"event", "expired"} \/ j.deciding => j.msg \in Delivery
    /\ j.deciding /\ j.todo # <<>> =>
          /\ j.todo = <<Handlers!UpdateStep(j.msg.saga, j.msg.step, "completed")>>
          /\ shared.step[j.msg.saga][j.msg.step] = "in_progress"

SharedKept ==
    /\ shared \in Shared /\ IsFiniteSet(shared.outbox)
    /\ second \in Nat /\ sagas \in Nat /\ asked \in Nat
    /\ retries \in [Handlers!Sagas -> Nat]
    /\ deliveries \subseteq Delivery

JobsKept ==
    /\ job \in [Threads -> Job]
    /\ \A t \in Threads : Fits(job[t]) /\ Paid(job[t])

HandlersKept == SharedKept /\ JobsKept

-----------------------------------------------------------------------------
(* The handlers: the steps.                                                *)

\* Without the goroutine's debts the requests pay for what was dispatched.
LEMMA SpentIsPaid ==
    ASSUME HandlersKept, NEW t \in Threads, NEW g \in Handlers!Sagas, NEW s \in Handlers!Steps,
           ~Excused(s)
    PROVE  Spent(shared, g, s) <= asked /\ Spent(shared, g, s) \in Nat /\ asked \in Nat
<1>1. Spent(shared, g, s) + One(Due(job[t], g, s)) <= asked
  BY DEF HandlersKept, JobsKept, Paid
<1>2. Spent(shared, g, s) \in Nat /\ asked \in Nat
  BY SpentIsNat DEF HandlersKept, SharedKept
<1>3. One(Due(job[t], g, s)) \in {0, 1}
  BY DEF One
<1> QED  BY <1>1, <1>2, <1>3

\* The one goroutine takes something up, or goes on with it, or lets it go.
LEMMA JobChanges ==
    ASSUME JobsKept, NEW u, Threads = {u}, NEW j \in Job, job' = [job EXCEPT ![u] = j],
           Fits(j)', Paid(j)'
    PROVE  JobsKept'
<1>1. job' \in [Threads -> Job] /\ \A t \in Threads : job'[t] = j
  BY DEF JobsKept
<1> QED  BY <1>1 DEF JobsKept

LEMMA IdleFits ==
    /\ Handlers!Idle \in Job
    /\ \A g, s : ~Due(Handlers!Idle, g, s) /\ Once(Handlers!Idle.todo, g, s)
    /\ Handlers!Idle.for = "nobody" /\ ~Handlers!Idle.deciding
<1> DEFINE i == Handlers!Idle
<1>1. /\ i = [for |-> "nobody", msg |-> Handlers!NoMessage, todo |-> <<>>, deciding |-> FALSE]
      /\ <<>> \in Seq(HandlerCall)
  BY DEF Handlers!Idle
<1>2. i \in Job /\ i.todo = <<>> /\ i.deciding = FALSE /\ i.for = "nobody"
  BY <1>1 DEF Job
<1> QED  BY <1>2 DEF Due, Owes, Once

\* Calls that open nothing leave nothing due.
LEMMA IdlesOwesNothing ==
    ASSUME NEW j \in Job, Idles(j.todo), ~j.deciding
    PROVE  \A g, s : ~Due(j, g, s) /\ Once(j.todo, g, s)
BY DEF Idles, Due, Owes, Once

\* A request pays for what it dispatches.
LEMMA RequestKeeps ==
    ASSUME HandlersKept, NEW u, Threads = {u}, NEW t \in Threads, NEW q \in Seq(HandlerCall),
           \A g, s : Once(q, g, s), Handlers!Request(t, q)
    PROVE  JobsKept' /\ asked' \in Nat
<1> PICK j : j = [for |-> "request", msg |-> Handlers!NoMessage, todo |-> q,
                  deciding |-> FALSE]
  OBVIOUS
<1>1. job' = [job EXCEPT ![u] = j] /\ asked' = asked + 1 /\ shared' = shared
  BY DEF Handlers!Request, Handlers!Works
<1>2. j \in Job
  BY DEF Job
<1>3. Fits(j)'
  BY DEF Fits
<1>4. asked \in Nat
  BY DEF HandlersKept, SharedKept
<1>5. ASSUME NEW g \in Handlers!Sagas, NEW s \in Handlers!Steps, ~Excused(s)
      PROVE  Spent(shared, g, s) + One(Due(j, g, s)) <= asked + 1
  <2>1. One(Due(j, g, s)) \in {0, 1}
    BY DEF One
  <2> QED  BY <1>5, <2>1, SpentIsPaid
<1>6. Paid(j)'
  <2>1. asked' = asked + 1 /\ shared' = shared
    BY <1>1
  <2> QED  BY <1>5, <2>1 DEF Paid
<1>7. JobsKept'
  BY <1>1, <1>2, <1>3, <1>6, JobChanges DEF HandlersKept
<1>8. asked' \in Nat
  BY <1>1, <1>4
<1> QED  BY <1>7, <1>8

\* A handler that will open nothing, at whatever message.
LEMMA IdleJobKeeps ==
    ASSUME HandlersKept, NEW u, Threads = {u}, NEW j \in Job, job' = [job EXCEPT ![u] = j],
           shared' = shared, asked' = asked,
           \A g, s : ~Due(j, g, s) /\ Once(j.todo, g, s),
           j.for \in {"event", "expired"} => j.msg \in Delivery, ~j.deciding
    PROVE  JobsKept'
<1>1. Fits(j)'
  BY DEF Fits
<1>2. ASSUME NEW g \in Handlers!Sagas, NEW s \in Handlers!Steps, ~Excused(s)
      PROVE  Spent(shared, g, s) + One(Due(j, g, s)) <= asked
  BY <1>2, SpentIsPaid DEF One
<1>3. Paid(j)'
  BY <1>2 DEF Paid
<1> QED  BY <1>1, <1>3, JobChanges DEF HandlersKept

\* Calls that a request may make.
Orderly(q) == q \in Seq(HandlerCall) /\ \A g, s : Once(q, g, s)

LEMMA IdlesOrderly == ASSUME NEW q, Idles(q) PROVE Orderly(q)
BY DEF Idles, Orderly, Owes, Once

LEMMA LeadsOrderly == ASSUME NEW q, NEW g, NEW s, Leads(q, g, s) PROVE Orderly(q)
BY DEF Leads, Orderly

\* What the Creator asks for opens a step at most once.
LEMMA CreatorAsks ==
    ASSUME SharedKept, NEW t, Handlers!Creator(t)
    PROVE  \E q : /\ Orderly(q) /\ Handlers!Request(t, q) /\ sagas' \in Nat
                  /\ retries' \in [Handlers!Sagas -> Nat]
<1>1. /\ shared \in Shared /\ second \in Nat /\ sagas \in Nat /\ sagas + 1 \in Nat
      /\ retries \in [Handlers!Sagas -> Nat] /\ 0 \in Nat
  BY DEF SharedKept
<1>2. \A g : [retries EXCEPT ![g] = 0] \in [Handlers!Sagas -> Nat]
  <2> SUFFICES ASSUME NEW g PROVE [retries EXCEPT ![g] = 0] \in [Handlers!Sagas -> Nat]
    OBVIOUS
  <2> QED  BY <1>1
<1>3. Handlers!project \in ProjectRow
  BY <1>1 DEF Handlers!project, Shared
<1>4. Handlers!project.saga \in Nat /\ Handlers!project.script \in Nat
  BY <1>3 DEF ProjectRow
<1>5. "validate_script" \in Handlers!Steps /\ "publish_video" \in Handlers!Steps
  BY EarlierAre
<1>6. "draft" \in Handlers!Statuses
  BY DEF Handlers!Statuses, Handlers!Resting
<1>7. CASE Handlers!StartRender(t)
  <2>1. PICK chosen \in [review : BOOLEAN, tts : BOOLEAN] :
           LET p == [status |-> "draft", saga |-> sagas + 1,
                     script |-> Handlers!project.script + 1, outline |-> 0,
                     config |-> chosen]
           IN  Handlers!Request(t, <<Handlers!Save(p)>>
                                      \o Handlers!Opening(p.saga, "validate_script", p))
    BY <1>7 DEF Handlers!StartRender
  <2> DEFINE p == [status |-> "draft", saga |-> sagas + 1,
                   script |-> Handlers!project.script + 1, outline |-> 0, config |-> chosen]
  <2>2. p \in ProjectRow /\ p.saga \in Nat
    BY <1>1, <1>4, <1>6 DEF ProjectRow
  <2>3. Handlers!Request(t, <<Handlers!Save(p)>>
                               \o Handlers!Opening(p.saga, "validate_script", p))
    BY <2>1
  <2> HIDE DEF p
  <2>4. Leads(<<Handlers!Save(p)>> \o Handlers!Opening(p.saga, "validate_script", p),
              p.saga, "validate_script")
    BY <1>1, <1>5, <2>2, SaveIdles, OpeningLeads, LeadsAfter
  <2>5. sagas' \in Nat /\ retries' \in [Handlers!Sagas -> Nat]
    BY <1>1, <1>2, <1>7 DEF Handlers!StartRender
  <2> QED  BY <2>3, <2>4, <2>5, LeadsOrderly
<1>8. CASE Handlers!StartPublish(t)
  <2> DEFINE p == [Handlers!project EXCEPT !.saga = sagas + 1]
  <2>1. p \in ProjectRow /\ p.saga \in Nat
    BY <1>1, <1>3 DEF ProjectRow
  <2>2. Handlers!Request(t, <<Handlers!Save(p)>>
                               \o Handlers!Opening(p.saga, "publish_video", p))
    BY <1>8 DEF Handlers!StartPublish
  <2> HIDE DEF p
  <2>3. Leads(<<Handlers!Save(p)>> \o Handlers!Opening(p.saga, "publish_video", p),
              p.saga, "publish_video")
    BY <1>1, <1>5, <2>1, SaveIdles, OpeningLeads, LeadsAfter
  <2>4. sagas' \in Nat /\ retries' \in [Handlers!Sagas -> Nat]
    BY <1>1, <1>2, <1>8 DEF Handlers!StartPublish
  <2> QED  BY <2>2, <2>3, <2>4, LeadsOrderly
<1>9. ASSUME NEW s \in Handlers!Steps, Handlers!RetryStep(t, s) \/ Handlers!CancelStep(t, s)
      PROVE  \E q : /\ Orderly(q) /\ Handlers!Request(t, q) /\ sagas' \in Nat
                    /\ retries' \in [Handlers!Sagas -> Nat]
  <2>1. CASE Handlers!RetryStep(t, s)
    <3>1. Leads(Handlers!Opening(Handlers!project.saga, s, Handlers!project),
                Handlers!project.saga, s)
      BY <1>1, <1>3, <1>4, OpeningLeads
    <3>2. sagas' \in Nat /\ retries' \in [Handlers!Sagas -> Nat]
      BY <1>1, <1>2, <2>1 DEF Handlers!RetryStep
    <3> QED  BY <2>1, <3>1, <3>2, LeadsOrderly DEF Handlers!RetryStep
  <2>2. CASE Handlers!CancelStep(t, s)
    <3>1. Idles(<<Handlers!PublishCancel(second)>> \o Handlers!Failing(Handlers!project.saga, s))
      BY <1>1, <1>4, CancelIdles, FailingIdles, IdlesAfter
    <3>2. sagas' \in Nat /\ retries' \in [Handlers!Sagas -> Nat]
      BY <1>1, <1>2, <2>2 DEF Handlers!CancelStep
    <3> QED  BY <2>2, <3>1, <3>2, IdlesOrderly DEF Handlers!CancelStep
  <2> QED  BY <1>9, <2>1, <2>2
<1>10. CASE Handlers!Approve(t)
  <2>1. PICK q \in Handlers!AfterValidation(Handlers!project.saga, Handlers!project) :
           Handlers!Request(t, q)
    BY <1>10 DEF Handlers!Approve
  <2>2. Orderly(q)
    BY <1>1, <1>3, <1>4, ValidatedLeads, LeadsOrderly
  <2>3. sagas' \in Nat /\ retries' \in [Handlers!Sagas -> Nat]
    BY <1>1, <1>2, <1>10 DEF Handlers!Approve
  <2> QED  BY <2>1, <2>2, <2>3
<1>11. CASE Handlers!EditNarration(t)
  <2> DEFINE p == [Handlers!project EXCEPT !.script = @ + 1]
  <2>1. p \in ProjectRow /\ p.saga \in Nat /\ p.script \in Nat
    BY <1>3, <1>4 DEF ProjectRow
  <2>2. Handlers!Request(t,
           <<Handlers!Save(p), Handlers!UpdateStep(p.saga, "validate_script", "in_progress"),
             Handlers!UpdateStatus("validating_script"),
             Handlers!PublishCommand(p.saga, "validate_script", p.script, 0)>>)
    BY <1>11 DEF Handlers!EditNarration, Handlers!NoStamp
  <2> HIDE DEF p
  <2>3. Leads(<<Handlers!Save(p), Handlers!UpdateStep(p.saga, "validate_script", "in_progress"),
                Handlers!UpdateStatus(Handlers!stepInProgressStatus["validate_script"]),
                Handlers!PublishCommand(p.saga, "validate_script", p.script, 0)>>,
              p.saga, "validate_script")
    BY <1>1, <1>5, <2>1, Opening
  <2>4. Handlers!stepInProgressStatus["validate_script"] = "validating_script"
    BY <1>5 DEF Handlers!stepInProgressStatus
  <2>5. Orderly(<<Handlers!Save(p), Handlers!UpdateStep(p.saga, "validate_script", "in_progress"),
                  Handlers!UpdateStatus("validating_script"),
                  Handlers!PublishCommand(p.saga, "validate_script", p.script, 0)>>)
    BY <2>3, <2>4, LeadsOrderly
  <2>6. sagas' \in Nat /\ retries' \in [Handlers!Sagas -> Nat]
    BY <1>1, <1>2, <1>11 DEF Handlers!EditNarration
  <2> QED  BY <2>2, <2>5, <2>6
<1>12. CASE Handlers!Reject(t)
  <2>1. Orderly(<<Handlers!UpdateStatus("draft")>>)
    BY <1>6, StatusIdles, IdlesOrderly
  <2>2. sagas' \in Nat /\ retries' \in [Handlers!Sagas -> Nat]
    BY <1>1, <1>2, <1>12 DEF Handlers!Reject
  <2> QED  BY <1>12, <2>1, <2>2 DEF Handlers!Reject
<1> QED  BY <1>7, <1>8, <1>9, <1>10, <1>11, <1>12 DEF Handlers!Creator

LEMMA CreatorKeeps ==
    ASSUME HandlersKept, NEW u, Threads = {u}, NEW t \in Threads, Handlers!Creator(t)
    PROVE  HandlersKept'
<1>1. PICK q : /\ Orderly(q) /\ Handlers!Request(t, q) /\ sagas' \in Nat
               /\ retries' \in [Handlers!Sagas -> Nat]
  BY CreatorAsks DEF HandlersKept
<1>2. JobsKept' /\ asked' \in Nat
  BY <1>1, RequestKeeps DEF Orderly
<1>3. UNCHANGED <<shared, deliveries, second>>
  BY <1>1 DEF Handlers!Request
<1> QED  BY <1>1, <1>2, <1>3 DEF HandlersKept, SharedKept

\* Workers answer once for a command.
LEMMA WorkerKeeps ==
    ASSUME HandlersKept, Handlers!Worker PROVE HandlersKept'
<1>1. SharedKept
  BY DEF HandlersKept
<1>2. PICK c \in Handlers!Outstanding : Handlers!Answer(c) \/ Handlers!DropCancelled(c)
  BY DEF Handlers!Worker
<1>3. c \in OutboxCommand
  BY <1>1 DEF Handlers!Outstanding, SharedKept, Shared
<1>4. UNCHANGED <<shared, retries, job, sagas, second, asked>>
  BY <1>2 DEF Handlers!Answer, Handlers!DropCancelled
<1>5. CASE Handlers!DropCancelled(c)
  <2>1. deliveries' = deliveries
    BY <1>5 DEF Handlers!DropCancelled
  <2> QED  BY <1>4, <2>1 DEF HandlersKept, SharedKept, JobsKept, Fits, Paid
<1>6. CASE Handlers!Answer(c)
  <2>1. PICK k \in {"ok", "failed", "engine_failure"} :
           /\ deliveries' = deliveries \cup {[id |-> c.id, saga |-> c.saga, step |-> c.step,
                                 script |-> c.script, kind |-> k, attempts |-> 0]}
           /\ k = "engine_failure" => c.step = "synthesize_speech"
    BY <1>6 DEF Handlers!Answer
  <2> DEFINE e == [id |-> c.id, saga |-> c.saga, step |-> c.step, script |-> c.script,
                   kind |-> k, attempts |-> 0]
  <2>2. e \in Delivery /\ e.kind = k /\ e.step = c.step
    BY <1>3, <2>1 DEF Delivery, OutboxCommand
  <2>3. deliveries' = deliveries \cup {e}
    BY <2>1
  <2> HIDE DEF e
  <2>4. SharedKept'
    BY <1>1, <1>4, <2>1, <2>2, <2>3 DEF SharedKept
  <2> QED  BY <1>4, <2>4 DEF HandlersKept, JobsKept, Fits, Paid
<1> QED  BY <1>2, <1>5, <1>6

\* One command sent opens its own step and no other.
LEMMA CommandOpensItsStep ==
    ASSUME NEW g \in Nat, NEW s \in Handlers!Steps, NEW text \in Nat, NEW stamp \in Nat
    PROVE  /\ Orderly(<<Handlers!PublishCommand(g, s, text, stamp)>>)
           /\ \A h, x : Owes(<<Handlers!PublishCommand(g, s, text, stamp)>>, h, x)
                           => h = g /\ x = s
<1> DEFINE d == Handlers!PublishCommand(g, s, text, stamp)
<1>1. Orderly(<<d>>)
  BY Opening, LeadsOrderly
<1>2. d \in PublishCall /\ d \notin StepCall /\ d.saga = g /\ d.step = s
  BY DEF Handlers!PublishCommand, PublishCall, StepCall
<1> HIDE DEF d
<1>3. \A h, x : Owes(<<d>>, h, x) => h = g /\ x = s
  BY <1>2 DEF Owes, Opens
<1> QED  BY <1>1, <1>3 DEF d

\* A handler of a message owes nothing when it fails the step.
LEMMA FailingKeeps ==
    ASSUME HandlersKept, NEW u, Threads = {u},
           NEW who \in {"event", "dead_letter", "expired"},
           NEW m \in Delivery \cup OutboxCommand, who # "dead_letter" => m \in Delivery,
           job' = [job EXCEPT ![u] = [for |-> who, msg |-> m,
                      todo |-> Handlers!Failing(m.saga, m.step), deciding |-> FALSE]],
           shared' = shared, asked' = asked
    PROVE  JobsKept'
<1> DEFINE q == Handlers!Failing(m.saga, m.step)
           j == [for |-> who, msg |-> m, todo |-> q, deciding |-> FALSE]
<1>1. m.saga \in Nat /\ m.step \in Handlers!Steps
  BY DEF Delivery, OutboxCommand
<1>2. Idles(q)
  BY <1>1, FailingIdles
<1> HIDE DEF q
<1>3. j \in Job /\ j.todo = q /\ ~j.deciding /\ j.for = who /\ j.msg = m
  BY <1>2 DEF Job, Idles
<1>4. job' = [job EXCEPT ![u] = j]
  BY DEF q
<1> HIDE DEF j
<1>5. \A g, s : ~Due(j, g, s) /\ Once(j.todo, g, s)
  BY <1>2, <1>3, IdlesOwesNothing
<1> QED  BY <1>3, <1>4, <1>5, IdleJobKeeps

\* A delivery is dropped, fails its step, is sent again, or completes its step.
LEMMA DeliveryKeeps ==
    ASSUME HandlersKept, NEW u, Threads = {u}, Handlers!Delivery(u)
    PROVE  HandlersKept'
<1>1. SharedKept /\ JobsKept
  BY DEF HandlersKept
<1>2. ASSUME NEW c \in Handlers!Outstanding, Handlers!handleDLQDelivery(u, c)
      PROVE  HandlersKept'
  <2>1. c \in OutboxCommand
    BY <1>1 DEF Handlers!Outstanding, SharedKept, Shared
  <2>2. /\ UNCHANGED <<shared, deliveries, retries, sagas, second, asked>>
        /\ job' = [job EXCEPT ![u] = [for |-> "dead_letter", msg |-> c,
                      todo |-> Handlers!Failing(c.saga, c.step), deciding |-> FALSE]]
    BY <1>2 DEF Handlers!handleDLQDelivery, Handlers!DeadLetter, Handlers!Works
  <2>3. JobsKept'
    BY <2>1, <2>2, FailingKeeps
  <2> QED  BY <1>1, <2>2, <2>3 DEF HandlersKept, SharedKept
<1>3. ASSUME NEW e \in deliveries,
             \/ Handlers!SkipEvent(u, e) \/ Handlers!handleEventsDLQDelivery(u, e)
             \/ Handlers!handleFailure(u, e)
             \/ Handlers!retryTransientSynthesisFailure(u, e)
             \/ Handlers!CompleteStep(u, e)
      PROVE  HandlersKept'
  <2>1. e \in Delivery
    BY <1>1 DEF SharedKept
  <2>2. e.saga \in Nat /\ e.step \in Handlers!Steps
    BY <2>1 DEF Delivery
  <2>3. CASE Handlers!SkipEvent(u, e)
    <3>1. /\ UNCHANGED <<shared, retries, job, sagas, second, asked>>
          /\ deliveries' \subseteq deliveries
      BY <2>3 DEF Handlers!SkipEvent
    <3> QED  BY <1>1, <3>1 DEF HandlersKept, SharedKept, JobsKept, Fits, Paid
  <2>4. CASE Handlers!handleEventsDLQDelivery(u, e)
    <3>1. /\ UNCHANGED <<shared, deliveries, retries, sagas, second, asked>>
          /\ job' = [job EXCEPT ![u] = [for |-> "expired", msg |-> e,
                        todo |-> Handlers!Failing(e.saga, e.step), deciding |-> FALSE]]
      BY <2>4 DEF Handlers!handleEventsDLQDelivery, Handlers!DeadLetter, Handlers!Works
    <3>2. JobsKept'
      BY <2>1, <3>1, FailingKeeps
    <3> QED  BY <1>1, <3>1, <3>2 DEF HandlersKept, SharedKept
  <2>5. CASE Handlers!handleFailure(u, e)
    <3>1. /\ UNCHANGED <<shared, deliveries, sagas, second, asked>>
          /\ job' = [job EXCEPT ![u] = [for |-> "event", msg |-> e,
                        todo |-> Handlers!Failing(e.saga, e.step), deciding |-> FALSE]]
          /\ retries' = retries \/ retries' = [retries EXCEPT ![e.saga] = 0]
      BY <2>5 DEF Handlers!handleFailure, Handlers!Delivered, Handlers!Works
    <3>2. JobsKept'
      BY <2>1, <3>1, FailingKeeps
    <3>3. retries' \in [Handlers!Sagas -> Nat]
      BY <1>1, <3>1 DEF SharedKept
    <3> QED  BY <1>1, <3>1, <3>2, <3>3 DEF HandlersKept, SharedKept
  <2>6. CASE Handlers!retryTransientSynthesisFailure(u, e)
    <3> PICK q : q = <<Handlers!PublishCommand(e.saga, e.step, Handlers!project.script, second)>>
      OBVIOUS
    <3> PICK j : j = [for |-> "event", msg |-> e, todo |-> q, deciding |-> FALSE]
      OBVIOUS
    <3>1. /\ UNCHANGED <<shared, deliveries, sagas, second, asked>>
          /\ job' = [job EXCEPT ![u] = j]
          /\ retries' = [retries EXCEPT ![e.saga] = @ + 1]
          /\ e.kind = "engine_failure" /\ retries[e.saga] < SynthesisRetries
      BY <2>6 DEF Handlers!retryTransientSynthesisFailure, Handlers!Delivered, Handlers!Works
    <3>2. e.step = "synthesize_speech"
      BY <2>1, <3>1 DEF Delivery
    <3>3. Handlers!project.script \in Nat /\ second \in Nat
      BY <1>1 DEF SharedKept, Shared, ProjectRow, Handlers!project
    <3>4. Orderly(q) /\ \A h, x : Owes(q, h, x) => h = e.saga /\ x = e.step
      BY <2>2, <3>3, CommandOpensItsStep
    <3>5. /\ j \in Job /\ j.todo = q /\ ~j.deciding /\ j.for = "event" /\ j.msg = e
      BY <2>1, <3>4 DEF Job, Orderly
    <3>6. Fits(j)'
      BY <2>1, <3>4, <3>5 DEF Fits, Orderly
    <3>7. ASSUME NEW g \in Handlers!Sagas, NEW s \in Handlers!Steps, ~Excused(s)
          PROVE  ~Due(j, g, s)
      <4>1. SUFFICES ASSUME g = e.saga, s = e.step PROVE FALSE
        BY <3>4, <3>5 DEF Due
      <4>2. ~(SynthesisRetries > 0)
        BY <3>2, <3>7, <4>1 DEF Excused
      <4>3. retries[g] \in Nat /\ retries[g] < SynthesisRetries /\ SynthesisRetries \in Nat
        BY <1>1, <3>1, <4>1, HandlersAssumption DEF SharedKept, Handlers!CountsAssumption
      <4> QED  BY <4>2, <4>3
    <3>8. ASSUME NEW g \in Handlers!Sagas, NEW s \in Handlers!Steps, ~Excused(s)
           PROVE  Spent(shared, g, s) + One(Due(j, g, s)) <= asked
      <4>1. ~Due(j, g, s)
        BY <3>7, <3>8
      <4> QED  BY <3>8, <4>1, SpentIsPaid DEF One
    <3>9. shared' = shared /\ asked' = asked
      BY <3>1
    <3>10. Paid(j)'
      BY <3>8, <3>9 DEF Paid
    <3>11. retries' \in [Handlers!Sagas -> Nat]
      <4>1. retries \in [Handlers!Sagas -> Nat] /\ \A g \in Handlers!Sagas : retries[g] + 1 \in Nat
        BY <1>1 DEF SharedKept
      <4>2. retries' = [retries EXCEPT ![e.saga] = retries[e.saga] + 1]
        BY <3>1
      <4> QED  BY <4>1, <4>2
    <3> QED  BY <1>1, <3>1, <3>5, <3>6, <3>10, <3>11, JobChanges DEF HandlersKept, SharedKept
  <2>7. CASE Handlers!CompleteStep(u, e)
    <3> DEFINE q == <<Handlers!UpdateStep(e.saga, e.step, "completed")>>
               j == [for |-> "event", msg |-> e, todo |-> q, deciding |-> TRUE]
    <3>1. /\ UNCHANGED <<shared, deliveries, retries, sagas, second, asked>>
          /\ job' = [job EXCEPT ![u] = j]
          /\ shared.step[e.saga][e.step] = "in_progress"
      BY <2>7 DEF Handlers!CompleteStep, Handlers!Delivered, Handlers!Works, Handlers!Current
    <3>2. Idles(q) /\ q # <<>>
      BY <2>2, ClosingIdles DEF Handlers!StepStatuses
    <3>3. j \in Job /\ j.todo = q /\ j.deciding /\ j.for = "event" /\ j.msg = e
      BY <2>1, <3>2 DEF Job, Idles
    <3>4. \A g, s : Once(j.todo, g, s) /\ ~Due(j, g, s)
      BY <3>2, <3>3 DEF Idles, Owes, Once, Due
    <3>5. j.todo = <<Handlers!UpdateStep(j.msg.saga, j.msg.step, "completed")>>
      BY <3>3
    <3> HIDE DEF q, j
    <3>6. Fits(j)'
      BY <2>1, <3>1, <3>3, <3>4, <3>5 DEF Fits
    <3>7. Paid(j)'
      BY <3>1, <3>4, SpentIsPaid DEF Paid, One
    <3> QED  BY <1>1, <3>1, <3>3, <3>6, <3>7, JobChanges DEF HandlersKept, SharedKept
  <2> QED  BY <1>3, <2>3, <2>4, <2>5, <2>6, <2>7
<1> QED  BY <1>2, <1>3 DEF Handlers!Delivery

\* The first of some calls and the rest of them.
LEMMA HeadAndTail ==
    ASSUME NEW q \in Seq(HandlerCall), q # <<>>
    PROVE  /\ Head(q) \in HandlerCall /\ Tail(q) \in Seq(HandlerCall)
           /\ 1 \in DOMAIN q /\ q[1] = Head(q)
           /\ \A i \in DOMAIN Tail(q) :
                 i \in Nat /\ i + 1 \in DOMAIN q /\ i + 1 # 1 /\ Tail(q)[i] = q[i + 1]
OBVIOUS

\* A call that opens a step leaves none to open it again.
LEMMA HeadOpensOnce ==
    ASSUME NEW q \in Seq(HandlerCall), q # <<>>, NEW g, NEW s, \A h, x : Once(q, h, x)
    PROVE  /\ Once(Tail(q), g, s)
           /\ Opens(Head(q), g, s) => Owes(q, g, s) /\ ~Owes(Tail(q), g, s)
           /\ Owes(Tail(q), g, s) => Owes(q, g, s)
<1>1. /\ 1 \in DOMAIN q /\ q[1] = Head(q)
      /\ \A i \in DOMAIN Tail(q) :
            i \in Nat /\ i + 1 \in DOMAIN q /\ i + 1 # 1 /\ Tail(q)[i] = q[i + 1]
  BY HeadAndTail
<1>2. Once(Tail(q), g, s)
  <2> SUFFICES ASSUME NEW i \in DOMAIN Tail(q), NEW k \in DOMAIN Tail(q),
                      Opens(Tail(q)[i], g, s), Opens(Tail(q)[k], g, s)
               PROVE  i = k
    BY DEF Once
  <2>1. i + 1 = k + 1
    BY <1>1 DEF Once
  <2> QED  BY <1>1, <2>1
<1>3. Opens(Head(q), g, s) => Owes(q, g, s) /\ ~Owes(Tail(q), g, s)
  BY <1>1 DEF Owes, Once
<1>4. Owes(Tail(q), g, s) => Owes(q, g, s)
  BY <1>1 DEF Owes
<1> QED  BY <1>2, <1>3, <1>4

\* One call of a handler that has decided.
LEMMA DecidedCallKeeps ==
    ASSUME HandlersKept, NEW u, Threads = {u}, Handlers!Call(u), ~job[u].deciding
    PROVE  HandlersKept'
<1> DEFINE j == job[u]
           c == Head(j.todo)
<1> PICK k : k = [j EXCEPT !.todo = Tail(j.todo)]
  OBVIOUS
<1>1. SharedKept /\ JobsKept
  BY DEF HandlersKept
<1>2. j \in Job /\ Fits(j) /\ Paid(j)
  BY <1>1 DEF JobsKept
<1>3. j.todo \in Seq(HandlerCall) /\ j.todo # <<>>
  BY <1>2 DEF Job, Handlers!Call
<1>4. /\ shared' = Handlers!Do(shared, c) /\ job' = [job EXCEPT ![u] = k]
      /\ UNCHANGED <<deliveries, retries, sagas, second, asked>>
  BY <1>1 DEF Handlers!Call, JobsKept
<1>5. c \in HandlerCall /\ Tail(j.todo) \in Seq(HandlerCall)
  BY <1>3, HeadAndTail
<1>6. \A g, s : /\ Once(Tail(j.todo), g, s)
                /\ Opens(c, g, s) => Owes(j.todo, g, s) /\ ~Owes(Tail(j.todo), g, s)
                /\ Owes(Tail(j.todo), g, s) => Owes(j.todo, g, s)
  BY <1>2, <1>3, HeadOpensOnce DEF Fits
<1>7. /\ k \in Job /\ k.todo = Tail(j.todo) /\ k.deciding = j.deciding
      /\ k.for = j.for /\ k.msg = j.msg
  BY <1>2, <1>5 DEF Job
<1>8. ASSUME NEW g \in Handlers!Sagas, NEW s \in Handlers!Steps
      PROVE  /\ Handlers!Do(shared, c) \in Shared /\ IsFiniteSet(Handlers!Do(shared, c).outbox)
             /\ Spent(Handlers!Do(shared, c), g, s) <= Spent(shared, g, s) + One(Opens(c, g, s))
             /\ Spent(Handlers!Do(shared, c), g, s) \in Nat /\ Spent(shared, g, s) \in Nat
  <2>1. shared \in Shared /\ IsFiniteSet(shared.outbox)
    BY <1>1 DEF SharedKept
  <2>2. /\ Handlers!Do(shared, c) \in Shared /\ IsFiniteSet(Handlers!Do(shared, c).outbox)
        /\ Spent(Handlers!Do(shared, c), g, s) <= Spent(shared, g, s) + One(Opens(c, g, s))
    BY <1>5, <2>1, CallCosts
  <2> QED  BY <2>1, <2>2, SpentIsNat
<1> HIDE DEF c
<1>9. Fits(k)'
  BY <1>2, <1>6, <1>7 DEF Fits
<1>10. Paid(k)'
  <2> SUFFICES ASSUME NEW g \in Handlers!Sagas, NEW s \in Handlers!Steps, ~Excused(s)
               PROVE  Spent(shared', g, s) + One(Due(k, g, s)) <= asked
    BY <1>4 DEF Paid
  <2>1. Spent(shared, g, s) + One(Due(j, g, s)) <= asked /\ asked \in Nat
    BY <1>1, <1>2 DEF Paid, SharedKept
  <2>2. Due(k, g, s) <=> Owes(Tail(j.todo), g, s)
    BY <1>7 DEF Due
  <2>3. Due(j, g, s) <=> Owes(j.todo, g, s)
    BY DEF Due
  <2>4. Spent(shared', g, s) <= Spent(shared, g, s) + One(Opens(c, g, s))
        /\ Spent(shared', g, s) \in Nat /\ Spent(shared, g, s) \in Nat
    BY <1>4, <1>8
  <2> HIDE DEF j
  <2> QED  BY <1>6, <2>1, <2>2, <2>3, <2>4 DEF One
<1>11. shared' \in Shared /\ IsFiniteSet(shared'.outbox)
  BY <1>1, <1>4, <1>5, CallKeepsShape DEF SharedKept
<1> QED  BY <1>1, <1>4, <1>7, <1>9, <1>10, <1>11, JobChanges DEF HandlersKept, SharedKept

\* The call that completes the step an event is about.
LEMMA CompletingCallKeeps ==
    ASSUME HandlersKept, NEW u, Threads = {u}, Handlers!Call(u), job[u].deciding
    PROVE  HandlersKept'
<1> DEFINE j == job[u]
           e == j.msg
           c == Handlers!UpdateStep(e.saga, e.step, "completed")
<1> PICK k : k = [j EXCEPT !.todo = Tail(j.todo)]
  OBVIOUS
<1>1. SharedKept /\ JobsKept
  BY DEF HandlersKept
<1>2. j \in Job /\ Fits(j) /\ Paid(j)
  BY <1>1 DEF JobsKept
<1>3. e \in Delivery /\ j.todo = <<c>> /\ shared.step[e.saga][e.step] = "in_progress"
  BY <1>2 DEF Fits, Handlers!Call
<1>4. e.saga \in Nat /\ e.step \in Handlers!Steps
  BY <1>3 DEF Delivery
<1>5. c \in HandlerCall /\ \A g, s : ~Opens(c, g, s)
  <2>1. Idles(<<c>>)
    BY <1>4, ClosingIdles DEF Handlers!StepStatuses
  <2> HIDE DEF c
  <2> QED  BY <2>1 DEF Idles, Owes
<1>6. /\ shared' = Handlers!Do(shared, c) /\ job' = [job EXCEPT ![u] = k]
      /\ UNCHANGED <<deliveries, retries, sagas, second, asked>> /\ Tail(j.todo) = <<>>
  <2>1. Head(<<c>>) = c /\ Tail(<<c>>) = <<>>
    OBVIOUS
  <2> QED  BY <1>1, <1>3, <2>1 DEF Handlers!Call, JobsKept
<1>7. <<>> \in Seq(HandlerCall)
  OBVIOUS
<1>8. /\ k \in Job /\ k.todo = <<>> /\ k.deciding = TRUE /\ k.for = j.for /\ k.msg = e
  BY <1>2, <1>6, <1>7 DEF Job
<1>9. shared \in Shared /\ IsFiniteSet(shared.outbox)
  BY <1>1 DEF SharedKept
<1>10. ASSUME NEW g \in Handlers!Sagas, NEW s \in Handlers!Steps, ~Excused(s)
      PROVE  Spent(Handlers!Do(shared, c), g, s) + One(Due(k, g, s)) <= asked
  <2>1. Spent(shared, g, s) <= asked /\ asked \in Nat /\ Spent(shared, g, s) \in Nat
    BY <1>10, SpentIsPaid
  <2>2. Handlers!Do(shared, c) \in Shared /\ IsFiniteSet(Handlers!Do(shared, c).outbox)
        /\ Spent(Handlers!Do(shared, c), g, s) <= Spent(shared, g, s) + One(Opens(c, g, s))
    BY <1>5, <1>9, CallCosts
  <2>3. Spent(Handlers!Do(shared, c), g, s) \in Nat
    BY <2>2, SpentIsNat
  <2>4. CASE Due(k, g, s)
    <3>1. e.saga = g /\ e.step \in Handlers!Earlier[s]
      BY <1>8, <2>4 DEF Due, Owes
    <3>2. Spent(Handlers!Do(shared, c), g, s) + 1 <= Spent(shared, g, s)
      BY <1>3, <1>4, <1>9, <3>1, CompletionPays
    <3> QED  BY <2>1, <2>3, <2>4, <3>2 DEF One
  <2>5. CASE ~Due(k, g, s)
    BY <1>5, <2>1, <2>2, <2>3, <2>5 DEF One
  <2> QED  BY <2>4, <2>5
<1>11. shared' \in Shared /\ IsFiniteSet(shared'.outbox)
  BY <1>5, <1>6, <1>9, CallKeepsShape
<1> HIDE DEF c
<1>12. Fits(k)'
  BY <1>3, <1>8 DEF Fits, Once
<1>13. Paid(k)'
  BY <1>6, <1>10 DEF Paid
<1> QED  BY <1>1, <1>6, <1>8, <1>11, <1>12, <1>13, JobChanges DEF HandlersKept, SharedKept

\* What comes before a step comes before what it comes before.
LEMMA EarlierIsTransitive ==
    ASSUME NEW r \in Handlers!Steps, NEW s \in Handlers!Steps, NEW x \in Handlers!Steps,
           r \in Handlers!Earlier[s], s \in Handlers!Earlier[x]
    PROVE  r \in Handlers!Earlier[x]
BY EarlierAre

\* A handler that decides owes what it owed while it had still to decide.
LEMMA DecideKeeps ==
    ASSUME HandlersKept, NEW u, Threads = {u}, Handlers!Decide(u)
    PROVE  HandlersKept'
<1> DEFINE j == job[u]
           e == j.msg
<1>1. SharedKept /\ JobsKept
  BY DEF HandlersKept
<1>2. j \in Job /\ Fits(j) /\ Paid(j) /\ j.deciding /\ j.todo = <<>>
  BY <1>1 DEF JobsKept, Handlers!Decide
<1>3. e \in Delivery /\ Handlers!project \in ProjectRow /\ second \in Nat
  BY <1>1, <1>2 DEF Fits, SharedKept, Shared, Handlers!project
<1>4. PICK q \in Handlers!handleSuccess(e, Handlers!project) :
         job' = [job EXCEPT ![u].todo = q, ![u].deciding = FALSE]
  BY DEF Handlers!Decide
<1>5. /\ UNCHANGED <<shared, deliveries, sagas, second, asked>>
      /\ retries' = retries \/ \E g : retries' = [retries EXCEPT ![g] = 0]
  BY DEF Handlers!Decide
<1> PICK k : k = [j EXCEPT !.todo = q, !.deciding = FALSE]
  OBVIOUS
<1>6. job' = [job EXCEPT ![u] = k]
  BY <1>1, <1>4 DEF JobsKept
<1>7. \/ Idles(q)
      \/ \E s \in Handlers!Steps : Leads(q, e.saga, s) /\ e.step \in Handlers!Earlier[s]
  BY <1>3, SuccessLeads
<1>8. Orderly(q) /\ e.step \in Handlers!Steps
  BY <1>3, <1>7, IdlesOrderly, LeadsOrderly DEF Delivery
<1>9. ASSUME NEW g, NEW s \in Handlers!Steps, Owes(q, g, s) PROVE Due(j, g, s)
  <2>1. PICK x \in Handlers!Steps : Leads(q, e.saga, x) /\ e.step \in Handlers!Earlier[x]
    BY <1>7, <1>9 DEF Idles
  <2>2. g = e.saga /\ (s = x \/ x \in Handlers!Earlier[s])
    BY <1>9, <2>1 DEF Leads
  <2>3. e.step \in Handlers!Earlier[s]
    BY <1>8, <2>1, <2>2, EarlierIsTransitive
  <2> QED  BY <1>2, <2>2, <2>3 DEF Due
<1>10. /\ k \in Job /\ k.todo = q /\ k.deciding = FALSE /\ k.for = j.for /\ k.msg = e
  BY <1>2, <1>8 DEF Job, Orderly
<1>11. Fits(k)'
  BY <1>2, <1>3, <1>8, <1>10 DEF Fits, Orderly
<1>12. Paid(k)'
  <2> SUFFICES ASSUME NEW g \in Handlers!Sagas, NEW s \in Handlers!Steps, ~Excused(s)
               PROVE  Spent(shared, g, s) + One(Due(k, g, s)) <= asked
    BY <1>5 DEF Paid
  <2>1. Spent(shared, g, s) + One(Due(j, g, s)) <= asked
    BY <1>2 DEF Paid
  <2>2. Due(k, g, s) => Due(j, g, s)
    BY <1>9, <1>10 DEF Due
  <2>3. Spent(shared, g, s) <= asked
    BY SpentIsPaid
  <2> HIDE DEF j
  <2> QED  BY <2>1, <2>2, <2>3, SpentIsPaid DEF One
<1>13. retries' \in [Handlers!Sagas -> Nat]
  BY <1>1, <1>5 DEF SharedKept
<1> QED  BY <1>1, <1>5, <1>6, <1>10, <1>11, <1>12, <1>13, JobChanges DEF HandlersKept, SharedKept

\* A goroutine lets go of what it has done, or is stopped.
LEMMA StopKeeps ==
    ASSUME HandlersKept, NEW u, Threads = {u},
           Handlers!Finish(u) \/ Handlers!CallFails(u) \/ Handlers!Crash
    PROVE  HandlersKept'
<1> DEFINE j == job[u]
           e == j.msg
<1> PICK x : x = [e EXCEPT !.attempts = @ + 1]
  OBVIOUS
<1>1. SharedKept /\ JobsKept
  BY DEF HandlersKept
<1>2. j \in Job /\ Fits(j)
  BY <1>1 DEF JobsKept
<1>3. UNCHANGED <<shared, sagas, second, asked>>
  BY DEF Handlers!Finish, Handlers!CallFails, Handlers!Crash
<1>4. retries' \in [Handlers!Sagas -> Nat]
  BY <1>1 DEF Handlers!Finish, Handlers!CallFails, Handlers!Crash, SharedKept
<1>5. job' = [job EXCEPT ![u] = Handlers!Idle] => JobsKept'
  BY <1>3, IdleFits, IdleJobKeeps
<1>6. CASE Handlers!Finish(u)
  <2>1. deliveries' \subseteq deliveries /\ JobsKept'
    BY <1>5, <1>6 DEF Handlers!Finish
  <2> QED  BY <1>1, <1>3, <1>4, <2>1 DEF HandlersKept, SharedKept
<1>7. CASE Handlers!Crash
  <2>1. job' = [job EXCEPT ![u] = Handlers!Idle]
    BY <1>1, <1>7 DEF Handlers!Crash, JobsKept
  <2>2. deliveries' = {[d EXCEPT !.attempts = 0] : d \in deliveries}
    BY <1>7 DEF Handlers!Crash
  <2>3. ASSUME NEW d \in deliveries PROVE [d EXCEPT !.attempts = 0] \in Delivery
    BY <1>1 DEF SharedKept, Delivery
  <2>4. deliveries' \subseteq Delivery
    BY <2>2, <2>3
  <2> QED  BY <1>1, <1>3, <1>4, <1>5, <2>1, <2>4 DEF HandlersKept, SharedKept
<1>8. CASE Handlers!CallFails(u)
  <2>1. CASE j.for # "event"
    <3>1. job' = [job EXCEPT ![u] = Handlers!Idle] /\ deliveries' = deliveries
      BY <1>8, <2>1 DEF Handlers!CallFails
    <3> QED  BY <1>1, <1>3, <1>4, <1>5, <3>1 DEF HandlersKept, SharedKept
  <2>2. CASE j.for = "event"
    <3>1. e \in Delivery
      BY <1>2, <2>2 DEF Fits
    <3>2. x \in Delivery /\ x.step = e.step /\ x.saga = e.saga
      BY <3>1 DEF Delivery
    <3>3. /\ deliveries' = (deliveries \ {e}) \cup {x}
          /\ \/ job' = [job EXCEPT ![u] = Handlers!Idle]
             \/ job' = [job EXCEPT ![u] = [for |-> "expired", msg |-> x,
                           todo |-> Handlers!Failing(e.saga, e.step), deciding |-> FALSE]]
      BY <1>8, <2>2 DEF Handlers!CallFails
    <3>4. ASSUME job' = [job EXCEPT ![u] = [for |-> "expired", msg |-> x,
                            todo |-> Handlers!Failing(e.saga, e.step), deciding |-> FALSE]]
          PROVE  JobsKept'
      <4>1. job' = [job EXCEPT ![u] = [for |-> "expired", msg |-> x,
                       todo |-> Handlers!Failing(x.saga, x.step), deciding |-> FALSE]]
        BY <3>2, <3>4
      <4> QED  BY <1>3, <3>2, <4>1, FailingKeeps
    <3>5. deliveries' \subseteq Delivery
      BY <1>1, <3>2, <3>3 DEF SharedKept
    <3> QED  BY <1>1, <1>3, <1>4, <1>5, <3>3, <3>4, <3>5 DEF HandlersKept, SharedKept
  <2> QED  BY <2>1, <2>2
<1> QED  BY <1>6, <1>7, <1>8

\* The clock moves on.
LEMMA TickKeeps == ASSUME HandlersKept, Handlers!Tick PROVE HandlersKept'
<1>1. /\ second' = second + 1 /\ UNCHANGED <<shared, deliveries, retries, job, sagas, asked>>
  BY DEF Handlers!Tick
<1> QED  BY <1>1 DEF HandlersKept, SharedKept, JobsKept, Fits, Paid

\* At the start nothing is dispatched and nobody owes anything.
LEMMA HandlersBegin == ASSUME NEW u, Threads = {u}, Handlers!Init PROVE HandlersKept
<1> DEFINE p == [status |-> "draft", saga |-> 0, script |-> 0, outline |-> 0,
                 config |-> [review |-> TRUE, tts |-> TRUE]]
           rows == [g \in Handlers!Sagas |-> [s \in Handlers!Steps |-> "none"]]
           c == [second |-> 0, sent |-> 0]
<1>1. /\ shared = [project |-> p, step |-> rows, outbox |-> {}, cancel |-> c]
      /\ deliveries = {} /\ retries = [g \in Handlers!Sagas |-> 0]
      /\ job = [t \in Threads |-> Handlers!Idle]
      /\ sagas = 0 /\ second = 1 /\ asked = 0
  BY DEF Handlers!Init, Handlers!NoStamp
<1>2. p \in ProjectRow
  BY DEF ProjectRow, Handlers!Statuses, Handlers!Resting
<1>3. rows \in [Handlers!Sagas -> [Handlers!Steps -> Handlers!StepStatuses]]
      /\ \A g \in Handlers!Sagas, s \in Handlers!Steps : rows[g][s] = "none"
  BY DEF Handlers!StepStatuses
<1>4. c \in [second : Nat, sent : Nat]
  OBVIOUS
<1> HIDE DEF p, rows, c
<1>5. shared \in Shared /\ shared.outbox = {} /\ shared.step = rows
  BY <1>1, <1>2, <1>3, <1>4 DEF Shared
<1>6. SharedKept
  BY <1>1, <1>5, FS_EmptySet DEF SharedKept
<1>7. ASSUME NEW g \in Handlers!Sagas, NEW s \in Handlers!Steps PROVE Spent(shared, g, s) = 0
  <2>1. SentOf(shared, g, s) = {} /\ RunningBefore(shared, g, s) = {}
    BY <1>3, <1>5, EarlierFinite DEF SentOf, RunningBefore
  <2> QED  BY <2>1, FS_EmptySet DEF Spent
<1>8. \A t \in Threads : job[t] = Handlers!Idle
  BY <1>1
<1>9. Fits(Handlers!Idle)
  BY IdleFits DEF Fits
<1>10. Fits(Handlers!Idle) /\ Paid(Handlers!Idle)
  <2> SUFFICES ASSUME NEW g \in Handlers!Sagas, NEW s \in Handlers!Steps
               PROVE  Spent(shared, g, s) + One(Due(Handlers!Idle, g, s)) <= asked
    BY <1>9 DEF Paid
  <2>1. One(Due(Handlers!Idle, g, s)) = 0
    BY IdleFits DEF One
  <2> QED  BY <1>1, <1>7, <2>1
<1>11. job \in [Threads -> Job]
  BY <1>1, IdleFits
<1> QED  BY <1>6, <1>8, <1>10, <1>11 DEF HandlersKept, JobsKept

LEMMA HandlersStep ==
    ASSUME HandlersKept, NEW u, Threads = {u}, [Handlers!Next]_(Handlers!vars)
    PROVE  HandlersKept'
<1>1. CASE Handlers!Creator(u)
  BY <1>1, CreatorKeeps
<1>2. CASE Handlers!Delivery(u)
  BY <1>2, DeliveryKeeps
<1>3. CASE Handlers!Call(u)
  BY <1>3, DecidedCallKeeps, CompletingCallKeeps
<1>4. CASE Handlers!Decide(u)
  BY <1>4, DecideKeeps
<1>5. CASE Handlers!Finish(u) \/ Handlers!CallFails(u) \/ Handlers!Crash
  BY <1>5, StopKeeps
<1>6. CASE Handlers!Worker
  BY <1>6, WorkerKeeps
<1>7. CASE Handlers!Tick
  BY <1>7, TickKeeps
<1>8. CASE UNCHANGED Handlers!vars
  BY <1>8 DEF Handlers!vars, HandlersKept, SharedKept, JobsKept, Fits, Paid
<1> QED  BY <1>1, <1>2, <1>3, <1>4, <1>5, <1>6, <1>7, <1>8 DEF Handlers!Next, Handlers!AtWork

\* However often a delivery is repeated and wherever a handler breaks off, a step of a
\* saga is dispatched at most once for each request of the Creator, while the handlers
\* take turns (DispatchedOncePerRequest; handle_step_event.go, on a step that is no
\* longer in progress).
THEOREM DispatchedOnceAlways ==
    ASSUME \E u : Threads = {u}
    PROVE  Handlers!Spec => []DispatchedOncePerRequest
<1> PICK u : Threads = {u}
  OBVIOUS
<1>1. Handlers!Init => HandlersKept
  BY HandlersBegin
<1>2. HandlersKept /\ [Handlers!Next]_(Handlers!vars) => HandlersKept'
  BY HandlersStep
<1>3. HandlersKept => DispatchedOncePerRequest
  <2> SUFFICES ASSUME HandlersKept, NEW g \in Handlers!Sagas, NEW s \in Handlers!Steps,
                      ~Excused(s)
               PROVE  Handlers!Cardinality({c \in shared.outbox : c.saga = g /\ c.step = s})
                         <= asked
    BY DEF DispatchedOncePerRequest, Handlers!DispatchedOncePerRequest, Excused
  <2>1. Spent(shared, g, s) <= asked /\ asked \in Nat
    BY SpentIsPaid
  <2>2. /\ Cardinality(SentOf(shared, g, s)) \in Nat
        /\ Cardinality(RunningBefore(shared, g, s)) \in Nat
    BY SpentIsNat DEF HandlersKept, SharedKept
  <2>3. Cardinality(SentOf(shared, g, s)) <= asked
    BY <2>1, <2>2 DEF Spent
  <2> QED  BY <2>3, HandlersCount DEF SentOf
<1> QED  BY <1>1, <1>2, <1>3, PTL DEF Handlers!Spec

-----------------------------------------------------------------------------
(* The channel's intro: versions and the pointer.                          *)

\* The announcement of a version: it was not yet handled, or may come once more.
Announcement == [step : {"asset"}, id : Nat, version : Nat, handled : BOOLEAN]

IsVersion(a) ==
    /\ a.version \in Nat /\ a.id \in Nat
    /\ \E clip, music, seconds, old :
          a = [id |-> a.id, version |-> a.version, clip |-> clip, music |-> music,
               seconds |-> seconds, superseded |-> old]

IsNormalization(j) ==
    /\ \E c, a, p : j = [cmd |-> c, active |-> a, previous |-> p]
    /\ j.previous # Produced!None => j.previous.version \in Nat

\* No version is newer than the pointer but one whose announcement has still to come.
Announced(a) ==
    \/ a.version <= pointer.version
    \/ \E e \in reports : e.step = "asset" /\ ~e.handled /\ a.version <= e.version

VersionsKept ==
    /\ IsFiniteSet(assets) /\ pointer.version \in Nat
    /\ \A e \in reports : e.step = "asset" => e \in Announcement
    /\ \A a \in assets : IsVersion(a) /\ Announced(a)
    /\ \A j \in jobs : IsNormalization(j)

\* A superseded version is the same version.
LEMMA RewrittenIsVersion ==
    ASSUME NEW a, NEW old, IsVersion(a)
    PROVE  /\ IsVersion([a EXCEPT !.superseded = old])
           /\ [a EXCEPT !.superseded = old].version = a.version
<1>1. PICK i, v, clip, music, seconds, was :
         /\ i = a.id /\ v = a.version /\ i \in Nat /\ v \in Nat
         /\ a = [id |-> i, version |-> v, clip |-> clip, music |-> music, seconds |-> seconds,
                 superseded |-> was]
  BY DEF IsVersion
<1>2. PICK b : b = [id |-> i, version |-> v, clip |-> clip, music |-> music,
                    seconds |-> seconds, superseded |-> old]
  OBVIOUS
<1>3. [a EXCEPT !.superseded = old] = b
  BY <1>1, <1>2
<1>4. b.id = i /\ b.version = v
  BY <1>2
<1>5. IsVersion(b)
  BY <1>1, <1>2, <1>4 DEF IsVersion
<1> QED  BY <1>1, <1>3, <1>4, <1>5

LEMMA SupersededIsVersion ==
    ASSUME NEW a, IsVersion(a)
    PROVE  /\ IsVersion([a EXCEPT !.superseded = TRUE])
           /\ [a EXCEPT !.superseded = TRUE].version = a.version
BY RewrittenIsVersion

\* What the orchestrator and the workers of a run do leaves the versions alone.
LEMMA ProductionKeeps ==
    ASSUME VersionsKept, UNCHANGED <<assets, pointer, jobs>>,
           \A e \in reports' : e.step = "asset" => e \in reports,
           \A e \in reports : e.step = "asset" => e \in reports'
    PROVE  VersionsKept'
<1>1. \A a \in assets : Announced(a)'
  BY DEF VersionsKept, Announced
<1> QED  BY <1>1 DEF VersionsKept

\* No answer of a worker is an announcement.
LEMMA AnsweredKeeps ==
    ASSUME VersionsKept, NEW c, NEW ok, NEW result, c.step # "asset",
           Produced!Answered(c, Produced!answer(c, ok, result))
    PROVE  VersionsKept'
<1> PICK e : e = Produced!answer(c, ok, result)
  OBVIOUS
<1>1. e.step # "asset"
  BY DEF Produced!answer
<1>2. reports' = reports \cup {e} /\ UNCHANGED <<assets, pointer, jobs>>
  BY DEF Produced!Answered, Produced!assetVars
<1> QED  BY <1>1, <1>2, ProductionKeeps

LEMMA WorkKeeps == ASSUME VersionsKept, Produced!Work PROVE VersionsKept'
<1>1. ASSUME Produced!Dies PROVE VersionsKept'
  <2>1. UNCHANGED <<assets, pointer, jobs, reports>>
    BY <1>1 DEF Produced!Dies, Produced!assetVars
  <2> QED  BY <2>1, ProductionKeeps
<1>2. PICK c \in orders :
         \/ Produced!ValidateScript(c) \/ Produced!SynthesizeSpeechBatch(c)
         \/ Produced!RenderScript(c) \/ Produced!AssembleVideo(c)
  BY DEF Produced!Work
<1>3. c.step # "asset"
  BY <1>2 DEF Produced!ValidateScript, Produced!SynthesizeSpeechBatch, Produced!RenderScript,
              Produced!AssembleVideo
<1>4. Produced!Dies \/ \E ok, result : Produced!Answered(c, Produced!answer(c, ok, result))
  <2>1. CASE Produced!ValidateScript(c)
    BY <2>1 DEF Produced!ValidateScript, Produced!Fails
  <2>2. CASE Produced!SynthesizeSpeechBatch(c)
    BY <2>2 DEF Produced!SynthesizeSpeechBatch, Produced!Fails
  <2>3. CASE Produced!RenderScript(c)
    BY <2>3 DEF Produced!RenderScript, Produced!Fails
  <2>4. CASE Produced!AssembleVideo(c)
    BY <2>4 DEF Produced!AssembleVideo, Produced!Fails
  <2> QED  BY <1>2, <2>1, <2>2, <2>3, <2>4
<1> QED  BY <1>1, <1>3, <1>4, AnsweredKeeps

LEMMA HandleEventKeeps ==
    ASSUME VersionsKept, Produced!HandleEvent PROVE VersionsKept'
<1>1. PICK e \in reports : e.step # "asset" /\ reports' = reports \ {e}
  BY DEF Produced!HandleEvent
<1>2. UNCHANGED <<assets, pointer, jobs>>
  BY DEF Produced!HandleEvent, Produced!assetVars
<1> QED  BY <1>1, <1>2, ProductionKeeps

\* The active row, or the row that stands for none, has a version.
LEMMA ActiveHasVersion ==
    ASSUME VersionsKept, NEW a \in Produced!get_active PROVE a.version \in Nat
<1>1. a \in assets \/ a = Produced!NoAsset
  BY DEF Produced!get_active, Produced!Active
<1>2. Produced!NoAsset.version = 0
  BY DEF Produced!NoAsset
<1> QED  BY <1>1, <1>2 DEF VersionsKept, IsVersion

\* A normalization is taken up, looks at the row before it, fails or is lost.
LEMMA NormalizationKeeps ==
    ASSUME VersionsKept, UNCHANGED <<assets, pointer, reports>>,
           \A j \in jobs' : j \in jobs \/ IsNormalization(j)
    PROVE  VersionsKept'
<1>1. \A a \in assets : Announced(a)'
  BY DEF VersionsKept, Announced
<1> QED  BY <1>1 DEF VersionsKept

\* A version is registered together with its announcement.
LEMMA RegisterKeeps ==
    ASSUME VersionsKept, Produced!register_new_version PROVE VersionsKept'
<1>1. PICK j \in jobs :
         /\ j.previous # Produced!None
         /\ assets' = {IF r.id = j.previous.id THEN [r EXCEPT !.superseded = TRUE] ELSE r :
                          r \in assets} \cup {Produced!NewVersion(j)}
         /\ reports' = reports \cup {[step |-> "asset", id |-> Produced!NewVersion(j).id,
                                      version |-> Produced!NewVersion(j).version,
                                      handled |-> FALSE]}
         /\ jobs' = jobs \ {j} /\ UNCHANGED pointer
  BY DEF Produced!register_new_version, Produced!productionVars
<1>2. PICK n : n = Produced!Cardinality(assets) + 1
  OBVIOUS
<1>3. n \in Nat
  <2>1. Produced!Cardinality(assets) = Cardinality(assets)
    BY DEF Produced!Cardinality, Cardinality, Produced!IsFiniteSet, IsFiniteSet
  <2> QED  BY <1>2, <2>1, FS_CardinalityType DEF VersionsKept
<1>4. PICK v : v = j.previous.version + 1
  OBVIOUS
<1>5. v \in Nat
  BY <1>1, <1>4 DEF VersionsKept, IsNormalization
<1>6. PICK a : a = Produced!NewVersion(j)
  OBVIOUS
<1>7. IsVersion(a) /\ a.id = n /\ a.version = v
  BY <1>2, <1>3, <1>4, <1>5, <1>6 DEF IsVersion, Produced!NewVersion
<1>8. PICK e : e = [step |-> "asset", id |-> n, version |-> v, handled |-> FALSE]
  OBVIOUS
<1>9. e \in Announcement /\ e.step = "asset" /\ ~e.handled /\ e.version = v
  BY <1>3, <1>5, <1>8 DEF Announcement
<1>10. reports' = reports \cup {e}
  BY <1>1, <1>6, <1>7, <1>8
<1>11. ASSUME NEW b \in assets' PROVE (b = a \/ \E r \in assets : b.version = r.version) /\ IsVersion(b)
  <2>1. CASE b = a
    BY <1>7, <2>1
  <2>2. CASE b # a
    <3>1. PICK r \in assets : b = IF r.id = j.previous.id THEN [r EXCEPT !.superseded = TRUE] ELSE r
      BY <1>1, <1>6, <1>11, <2>2
    <3>2. IsVersion(r)
      BY DEF VersionsKept
    <3> QED  BY <3>1, <3>2, SupersededIsVersion
  <2> QED  BY <2>1, <2>2
<1>12. ASSUME NEW b \in assets' PROVE Announced(b)'
  <2>1. CASE b = a
    BY <1>5, <1>7, <1>9, <1>10, <2>1 DEF Announced
  <2>2. CASE b # a
    <3>1. PICK r \in assets : b.version = r.version
      BY <1>11, <2>2
    <3>2. Announced(r)
      BY DEF VersionsKept
    <3> QED  BY <1>1, <1>10, <3>1, <3>2 DEF Announced
  <2> QED  BY <2>1, <2>2
<1>13. IsFiniteSet(assets')
  <2>1. PICK kept, f :
           /\ kept = {IF r.id = j.previous.id THEN [r EXCEPT !.superseded = TRUE] ELSE r :
                         r \in assets}
           /\ f = [r \in assets |-> IF r.id = j.previous.id THEN [r EXCEPT !.superseded = TRUE]
                                   ELSE r]
    OBVIOUS
  <2>2. f \in Surjection(assets, kept)
    BY <2>1 DEF Surjection
  <2>3. IsFiniteSet(kept)
    BY <2>2, FS_Surjection DEF VersionsKept
  <2>4. assets' = kept \cup {a}
    BY <1>1, <1>6, <2>1
  <2> QED  BY <2>3, <2>4, FS_AddElement
<1> QED  BY <1>1, <1>9, <1>10, <1>11, <1>12, <1>13 DEF VersionsKept

\* The pointer moves to an announced version unless it is at a newer one.
LEMMA ProjectionKeeps ==
    ASSUME VersionsKept, Produced!handleChannelAssetProjection PROVE VersionsKept'
<1>1. PICK e \in reports :
         /\ e.step = "asset"
         /\ pointer' = IF pointer.version <= e.version
                       THEN [id |-> e.id, version |-> e.version] ELSE pointer
         /\ reports' = (reports \ {e})
                          \cup (IF e.handled THEN {} ELSE {[e EXCEPT !.handled = TRUE]})
         /\ UNCHANGED <<assets, jobs>>
  BY DEF Produced!handleChannelAssetProjection, Produced!UpsertChannelAssetPointer
<1>2. e \in Announcement
  BY <1>1 DEF VersionsKept
<1>3. PICK d : d = [e EXCEPT !.handled = TRUE]
  OBVIOUS
<1>4. d \in Announcement /\ d.handled /\ e.version \in Nat
  BY <1>2, <1>3 DEF Announcement
<1>5. pointer.version \in Nat
  BY DEF VersionsKept
<1>6. pointer'.version \in Nat /\ pointer.version <= pointer'.version /\ e.version <= pointer'.version
  BY <1>1, <1>4, <1>5
<1>7. ASSUME NEW a \in assets PROVE Announced(a)'
  <2>1. Announced(a) /\ a.version \in Nat
    BY DEF VersionsKept, IsVersion
  <2>2. CASE a.version <= pointer.version
    BY <1>5, <1>6, <2>1, <2>2 DEF Announced
  <2>3. CASE \E x \in reports : x.step = "asset" /\ ~x.handled /\ a.version <= x.version
    <3>1. PICK x \in reports : x.step = "asset" /\ ~x.handled /\ a.version <= x.version
      BY <2>3
    <3>2. CASE x = e
      BY <1>4, <1>6, <2>1, <3>1, <3>2 DEF Announced
    <3>3. CASE x # e
      BY <1>1, <3>1, <3>3 DEF Announced
    <3> QED  BY <3>2, <3>3
  <2> QED  BY <2>1, <2>2, <2>3 DEF Announced
<1>8. \A x \in reports' : x.step = "asset" => x \in Announcement
  BY <1>1, <1>3, <1>4 DEF VersionsKept
<1> QED  BY <1>1, <1>6, <1>7, <1>8 DEF VersionsKept

LEMMA VersionsStep ==
    ASSUME VersionsKept, [Produced!Next]_(Produced!vars) PROVE VersionsKept'
<1>1. CASE \/ Produced!StartRender \/ Produced!Approve \/ Produced!EditNarration
           \/ Produced!Reject \/ Produced!Retry \/ Produced!Cancel
  <2>1. UNCHANGED <<assets, pointer, jobs, reports>>
    BY <1>1 DEF Produced!StartRender, Produced!Approve, Produced!EditNarration, Produced!Reject,
                Produced!Retry, Produced!Cancel, Produced!assetVars
  <2> QED  BY <2>1, ProductionKeeps
<1>2. CASE Produced!HandleEvent \/ Produced!Work
  BY <1>2, HandleEventKeeps, WorkKeeps
<1>3. CASE Produced!Normalize \/ Produced!NormalizationFails \/ Produced!AssemblyWorkerDies
  <2>1. UNCHANGED <<assets, pointer, reports>> /\ jobs' \subseteq jobs
    BY <1>3 DEF Produced!Normalize, Produced!NormalizationFails, Produced!AssemblyWorkerDies
  <2> QED  BY <2>1, NormalizationKeeps
<1>4. CASE Produced!TakeUpload
  <2>1. UNCHANGED <<assets, pointer, reports>>
    BY <1>4 DEF Produced!TakeUpload
  <2>2. jobs' = jobs
        \/ \E c, a : jobs' = jobs \cup {[cmd |-> c, active |-> a, previous |-> Produced!None]}
    BY <1>4 DEF Produced!TakeUpload
  <2>3. \A c, a : IsNormalization([cmd |-> c, active |-> a, previous |-> Produced!None])
    BY DEF IsNormalization
  <2> QED  BY <2>1, <2>2, <2>3, NormalizationKeeps
<1>5. CASE Produced!ReadPrevious
  <2>1. UNCHANGED <<assets, pointer, reports>>
    BY <1>5 DEF Produced!ReadPrevious
  <2>2. PICK j \in jobs, p \in Produced!get_active :
           jobs' = (jobs \ {j}) \cup {[j EXCEPT !.previous = p]}
    BY <1>5 DEF Produced!ReadPrevious
  <2>3. PICK c, a, q : j = [cmd |-> c, active |-> a, previous |-> q]
    BY DEF VersionsKept, IsNormalization
  <2>4. [j EXCEPT !.previous = p] = [cmd |-> c, active |-> a, previous |-> p]
    BY <2>3
  <2>5. IsNormalization([j EXCEPT !.previous = p])
    BY <2>4, ActiveHasVersion DEF IsNormalization
  <2> QED  BY <2>1, <2>2, <2>5, NormalizationKeeps
<1>6. CASE Produced!register_new_version \/ Produced!handleChannelAssetProjection
  BY <1>6, RegisterKeeps, ProjectionKeeps
<1>7. CASE UNCHANGED Produced!vars
  <2>1. UNCHANGED <<assets, pointer, jobs, reports>>
    BY <1>7 DEF Produced!vars
  <2> QED  BY <2>1, ProductionKeeps
<1> QED  BY <1>1, <1>2, <1>3, <1>4, <1>5, <1>6, <1>7 DEF Produced!Next

\* Once every announcement has arrived, in whatever order and however often, the
\* orchestrator points at a version that no other is newer than (PointerIsNewest;
\* UpsertChannelAssetPointer, register_new_version and its outbox).
THEOREM PointerIsNewestAlways == Produced!Spec => []PointerIsNewest
<1>1. Produced!Init => VersionsKept
  BY FS_EmptySet DEF Produced!Init, VersionsKept
<1>2. VersionsKept /\ [Produced!Next]_(Produced!vars) => VersionsKept'
  BY VersionsStep
<1>3. VersionsKept => PointerIsNewest
  BY DEF VersionsKept, Announced, PointerIsNewest, Produced!PointerIsNewest
<1> QED  BY <1>1, <1>2, <1>3, PTL DEF Produced!Spec

-----------------------------------------------------------------------------
(* Counting up.                                                            *)

\* Numbers have a least one among them.
LEMMA Least ==
    ASSUME NEW T, T \subseteq Nat, T # {}
    PROVE  \E n \in T : \A m \in T : n <= m
<1>1. PICK x \in T : \A y \in T : ~ (<<y, x>> \in OpToRel(<, Nat))
  BY NatLessThanWellFounded, WFMin
<1>2. \A y \in T : ~ (y < x)
  BY <1>1 DEF OpToRel
<1> QED  BY <1>2

\* What is so of 0 and of the number after each is so of all.
LEMMA NatSet ==
    ASSUME NEW T, T \subseteq Nat, 0 \in T, \A n \in T : n + 1 \in T
    PROVE  T = Nat
<1>1. SUFFICES ASSUME Nat \ T # {} PROVE FALSE
  BY <1>1
<1>2. PICK n \in Nat \ T : \A m \in Nat \ T : n <= m
  BY <1>1, Least
<1>3. n # 0 /\ n - 1 \in Nat /\ n - 1 \notin T
  BY <1>2
<1> QED  BY <1>2, <1>3

LEMMA UpTo ==
    ASSUME NEW n \in Nat, NEW T, 0 \in T, \A i \in 1 .. n : i - 1 \in T => i \in T
    PROVE  0 .. n \subseteq T
<1> DEFINE K == {i \in Nat : i <= n => i \in T}
<1>1. 0 \in K
  OBVIOUS
<1>2. ASSUME NEW i \in K PROVE i + 1 \in K
  <2>1. CASE i + 1 <= n
    <3>1. i + 1 \in 1 .. n /\ (i + 1) - 1 = i /\ i \in T
      BY <2>1
    <3>2. i + 1 \in T
      BY <3>1
    <3> QED  BY <3>2
  <2> QED  BY <2>1
<1>3. K \subseteq Nat
  OBVIOUS
<1>4. K = Nat
  <2> HIDE DEF K
  <2> QED  BY <1>1, <1>2, <1>3, NatSet
<1> QED  BY <1>4

\* One turn after another, from x, g giving each.
Turned(f, x, g, n) == f = [i \in 0 .. n |-> IF i = 0 THEN x ELSE g[i][f[i - 1]]]

\* Taking one turn after another defines where each ends.
LEMMA Iterated ==
    ASSUME NEW S, NEW x \in S, NEW g \in [Nat -> [S -> S]], NEW n \in Nat
    PROVE  \E f \in [0 .. n -> S] : Turned(f, x, g, n)
<1> DEFINE Ends(m, f) == /\ f \in [0 .. m -> S]
                         /\ f = [i \in 0 .. m |-> IF i = 0 THEN x ELSE g[i][f[i - 1]]]
           K == {m \in Nat : \E f : Ends(m, f)}
<1>1. 0 \in K
  <2>1. PICK f : f = [i \in 0 .. 0 |-> x]
    OBVIOUS
  <2>2. Ends(0, f)
    BY <2>1
  <2> QED  BY <2>2
<1>2. ASSUME NEW m \in K PROVE m + 1 \in K
  <2>1. PICK f : Ends(m, f)
    OBVIOUS
  <2>2. PICK h : h = [i \in 0 .. m + 1 |-> IF i = m + 1 THEN g[m + 1][f[m]] ELSE f[i]]
    OBVIOUS
  <2>3. m \in Nat /\ f[m] \in S
    BY <2>1
  <2>4. h \in [0 .. m + 1 -> S]
    BY <2>1, <2>2, <2>3
  <2>5. ASSUME NEW i \in 0 .. m + 1 PROVE h[i] = IF i = 0 THEN x ELSE g[i][h[i - 1]]
    <3>1. CASE i = m + 1
      <4>1. i # 0 /\ i - 1 = m /\ h[m] = f[m]
        BY <2>2, <2>3, <3>1
      <4> QED  BY <2>2, <3>1, <4>1
    <3>2. CASE i # m + 1
      <4>1. i \in 0 .. m /\ h[i] = f[i]
        BY <2>2, <2>3, <3>2
      <4>2. i # 0 => h[i - 1] = f[i - 1]
        BY <2>2, <2>3, <4>1
      <4> QED  BY <2>1, <4>1, <4>2
    <3> QED  BY <3>1, <3>2
  <2>6. Ends(m + 1, h)
    BY <2>2, <2>4, <2>5
  <2>7. m + 1 \in Nat
    BY <2>3
  <2> HIDE DEF Ends
  <2> QED  BY <2>6, <2>7
<1>3. K \subseteq Nat
  OBVIOUS
<1>4. K = Nat
  <2> HIDE DEF K
  <2> QED  BY <1>1, <1>2, <1>3, NatSet
<1> QED  BY <1>4 DEF Turned

-----------------------------------------------------------------------------
(* What is said, and when.                                                 *)

Line == Nat \ {0}

Rising(o) == \A i, k \in DOMAIN o : i < k => o[i] < o[k]

\* The lines of a video: n of them, each with the moment it starts and its text.
Cues(n, at, text) == [i \in 1 .. n |-> [text |-> text[i], at |-> at[i]]]

Segments(n, at, text) == [i \in 1 .. n |-> [path |-> <<i, text[i]>>, at |-> at[i]]]

\* The bounds of the gaps and leads.
LEMMA GapsAreNat ==
    /\ Estimate \in Line /\ ShotGap \in Nat /\ LineGap \in Nat /\ LeadIn \in Nat
    /\ LeadOut \in Nat /\ Rewordings \subseteq Line
BY ProducedAssumption DEF Produced!BoundsAssumption, Line

\* No line starts with or before the one it follows.
LEMMA SegmentsRise ==
    ASSUME NEW seconds \in Seq(Nat), NEW shots
    PROVE  /\ Produced!segmentsFrom(seconds, shots) \in Seq(Nat)
           /\ Len(Produced!segmentsFrom(seconds, shots)) = Len(seconds)
           /\ Rising(Produced!segmentsFrom(seconds, shots))
<1> PICK n : n = Len(seconds)
  OBVIOUS
<1>1. n \in Nat /\ DOMAIN seconds = 1 .. n /\ \A k \in 1 .. n : seconds[k] \in Nat
  OBVIOUS
<1>2. PICK gap : gap = [k \in Nat |->
                          IF Produced!ShotOf(shots, k) = Produced!ShotOf(shots, k + 1)
                          THEN LineGap ELSE ShotGap]
  OBVIOUS
<1>3. \A k \in Nat : gap[k] \in Nat
  BY <1>2, GapsAreNat
<1>4. PICK d : d = [k \in Nat |-> IF k \in 1 .. n THEN Produced!longer(1, seconds[k]) + gap[k]
                                  ELSE 1]
  OBVIOUS
<1>5. \A k \in Nat : d[k] \in Nat /\ d[k] > 0
  <2> SUFFICES ASSUME NEW k \in Nat PROVE d[k] \in Nat /\ d[k] > 0
    OBVIOUS
  <2>1. CASE k \in 1 .. n
    <3>1. Produced!longer(1, seconds[k]) \in Nat /\ Produced!longer(1, seconds[k]) >= 1
      BY <1>1, <2>1 DEF Produced!longer
    <3> QED  BY <1>3, <1>4, <2>1, <3>1
  <2> QED  BY <1>4, <2>1
<1>6. PICK g : g = [k \in Nat |-> [x \in Nat |-> x + d[k]]]
  OBVIOUS
<1>7. g \in [Nat -> [Nat -> Nat]] /\ 0 \in Nat
  BY <1>5, <1>6
<1>8. PICK f \in [0 .. n -> Nat] : Turned(f, 0, g, n)
  BY <1>1, <1>7, Iterated
<1>9. PICK h : h = [k \in 1 .. n |-> f[k - 1]]
  OBVIOUS
<1>10. h = [k \in 1 .. n |-> IF k = 1 THEN 0
                             ELSE h[k - 1] + Produced!longer(1, seconds[k - 1]) + gap[k - 1]]
  <2>1. ASSUME NEW k \in 1 .. n
        PROVE  h[k] = IF k = 1 THEN 0
                      ELSE h[k - 1] + Produced!longer(1, seconds[k - 1]) + gap[k - 1]
    <3>1. CASE k = 1
      BY <1>1, <1>8, <1>9, <3>1 DEF Turned
    <3>2. CASE k # 1
      <4>1. PICK j : j = k - 1
        OBVIOUS
      <4>2. j \in 1 .. n /\ j \in Nat /\ j \in 0 .. n /\ j - 1 \in 0 .. n /\ j # 0
        BY <1>1, <3>2, <4>1
      <4>3. f[j] = g[j][f[j - 1]]
        BY <1>8, <4>2 DEF Turned
      <4>4. h[k] = f[j] /\ h[j] = f[j - 1] /\ h[j] \in Nat
        BY <1>8, <1>9, <4>1, <4>2
      <4>5. h[k] = h[j] + d[j]
        BY <1>6, <4>2, <4>3, <4>4
      <4>6. d[j] = Produced!longer(1, seconds[j]) + gap[j]
        BY <1>4, <4>2
      <4>7. Produced!longer(1, seconds[j]) \in Nat /\ gap[j] \in Nat
        BY <1>1, <1>3, <4>2 DEF Produced!longer
      <4>8. h[k] = h[j] + Produced!longer(1, seconds[j]) + gap[j]
        BY <4>4, <4>5, <4>6, <4>7
      <4> QED  BY <3>2, <4>1, <4>8
    <3> QED  BY <3>1, <3>2
  <2> QED  BY <1>9, <2>1
<1>11. PICK s : s = CHOOSE z : z = [k \in 1 .. n |-> IF k = 1 THEN 0
                             ELSE z[k - 1] + Produced!longer(1, seconds[k - 1]) + gap[k - 1]]
  OBVIOUS
<1>12. s = [k \in 1 .. n |-> IF k = 1 THEN 0
                             ELSE s[k - 1] + Produced!longer(1, seconds[k - 1]) + gap[k - 1]]
  BY <1>10, <1>11
<1>13. ASSUME NEW z
       PROVE  [k \in 1 .. n |-> IF k = 1 THEN 0
                 ELSE z[k - 1] + Produced!longer(1, seconds[k - 1]) + gap[k - 1]]
              = [k \in DOMAIN seconds |-> IF k = 1 THEN 0
                 ELSE z[k - 1] + Produced!longer(1, seconds[k - 1])
                        + (IF Produced!ShotOf(shots, k - 1) = Produced!ShotOf(shots, (k - 1) + 1)
                           THEN LineGap ELSE ShotGap)]
  <2>1. \A k \in 1 .. n : k # 1 => k - 1 \in Nat
    BY <1>1
  <2> QED  BY <1>1, <1>2, <2>1
<1>14. s = Produced!segmentsFrom(seconds, shots)
  BY <1>11, <1>13 DEF Produced!segmentsFrom
<1>15. \A k \in 1 .. n : s[k] \in Nat /\ (k # 1 => s[k] = s[k - 1] + d[k - 1])
  <2> DEFINE T == {k \in 0 .. n : k # 0 => s[k] \in Nat}
  <2>1. 0 \in T
    BY <1>1
  <2>2. ASSUME NEW k \in 1 .. n, k - 1 \in T PROVE k \in T
    <3>1. CASE k = 1
      BY <1>1, <1>12, <3>1
    <3>2. CASE k # 1
      <4>1. k - 1 \in 1 .. n /\ k - 1 \in Nat /\ s[k - 1] \in Nat
        BY <1>1, <2>2, <3>2
      <4>2. Produced!longer(1, seconds[k - 1]) \in Nat /\ gap[k - 1] \in Nat
        BY <1>1, <1>3, <4>1 DEF Produced!longer
      <4>3. s[k] = s[k - 1] + Produced!longer(1, seconds[k - 1]) + gap[k - 1]
        BY <1>12, <3>2
      <4> QED  BY <4>1, <4>2, <4>3
    <3> QED  BY <3>1, <3>2
  <2>3. 0 .. n \subseteq T
    <3> HIDE DEF T
    <3> QED  BY <1>1, <2>1, <2>2, UpTo
  <2>4. \A k \in 1 .. n : s[k] \in Nat
    BY <1>1, <2>3
  <2>5. ASSUME NEW k \in 1 .. n, k # 1 PROVE s[k] = s[k - 1] + d[k - 1]
    <3>1. k - 1 \in 1 .. n /\ k - 1 \in Nat /\ s[k - 1] \in Nat
      BY <1>1, <2>4, <2>5
    <3>2. d[k - 1] = Produced!longer(1, seconds[k - 1]) + gap[k - 1]
      BY <1>4, <3>1
    <3>3. s[k] = s[k - 1] + Produced!longer(1, seconds[k - 1]) + gap[k - 1]
      BY <1>12, <2>5
    <3>4. Produced!longer(1, seconds[k - 1]) \in Nat /\ gap[k - 1] \in Nat
      BY <1>1, <1>3, <3>1 DEF Produced!longer
    <3> QED  BY <3>1, <3>2, <3>3, <3>4
  <2> QED  BY <2>4, <2>5
<1>16. DOMAIN s = 1 .. n
  BY <1>12
<1>17. s \in Seq(Nat) /\ Len(s) = n
  <2>1. s \in [1 .. n -> Nat]
    BY <1>12, <1>15, <1>16
  <2> QED  BY <1>1, <2>1
<1>18. Rising(s)
  <2> DEFINE T == {k \in 0 .. n : \A i \in 1 .. n : i < k => s[i] < s[k]}
  <2>1. 0 \in T
    BY <1>1
  <2>2. ASSUME NEW k \in 1 .. n, k - 1 \in T PROVE k \in T
    <3>1. SUFFICES ASSUME NEW i \in 1 .. n, i < k PROVE s[i] < s[k]
      OBVIOUS
    <3>2. k # 1 /\ k - 1 \in 1 .. n /\ k - 1 \in Nat
      BY <3>1
    <3>3. s[k] = s[k - 1] + d[k - 1] /\ s[k - 1] \in Nat /\ d[k - 1] \in Nat /\ d[k - 1] > 0
      BY <1>5, <1>15, <3>2
    <3>4. s[k - 1] < s[k] /\ s[k] \in Nat /\ s[i] \in Nat
      BY <1>15, <3>3
    <3>5. CASE i = k - 1
      BY <3>4, <3>5
    <3>6. CASE i # k - 1
      <4>1. i < k - 1
        BY <3>1, <3>6
      <4>2. s[i] < s[k - 1]
        BY <2>2, <4>1
      <4> QED  BY <3>3, <3>4, <4>2
    <3> QED  BY <3>5, <3>6
  <2>3. 0 .. n \subseteq T
    <3> HIDE DEF T
    <3> QED  BY <1>1, <2>1, <2>2, UpTo
  <2>4. \A k \in 1 .. n : k \in 0 .. n
    OBVIOUS
  <2> QED  BY <1>16, <2>3, <2>4 DEF Rising
<1> QED  BY <1>14, <1>17, <1>18

\* Pictures run on until the last line is said.
LEMMA OutlastsLines ==
    ASSUME NEW n \in Nat, NEW at \in [1 .. n -> Nat], NEW text \in [1 .. n -> Nat], NEW p,
           p.seconds \in Nat
    PROVE  /\ Produced!target_duration(p, Cues(n, at, text)) \in Nat
           /\ \A i \in 1 .. n : at[i] + text[i] <= Produced!target_duration(p, Cues(n, at, text))
<1> PICK h : h = Cues(n, at, text)
  OBVIOUS
<1>1. /\ DOMAIN h = 1 .. n
      /\ \A i \in 1 .. n : h[i].at = at[i] /\ h[i].text = text[i]
  BY DEF Cues
<1>2. Len(h) = n
  <2>1. h \in [1 .. n -> [text : Nat, at : Nat]]
    BY DEF Cues
  <2> QED  BY <2>1
<1>3. PICK x : x = p.seconds
  OBVIOUS
<1>4. PICK s : s = CHOOSE z : z = [i \in 0 .. n |-> IF i = 0 THEN x
                                    ELSE Produced!longer(z[i - 1], h[i].at + h[i].text)]
  OBVIOUS
<1>5. s[n] = Produced!target_duration(p, h)
  BY <1>2, <1>3, <1>4 DEF Produced!target_duration
<1>6. PICK e : e = [i \in Nat |-> IF i \in 1 .. n THEN at[i] + text[i] ELSE 0]
  OBVIOUS
<1>7. \A i \in Nat : e[i] \in Nat
  BY <1>6
<1>8. PICK g : g = [i \in Nat |-> [k \in Nat |-> Produced!longer(k, e[i])]]
  OBVIOUS
<1>9. g \in [Nat -> [Nat -> Nat]] /\ x \in Nat
  BY <1>3, <1>7, <1>8 DEF Produced!longer
<1>10. PICK f \in [0 .. n -> Nat] : Turned(f, x, g, n)
  BY <1>9, Iterated
<1>11. \A i \in 1 .. n : h[i].at + h[i].text = e[i] /\ i \in Nat
  BY <1>1, <1>6
<1>12. f = [i \in 0 .. n |-> IF i = 0 THEN x ELSE Produced!longer(f[i - 1], h[i].at + h[i].text)]
  <2>1. ASSUME NEW i \in 0 .. n, i # 0
        PROVE  g[i][f[i - 1]] = Produced!longer(f[i - 1], h[i].at + h[i].text)
    <3>1. i \in 1 .. n /\ i - 1 \in 0 .. n /\ i \in Nat
      BY <2>1
    <3>2. f[i - 1] \in Nat
      BY <3>1
    <3> QED  BY <1>8, <1>11, <3>1, <3>2
  <2> QED  BY <1>10, <2>1 DEF Turned
<1>13. s = [i \in 0 .. n |-> IF i = 0 THEN x ELSE Produced!longer(s[i - 1], h[i].at + h[i].text)]
  BY <1>4, <1>12
<1>14. s[0] = x /\ \A i \in 1 .. n : s[i] = Produced!longer(s[i - 1], e[i])
  BY <1>11, <1>13
<1> DEFINE T == {k \in 0 .. n : s[k] \in Nat /\ \A i \in 1 .. n : i <= k => e[i] <= s[k]}
<1>15. 0 \in T
  <2>1. s[0] \in Nat /\ 0 \in 0 .. n
    BY <1>9, <1>14
  <2>2. \A i \in 1 .. n : ~(i <= 0)
    OBVIOUS
  <2> QED  BY <2>1, <2>2
<1>16. ASSUME NEW k \in 1 .. n, k - 1 \in T PROVE k \in T
  <2>1. s[k] = Produced!longer(s[k - 1], e[k]) /\ s[k - 1] \in Nat /\ e[k] \in Nat
    BY <1>7, <1>14, <1>16
  <2>2. s[k] \in Nat /\ s[k - 1] <= s[k] /\ e[k] <= s[k]
    BY <2>1 DEF Produced!longer
  <2>3. ASSUME NEW i \in 1 .. n, i <= k PROVE e[i] <= s[k]
    <3>1. CASE i = k
      BY <2>2, <3>1
    <3>2. CASE i # k
      <4>1. i <= k - 1 /\ e[i] \in Nat
        BY <1>7, <2>3, <3>2
      <4>2. e[i] <= s[k - 1]
        BY <1>16, <4>1
      <4> QED  BY <2>1, <2>2, <4>1, <4>2
    <3> QED  BY <3>1, <3>2
  <2> QED  BY <2>2, <2>3
<1>17. n \in T
  <2>1. 0 .. n \subseteq T
    <3> HIDE DEF T
    <3> QED  BY <1>15, <1>16, UpTo
  <2> QED  BY <2>1
<1>18. s[n] \in Nat /\ \A i \in 1 .. n : e[i] <= s[n]
  BY <1>17
<1>19. \A i \in 1 .. n : e[i] = at[i] + text[i]
  BY <1>6
<1> QED  BY <1>5, <1>18, <1>19

\* Moments later by d.
Later(n, at, d) == [i \in 1 .. n |-> at[i] + d]

LEMMA LaterIsNat ==
    ASSUME NEW n \in Nat, NEW at \in [1 .. n -> Nat], NEW d \in Nat
    PROVE  Later(n, at, d) \in [1 .. n -> Nat]
BY DEF Later

LEMMA ShiftedCues ==
    ASSUME NEW n \in Nat, NEW at \in [1 .. n -> Nat], NEW text \in [1 .. n -> Nat],
           NEW d \in Nat
    PROVE  Produced!Shifted(Cues(n, at, text), d) = Cues(n, Later(n, at, d), text)
<1>1. PICK c : c = Cues(n, at, text)
  OBVIOUS
<1>2. DOMAIN c = 1 .. n
  BY <1>1 DEF Cues
<1>3. ASSUME NEW i \in 1 .. n
      PROVE  [c[i] EXCEPT !.at = c[i].at + d] = [text |-> text[i], at |-> Later(n, at, d)[i]]
  <2>1. c[i] = [text |-> text[i], at |-> at[i]]
    BY <1>1 DEF Cues
  <2> QED  BY <2>1 DEF Later
<1>4. Produced!Shifted(c, d) = Cues(n, Later(n, at, d), text)
  BY <1>2, <1>3 DEF Produced!Shifted, Cues
<1> QED  BY <1>1, <1>4

LEMMA ShiftedNothing == \A d : Produced!Shifted(<<>>, d) = <<>>
BY DEF Produced!Shifted

\* What the saga hands over to be cut: nothing said, or n lines in order, each with
\* the audio of its words, and with subtitles the same words at the same moments.
Playable(p) ==
    /\ p.seconds \in Nat
    /\ \/ p.segments = <<>>
       \/ \E n \in Nat : \E at \in [1 .. n -> Nat], text \in [1 .. n -> Nat] :
             /\ Rising(at)
             /\ p.segments = Segments(n, at, text)
             /\ p.subtitles # {} => p.cues = Cues(n, at, text)
             /\ \A i \in 1 .. n : <<i, text[i]>> \in DOMAIN audio

AudioKept == \A x \in DOMAIN audio : audio[x] = x[2]

\* What PlaysAsWritten says of a finished video.
Plays(f) ==
    /\ f.heard # <<>> =>
          /\ f.burned \in {<<>>, f.heard}
          /\ f.intro = 0 => f.track \in {<<>>, f.heard}
    /\ \A i, k \in DOMAIN f.heard : i < k => f.heard[i].at < f.heard[k].at
    /\ \A i \in DOMAIN f.heard : f.heard[i].at + f.heard[i].text <= f.length

\* The fields of a cut.
LEMMA CutIs ==
    ASSUME NEW p, NEW intro, NEW spoken, NEW cues,
           spoken = [i \in DOMAIN p.segments |->
                        [text |-> audio[p.segments[i].path], at |-> p.segments[i].at]],
           cues = Produced!Shifted(p.cues, LeadIn + intro)
    PROVE  LET f == Produced!Cut(p, intro) IN
           /\ f.state = "whole" /\ f.intro = intro
           /\ f.heard = Produced!Shifted(Produced!Shifted(spoken, LeadIn + intro), intro)
           /\ f.burned \in {Produced!Shifted(cues, intro), Produced!Shifted(<<>>, intro)}
           /\ f.track \in {cues, <<>>}
           /\ p.subtitles = {} => /\ f.burned = Produced!Shifted(<<>>, intro)
                                  /\ f.track = <<>>
           /\ f.length = Produced!target_duration(p, spoken) + (LeadIn + intro) + LeadOut + intro
<1>1. PICK m :
         m = [state  |-> "whole", intro |-> intro,
              heard  |-> Produced!Shifted(spoken, LeadIn + intro),
              length |-> Produced!target_duration(p, spoken) + (LeadIn + intro) + LeadOut,
              burned |-> IF "burn_in" \in p.subtitles THEN cues ELSE <<>>,
              track  |-> IF "track" \in p.subtitles THEN cues ELSE <<>>]
  OBVIOUS
<1>2. Produced!Cut(p, intro) = Produced!concat_channel_assets(m, intro)
  BY <1>1 DEF Produced!Cut
<1>3. PICK f : f = Produced!Cut(p, intro)
  OBVIOUS
<1>4. /\ f.state = m.state /\ f.intro = m.intro /\ f.track = m.track
      /\ f.heard = Produced!Shifted(m.heard, intro)
      /\ f.burned = Produced!Shifted(m.burned, intro)
      /\ f.length = m.length + intro
  BY <1>1, <1>2, <1>3 DEF Produced!concat_channel_assets
<1>5. m.burned \in {cues, <<>>} /\ m.track \in {cues, <<>>}
  BY <1>1
<1>6. p.subtitles = {} => m.burned = <<>> /\ m.track = <<>>
  BY <1>1
<1>7. /\ m.state = "whole" /\ m.intro = intro /\ m.heard = Produced!Shifted(spoken, LeadIn + intro)
      /\ m.length = Produced!target_duration(p, spoken) + (LeadIn + intro) + LeadOut
  BY <1>1
<1>8. /\ f.state = "whole" /\ f.intro = intro
      /\ f.heard = Produced!Shifted(Produced!Shifted(spoken, LeadIn + intro), intro)
      /\ f.track \in {cues, <<>>}
  BY <1>4, <1>5, <1>7
<1>9. f.burned \in {Produced!Shifted(cues, intro), Produced!Shifted(<<>>, intro)}
  BY <1>4, <1>5
<1>10. p.subtitles = {} => f.burned = Produced!Shifted(<<>>, intro) /\ f.track = <<>>
  BY <1>4, <1>6
<1>11. f.length = Produced!target_duration(p, spoken) + (LeadIn + intro) + LeadOut + intro
  BY <1>4, <1>7
<1> QED  BY <1>3, <1>8, <1>9, <1>10, <1>11

\* A video cut from what the saga hands over plays as written.
LEMMA CutPlays ==
    ASSUME NEW p, Playable(p), AudioKept, NEW intro \in Nat
    PROVE  Plays(Produced!Cut(p, intro))
<1> PICK f : f = Produced!Cut(p, intro)
  OBVIOUS
<1> PICK spoken : spoken = [i \in DOMAIN p.segments |->
                     [text |-> audio[p.segments[i].path], at |-> p.segments[i].at]]
  OBVIOUS
<1> PICK lead : lead = LeadIn + intro
  OBVIOUS
<1> PICK cues : cues = Produced!Shifted(p.cues, lead)
  OBVIOUS
<1>1. /\ f.intro = intro
      /\ f.heard = Produced!Shifted(Produced!Shifted(spoken, lead), intro)
      /\ f.burned \in {Produced!Shifted(cues, intro), Produced!Shifted(<<>>, intro)}
      /\ f.track \in {cues, <<>>}
      /\ p.subtitles = {} => f.burned = Produced!Shifted(<<>>, intro) /\ f.track = <<>>
      /\ f.length = Produced!target_duration(p, spoken) + lead + LeadOut + intro
  BY CutIs
<1>2. lead \in Nat /\ LeadOut \in Nat
  BY GapsAreNat
<1>3. CASE p.segments = <<>>
  <2>1. spoken = <<>>
    BY <1>3
  <2>2. Produced!Shifted(spoken, lead) = <<>>
    BY <2>1, ShiftedNothing
  <2>3. f.heard = <<>>
    BY <1>1, <2>2, ShiftedNothing
  <2> QED  BY <2>3 DEF Plays
<1>4. CASE p.segments # <<>>
  <2> PICK n \in Nat : \E at \in [1 .. n -> Nat], text \in [1 .. n -> Nat] :
             /\ Rising(at)
             /\ p.segments = Segments(n, at, text)
             /\ p.subtitles # {} => p.cues = Cues(n, at, text)
             /\ \A i \in 1 .. n : <<i, text[i]>> \in DOMAIN audio
    BY <1>4 DEF Playable
  <2>1. PICK at \in [1 .. n -> Nat], text \in [1 .. n -> Nat] :
             /\ Rising(at)
             /\ p.segments = Segments(n, at, text)
             /\ p.subtitles # {} => p.cues = Cues(n, at, text)
             /\ \A i \in 1 .. n : <<i, text[i]>> \in DOMAIN audio
    OBVIOUS
  <2>2. \A i \in 1 .. n : audio[<<i, text[i]>>] = text[i]
    BY <2>1 DEF AudioKept
  <2>3. spoken = Cues(n, at, text)
    BY <2>1, <2>2 DEF Segments, Cues
  <2>4. PICK a : a = Later(n, at, lead)
    OBVIOUS
  <2>5. PICK b : b = Later(n, a, intro)
    OBVIOUS
  <2>6. /\ a \in [1 .. n -> Nat] /\ Produced!Shifted(Cues(n, at, text), lead) = Cues(n, a, text)
    <3>1. Later(n, at, lead) \in [1 .. n -> Nat]
      BY <1>2, LaterIsNat
    <3>2. Produced!Shifted(Cues(n, at, text), lead) = Cues(n, Later(n, at, lead), text)
      BY <1>2, ShiftedCues
    <3> QED  BY <2>4, <3>1, <3>2
  <2>7. /\ b \in [1 .. n -> Nat] /\ Produced!Shifted(Cues(n, a, text), intro) = Cues(n, b, text)
    BY <2>5, <2>6, LaterIsNat, ShiftedCues
  <2>8. ASSUME NEW i \in 1 .. n
         PROVE  /\ a[i] = at[i] + lead /\ b[i] = a[i] + intro
                /\ at[i] \in Nat /\ a[i] \in Nat /\ b[i] \in Nat /\ text[i] \in Nat
    <3>1. a[i] = at[i] + lead
      BY <2>4 DEF Later
    <3>2. b[i] = a[i] + intro
      BY <2>5 DEF Later
    <3> QED  BY <3>1, <3>2, <2>6, <2>7
  <2>9. f.heard = Cues(n, b, text)
    BY <1>1, <2>3, <2>6, <2>7
  <2>10. p.subtitles # {} => cues = Cues(n, a, text)
    BY <2>1, <2>6
  <2>11. f.burned \in {<<>>, f.heard}
    <3>1. CASE p.subtitles = {}
      BY <1>1, <3>1, ShiftedNothing
    <3>2. CASE p.subtitles # {}
      BY <1>1, <2>7, <2>9, <2>10, <3>2, ShiftedNothing
    <3> QED  BY <3>1, <3>2
  <2>12. f.intro = 0 => f.track \in {<<>>, f.heard}
    <3>1. SUFFICES ASSUME intro = 0 PROVE f.track \in {<<>>, f.heard}
      BY <1>1
    <3>2. \A i \in 1 .. n : b[i] = a[i]
      BY <2>8, <3>1
    <3>3. Cues(n, b, text) = Cues(n, a, text)
      BY <3>2 DEF Cues
    <3>4. CASE p.subtitles = {}
      BY <1>1, <3>4
    <3>5. CASE p.subtitles # {}
      BY <1>1, <2>9, <2>10, <3>3, <3>5
    <3> QED  BY <3>4, <3>5
  <2>13. /\ DOMAIN f.heard = 1 .. n
         /\ \A i \in 1 .. n : f.heard[i].at = b[i] /\ f.heard[i].text = text[i]
    BY <2>9 DEF Cues
  <2>14. \A i, k \in 1 .. n : i < k => b[i] < b[k]
    <3>1. \A i, k \in 1 .. n : i < k => at[i] < at[k]
      BY <2>1 DEF Rising
    <3>2. ASSUME NEW i \in 1 .. n, NEW k \in 1 .. n, i < k PROVE b[i] < b[k]
      <4>1. at[i] < at[k]
        BY <3>1, <3>2
      <4>2. /\ a[i] = at[i] + lead /\ b[i] = a[i] + intro
            /\ a[k] = at[k] + lead /\ b[k] = a[k] + intro
            /\ at[i] \in Nat /\ at[k] \in Nat
        BY <2>8
      <4> QED  BY <1>2, <4>1, <4>2
    <3> QED  BY <3>2
  <2>15. PICK t : t = Produced!target_duration(p, Cues(n, at, text))
    OBVIOUS
  <2>16. t \in Nat /\ \A i \in 1 .. n : at[i] + text[i] <= t
    BY <2>15, OutlastsLines DEF Playable
  <2>17. f.length = t + lead + LeadOut + intro
    BY <1>1, <2>3, <2>15
  <2>18. ASSUME NEW i \in 1 .. n PROVE b[i] + text[i] <= f.length
    <3>1. b[i] = (at[i] + lead) + intro
      BY <2>8
    <3>2. at[i] \in Nat /\ text[i] \in Nat /\ at[i] + text[i] <= t
      BY <2>16, <2>8
    <3>3. t \in Nat
      BY <2>16
    <3> QED  BY <1>2, <2>17, <3>1, <3>2, <3>3
  <2> QED  BY <2>11, <2>12, <2>13, <2>14, <2>18 DEF Plays
<1> QED  BY <1>3, <1>4

-----------------------------------------------------------------------------
(* The lines of a video: the saga's state and what is under way.           *)

Scene == [text : Line, path : Seq(Nat), seconds : Nat]
Script == [lines : Seq(Line), shots : Seq(Line)]

VideoSteps == {"none", "validate", "synthesize", "render", "assemble"}
VideoStates == {"resting", "in_progress", "review", "failed"}

VideoRow ==
    [saga : Nat, step : VideoSteps, state : VideoStates, script : Script, config : Configs,
     scenes : Seq(Scene), offsets : Seq(Nat), seconds : Nat, intro : Nat, caption : BOOLEAN]

Silent(scenes) == \A i \in DOMAIN scenes : scenes[i].path = <<>>

Voiced(scenes) ==
    \A i \in DOMAIN scenes : /\ scenes[i].path = <<i, scenes[i].text>>
                             /\ scenes[i].path \in DOMAIN audio

\* Without audio there is nothing to say.
LEMMA SilentSegments ==
    ASSUME NEW p, p.scenes \in Seq(Scene), Silent(p.scenes)
    PROVE  Produced!narrationSegments(p) = <<>>
<1> PICK scenes : scenes = p.scenes
  OBVIOUS
<1> PICK n : n = Len(scenes)
  OBVIOUS
<1>1. n \in Nat /\ DOMAIN scenes = 1 .. n
  OBVIOUS
<1>2. PICK s : s = CHOOSE z : z = [i \in 0 .. n |->
                     IF i = 0 THEN <<>>
                     ELSE IF scenes[i].path = <<>> THEN z[i - 1]
                     ELSE Append(z[i - 1], [path |-> scenes[i].path,
                                            at |-> Produced!startTime(p, i)])]
  OBVIOUS
<1>3. s[n] = Produced!narrationSegments(p)
  BY <1>2 DEF Produced!narrationSegments
<1>4. \A i \in 1 .. n : scenes[i].path = <<>>
  BY <1>1 DEF Silent
<1>5. PICK f : f = [i \in 0 .. n |-> <<>>]
  OBVIOUS
<1>6. f = [i \in 0 .. n |-> IF i = 0 THEN <<>>
                     ELSE IF scenes[i].path = <<>> THEN f[i - 1]
                     ELSE Append(f[i - 1], [path |-> scenes[i].path,
                                            at |-> Produced!startTime(p, i)])]
  <2>1. \A i \in 0 .. n : i # 0 => i \in 1 .. n /\ f[i - 1] = <<>>
    BY <1>1, <1>5
  <2> QED  BY <1>4, <1>5, <2>1
<1>7. s = [i \in 0 .. n |-> IF i = 0 THEN <<>>
                     ELSE IF scenes[i].path = <<>> THEN s[i - 1]
                     ELSE Append(s[i - 1], [path |-> scenes[i].path,
                                            at |-> Produced!startTime(p, i)])]
  BY <1>2, <1>6
<1> DEFINE T == {k \in 0 .. n : s[k] = <<>>}
<1>8. 0 \in T
  BY <1>1, <1>7
<1>9. ASSUME NEW k \in 1 .. n, k - 1 \in T PROVE k \in T
  BY <1>4, <1>7, <1>9
<1>10. n \in T
  <2>1. 0 .. n \subseteq T
    <3> HIDE DEF T
    <3> QED  BY <1>1, <1>8, <1>9, UpTo
  <2> QED  BY <1>1, <2>1
<1> QED  BY <1>3, <1>10

\* With audio for every scene, every scene is said.
LEMMA VoicedSegments ==
    ASSUME NEW p, p.scenes \in Seq(Scene), \A i \in DOMAIN p.scenes : p.scenes[i].path # <<>>
    PROVE  Produced!narrationSegments(p)
              = [i \in DOMAIN p.scenes |-> [path |-> p.scenes[i].path,
                                            at |-> Produced!startTime(p, i)]]
<1> PICK scenes : scenes = p.scenes
  OBVIOUS
<1> PICK n : n = Len(scenes)
  OBVIOUS
<1>1. n \in Nat /\ DOMAIN scenes = 1 .. n
  OBVIOUS
<1>2. PICK r : r = [i \in 1 .. n |-> [path |-> scenes[i].path, at |-> Produced!startTime(p, i)]]
  OBVIOUS
<1>3. PICK s : s = CHOOSE z : z = [i \in 0 .. n |->
                     IF i = 0 THEN <<>>
                     ELSE IF scenes[i].path = <<>> THEN z[i - 1]
                     ELSE Append(z[i - 1], [path |-> scenes[i].path,
                                            at |-> Produced!startTime(p, i)])]
  OBVIOUS
<1>4. s[n] = Produced!narrationSegments(p)
  BY <1>3 DEF Produced!narrationSegments
<1>5. \A i \in 1 .. n : scenes[i].path # <<>>
  BY <1>1
<1>6. PICK f : f = [i \in 0 .. n |-> [k \in 1 .. i |-> r[k]]]
  OBVIOUS
<1>7. ASSUME NEW i \in 1 .. n
      PROVE  Append([k \in 1 .. i - 1 |-> r[k]], r[i]) = [k \in 1 .. i |-> r[k]]
  <2>1. PICK x : x = [k \in 1 .. i - 1 |-> r[k]]
    OBVIOUS
  <2>2. x \in Seq({r[k] : k \in 1 .. n}) /\ Len(x) = i - 1 /\ r[i] \in {r[k] : k \in 1 .. n}
    <3>1. i - 1 \in Nat /\ \A k \in 1 .. i - 1 : k \in 1 .. n
      BY <1>1
    <3>2. x \in [1 .. i - 1 -> {r[k] : k \in 1 .. n}]
      BY <2>1, <3>1
    <3> QED  BY <3>1, <3>2
  <2>3. PICK y : y = Append(x, r[i])
    OBVIOUS
  <2>4. /\ y \in Seq({r[k] : k \in 1 .. n}) /\ Len(y) = i
        /\ \A k \in 1 .. i - 1 : y[k] = x[k]
        /\ y[i] = r[i]
    <3>1. Len(x) + 1 = i
      BY <1>1, <2>2
    <3> QED  BY <2>2, <2>3, <3>1, AppendProperties
  <2>5. \A k \in 1 .. i : y[k] = r[k]
    BY <2>1, <2>4
  <2>6. y = [k \in 1 .. i |-> y[k]]
    BY <2>4
  <2> QED  BY <2>1, <2>3, <2>5, <2>6
<1>8. f = [i \in 0 .. n |-> IF i = 0 THEN <<>>
                     ELSE IF scenes[i].path = <<>> THEN f[i - 1]
                     ELSE Append(f[i - 1], [path |-> scenes[i].path,
                                            at |-> Produced!startTime(p, i)])]
  <2>1. ASSUME NEW i \in 0 .. n
        PROVE  f[i] = IF i = 0 THEN <<>>
                      ELSE IF scenes[i].path = <<>> THEN f[i - 1]
                      ELSE Append(f[i - 1], [path |-> scenes[i].path,
                                             at |-> Produced!startTime(p, i)])
    <3>1. CASE i = 0
      BY <1>6, <3>1
    <3>2. CASE i # 0
      <4>1. i \in 1 .. n /\ i - 1 \in 0 .. n
        BY <1>1, <3>2
      <4>2. f[i - 1] = [k \in 1 .. i - 1 |-> r[k]] /\ f[i] = [k \in 1 .. i |-> r[k]]
        BY <1>6, <4>1
      <4>3. r[i] = [path |-> scenes[i].path, at |-> Produced!startTime(p, i)]
        BY <1>2, <4>1
      <4> QED  BY <1>5, <1>7, <3>2, <4>1, <4>2, <4>3
    <3> QED  BY <3>1, <3>2
  <2> QED  BY <1>6, <2>1
<1>9. s = [i \in 0 .. n |-> IF i = 0 THEN <<>>
                     ELSE IF scenes[i].path = <<>> THEN s[i - 1]
                     ELSE Append(s[i - 1], [path |-> scenes[i].path,
                                            at |-> Produced!startTime(p, i)])]
  BY <1>3, <1>8
<1> DEFINE T == {k \in 0 .. n : s[k] = [i \in 1 .. k |-> r[i]]}
<1>10. 0 \in T
  BY <1>1, <1>9
<1>11. ASSUME NEW k \in 1 .. n, k - 1 \in T PROVE k \in T
  <2>1. s[k - 1] = [i \in 1 .. k - 1 |-> r[i]]
    BY <1>11
  <2>2. s[k] = Append(s[k - 1], r[k])
    <3>1. k \in 0 .. n /\ k # 0
      BY <1>1
    <3>2. scenes[k].path # <<>>
      BY <1>5
    <3>3. r[k] = [path |-> scenes[k].path, at |-> Produced!startTime(p, k)]
      BY <1>2
    <3> QED  BY <1>9, <3>1, <3>2, <3>3
  <2>3. s[k] = [i \in 1 .. k |-> r[i]]
    BY <1>7, <2>1, <2>2
  <2> QED  BY <2>3
<1>12. n \in T
  <2>1. 0 .. n \subseteq T
    <3> HIDE DEF T
    <3> QED  BY <1>1, <1>10, <1>11, UpTo
  <2>2. n \in 0 .. n
    BY <1>1
  <2> HIDE DEF T
  <2> QED  BY <2>1, <2>2
<1>13. s[n] = r
  BY <1>2, <1>12
<1> QED  BY <1>1, <1>2, <1>4, <1>13

\* What the saga sends to be cut once the moments are those of its scenes.
LEMMA PayloadPlayable ==
    ASSUME NEW p \in VideoRow, Silent(p.scenes) \/ Voiced(p.scenes), Rising(p.offsets),
           Len(p.offsets) = Len(p.scenes)
    PROVE  Playable(Produced!assembleVideoPayload(p))
<1> PICK m : m = Produced!assembleVideoPayload(p)
  OBVIOUS
<1>1. /\ m.segments = Produced!narrationSegments(p) /\ m.seconds = p.seconds
      /\ m.subtitles = p.config.subtitles
      /\ m.subtitles # {} => m.cues = Produced!subtitleCues(p)
  BY DEF Produced!assembleVideoPayload
<1>2. p.scenes \in Seq(Scene) /\ p.offsets \in Seq(Nat) /\ p.seconds \in Nat
  BY DEF VideoRow
<1>3. CASE Silent(p.scenes)
  BY <1>1, <1>2, <1>3, SilentSegments DEF Playable
<1>4. CASE Voiced(p.scenes)
  <2>1. PICK n : n = Len(p.scenes)
    OBVIOUS
  <2>2. n \in Nat /\ DOMAIN p.scenes = 1 .. n /\ DOMAIN p.offsets = 1 .. n
    BY <1>2, <2>1
  <2>3. PICK text : text = [i \in 1 .. n |-> p.scenes[i].text]
    OBVIOUS
  <2>4. text \in [1 .. n -> Nat]
    <3>1. \A i \in 1 .. n : p.scenes[i] \in Scene
      BY <1>2, <2>2
    <3>2. \A i \in 1 .. n : p.scenes[i].text \in Nat
      BY <3>1 DEF Scene, Line
    <3> QED  BY <2>3, <3>2
  <2>5. PICK at : at = p.offsets
    OBVIOUS
  <2>6. at \in [1 .. n -> Nat] /\ Rising(at)
    BY <1>2, <2>2, <2>5
  <2>7. \A i \in 1 .. n : Produced!startTime(p, i) = at[i]
    BY <2>2, <2>5 DEF Produced!startTime
  <2>8. \A i \in 1 .. n : p.scenes[i].path = <<i, text[i]>> /\ <<i, text[i]>> \in DOMAIN audio
    BY <1>4, <2>2, <2>3 DEF Voiced
  <2>9. \A i \in DOMAIN p.scenes : p.scenes[i].path # <<>>
    <3>1. \A i, t : <<i, t>> # <<>>
      OBVIOUS
    <3> QED  BY <2>2, <2>8, <3>1
  <2>10. m.segments = Segments(n, at, text)
    <3>1. m.segments = [i \in DOMAIN p.scenes |-> [path |-> p.scenes[i].path,
                                                   at |-> Produced!startTime(p, i)]]
      BY <1>1, <1>2, <2>9, VoicedSegments
    <3> QED  BY <2>2, <2>7, <2>8, <3>1 DEF Segments
  <2>11. m.subtitles # {} => m.cues = Cues(n, at, text)
    BY <1>1, <2>2, <2>3, <2>7 DEF Produced!subtitleCues, Cues
  <2> QED  BY <1>1, <1>2, <2>2, <2>4, <2>6, <2>8, <2>10, <2>11 DEF Playable
<1> QED  BY <1>3, <1>4

\* The workers speak on: what was spoken stays as it was.
AudioGrows ==
    /\ DOMAIN audio \subseteq DOMAIN audio'
    /\ \A x \in DOMAIN audio : audio'[x] = audio[x]

LEMMA SpokenIsKept ==
    ASSUME AudioKept, NEW scenes \in Seq(Scene), NEW n \in 0 .. Len(scenes),
           audio' = Produced!Spoken(scenes, n)
    PROVE  /\ AudioKept' /\ AudioGrows
           /\ \A i \in 1 .. n : <<i, scenes[i].text>> \in DOMAIN audio'
<1>1. \A i, t : Produced!compute_audio_path(i, t) = <<i, t>>
  BY DEF Produced!compute_audio_path
<1>2. DOMAIN audio' = {<<i, scenes[i].text>> : i \in 1 .. n} \cup DOMAIN audio
  BY <1>1 DEF Produced!Spoken
<1>3. \A x \in DOMAIN audio : audio'[x] = audio[x]
  BY <1>2 DEF Produced!Spoken
<1>4. ASSUME NEW x \in DOMAIN audio', x \notin DOMAIN audio PROVE audio'[x] = x[2]
  <2>1. PICK k \in 1 .. n : x = <<k, scenes[k].text>>
    BY <1>2, <1>4
  <2>2. PICK first : first = CHOOSE i \in 1 .. n : <<i, scenes[i].text>> = x
    OBVIOUS
  <2>3. first \in 1 .. n /\ <<first, scenes[first].text>> = x
    BY <2>1, <2>2
  <2>4. audio'[x] = scenes[first].text
    BY <1>1, <1>2, <1>4, <2>2 DEF Produced!Spoken
  <2> QED  BY <2>3, <2>4
<1>5. AudioKept'
  BY <1>3, <1>4 DEF AudioKept
<1> QED  BY <1>2, <1>3, <1>5 DEF AudioGrows

-----------------------------------------------------------------------------
(* What holds all along.                                                   *)

\* The steps that work on the lines the script was found to have.
Spoken == {"synthesize", "render", "assemble"}

SameWords(a, b) == DOMAIN a = DOMAIN b /\ \A i \in DOMAIN a : a[i].text = b[i].text

Timed(r) == r.offsets \in Seq(Nat) /\ Rising(r.offsets) /\ r.seconds \in Nat

Reading == [path : Seq(Nat), seconds : Nat]

Readings(r) ==
    /\ r \in Seq(Reading)
    /\ \A i \in DOMAIN r : r[i].path = <<i, r[i].seconds>> /\ r[i].path \in DOMAIN audio

RowKept(p) ==
    /\ p \in VideoRow
    /\ Silent(p.scenes) \/ Voiced(p.scenes)
    /\ Rising(p.offsets)
    /\ p.step = "assemble" => Len(p.offsets) = Len(p.scenes)

\* A command, for the row p: one to speak, of the saga of p, has the words of p.
CommandOf(c, p) ==
    /\ c.saga \in Nat /\ c.saga <= p.saga
    /\ c.step = "validate" => c.payload.lines \in Seq(Line)
    /\ c.step = "synthesize" =>
          /\ c.payload \in Seq(Scene)
          /\ c.saga = p.saga => p.step \in Spoken /\ SameWords(c.payload, p.scenes)
    /\ c.step = "render" => c.payload.seconds \in Seq(Nat)
    /\ c.step = "assemble" => Playable(c.payload)

\* The audio of r says the words of p.
SaysWords(r, p) == DOMAIN r = DOMAIN p.scenes
                   /\ \A i \in DOMAIN r : r[i].seconds = p.scenes[i].text

EventOf(e, p) ==
    e.step # "asset" =>
        /\ e.saga \in Nat /\ e.saga <= p.saga /\ e.step \in Spoken \cup {"validate"}
        /\ e.ok /\ e.step = "validate" => e.result.lines \in Seq(Line)
        /\ e.ok /\ e.step = "synthesize" =>
              /\ Readings(e.result.scenes)
              /\ e.saga = p.saga => p.step \in Spoken /\ SaysWords(e.result.scenes, p)
        /\ e.ok /\ e.step = "render" => Timed(e.result)

RenderedKept == rendered = Produced!None \/ Timed(rendered)

FinalKept == final = Produced!None \/ final.state # "whole" \/ Plays(final)

LengthsKept ==
    /\ pointer.id \in Nat
    /\ \A a \in assets : a.seconds \in Nat
    /\ \A j \in jobs : j.active.seconds \in Nat /\ j.cmd.upload \in Uploads
    /\ \A u \in uploads : u.upload \in Uploads

PlayKept ==
    /\ RowKept(video)
    /\ \A c \in orders : CommandOf(c, video)
    /\ \A e \in reports : EventOf(e, video)
    /\ AudioKept /\ RenderedKept /\ FinalKept

\* A row that may follow: of the next saga, or of this one with the same words.
Follows(p) ==
    \/ p.saga = video.saga + 1
    \/ /\ p.saga = video.saga
       /\ video.step \in Spoken => p.step \in Spoken /\ SameWords(video.scenes, p.scenes)

LEMMA PlayableStays == ASSUME NEW p, Playable(p), AudioGrows PROVE Playable(p)'
BY DEF Playable, AudioGrows

LEMMA CommandStays ==
    ASSUME NEW c, NEW p, CommandOf(c, video), video.saga \in Nat, Follows(p), AudioGrows
    PROVE  CommandOf(c, p)'
<1>1. c.saga \in Nat /\ c.saga <= video.saga
  BY DEF CommandOf
<1>2. c.saga <= p.saga /\ (c.saga = p.saga => p.saga = video.saga)
  BY <1>1 DEF Follows
<1>3. ASSUME c.step = "synthesize", c.saga = p.saga
      PROVE  p.step \in Spoken /\ SameWords(c.payload, p.scenes)
  <2>1. p.saga = video.saga /\ p.saga # video.saga + 1
    BY <1>1, <1>2, <1>3
  <2>2. video.step \in Spoken /\ SameWords(c.payload, video.scenes)
    BY <1>3, <2>1 DEF CommandOf
  <2>3. p.step \in Spoken /\ SameWords(video.scenes, p.scenes)
    BY <2>1, <2>2 DEF Follows
  <2> QED  BY <2>2, <2>3 DEF SameWords
<1>4. c.step = "assemble" => Playable(c.payload)'
  BY PlayableStays DEF CommandOf
<1> QED  BY <1>1, <1>2, <1>3, <1>4 DEF CommandOf

LEMMA EventStays ==
    ASSUME NEW e, NEW p, EventOf(e, video), video.saga \in Nat, Follows(p), AudioGrows
    PROVE  EventOf(e, p)'
<1>1. SUFFICES ASSUME e.step # "asset" PROVE EventOf(e, p)'
  BY DEF EventOf
<1>2. e.saga \in Nat /\ e.saga <= video.saga /\ e.step \in Spoken \cup {"validate"}
  BY <1>1 DEF EventOf
<1>3. e.saga <= p.saga /\ (e.saga = p.saga => p.saga = video.saga)
  BY <1>2 DEF Follows
<1>4. ASSUME e.ok, e.step = "synthesize" PROVE Readings(e.result.scenes)'
  BY <1>1, <1>4 DEF EventOf, Readings, AudioGrows
<1>5. ASSUME e.ok, e.step = "synthesize", e.saga = p.saga
      PROVE  p.step \in Spoken /\ SaysWords(e.result.scenes, p)
  <2>1. p.saga = video.saga /\ p.saga # video.saga + 1
    BY <1>2, <1>3, <1>5
  <2>2. video.step \in Spoken /\ SaysWords(e.result.scenes, video)
    BY <1>1, <1>5, <2>1 DEF EventOf
  <2>3. p.step \in Spoken /\ SameWords(video.scenes, p.scenes)
    BY <2>1, <2>2 DEF Follows
  <2> QED  BY <2>2, <2>3 DEF SameWords, SaysWords
<1>6. /\ e.ok /\ e.step = "validate" => e.result.lines \in Seq(Line)
      /\ e.ok /\ e.step = "render" => Timed(e.result)
  BY <1>1 DEF EventOf
<1> QED  BY <1>2, <1>3, <1>4, <1>5, <1>6 DEF EventOf

\* A step that leaves a row that may follow, with fitting commands and answers.
LEMMA RunsOn ==
    ASSUME PlayKept, NEW p, video' = p, RowKept(p)', Follows(p), AudioGrows,
           AudioKept', RenderedKept', FinalKept',
           \A c \in orders' : c \in orders \/ CommandOf(c, p)',
           \A e \in reports' : e \in reports \/ EventOf(e, p)'
    PROVE  PlayKept'
<1>1. video.saga \in Nat
  BY DEF PlayKept, RowKept, VideoRow
<1>2. \A c \in orders : CommandOf(c, p)'
  BY <1>1, CommandStays DEF PlayKept
<1>3. \A e \in reports : EventOf(e, p)'
  BY <1>1, EventStays DEF PlayKept
<1> QED  BY <1>2, <1>3 DEF PlayKept

\* What a step of the orchestrator leaves: a row p, and commands that fit it.
Carries(p) ==
    /\ RowKept(p) /\ Follows(p) /\ video' = p
    /\ \A c \in orders' : c \in orders \/ CommandOf(c, p)

LEMMA OrchestratorRunsOn ==
    ASSUME PlayKept, \E p : Carries(p), reports' \subseteq reports, FinalKept',
           UNCHANGED <<audio, rendered>>
    PROVE  PlayKept'
<1>1. PICK p : Carries(p)
  OBVIOUS
<1>2. AudioGrows /\ AudioKept' /\ RenderedKept'
  BY DEF AudioGrows, AudioKept, RenderedKept, Timed, PlayKept
<1>3. RowKept(p)' /\ Follows(p) /\ video' = p
  BY <1>1 DEF Carries, RowKept, Voiced
<1>4. \A c : CommandOf(c, p) => CommandOf(c, p)'
  BY DEF CommandOf, Playable
<1>5. \A c \in orders' : c \in orders \/ CommandOf(c, p)'
  BY <1>1, <1>4 DEF Carries
<1>6. \A e \in reports' : e \in reports \/ EventOf(e, p)'
  OBVIOUS
<1> QED  BY <1>2, <1>3, <1>5, <1>6, RunsOn

\* The answer of a worker, with what it wrote.
LEMMA WorkersRunOn ==
    ASSUME PlayKept, UNCHANGED video, AudioGrows, AudioKept', RenderedKept', FinalKept',
           orders' \subseteq orders, \A e \in reports' : e \in reports \/ EventOf(e, video)'
    PROVE  PlayKept'
<1>1. PICK p : p = video
  OBVIOUS
<1>2. Follows(p)
  BY <1>1 DEF Follows, SameWords
<1>3. RowKept(p)'
  BY <1>1 DEF PlayKept, RowKept, Voiced, AudioGrows
<1>4. \A e \in reports' : e \in reports \/ EventOf(e, p)'
  <2>1. video' = p
    BY <1>1
  <2>2. \A e : EventOf(e, video)' => EventOf(e, p)'
    BY <2>1 DEF EventOf
  <2> QED  BY <2>2
<1>5. \A c \in orders' : c \in orders \/ CommandOf(c, p)'
  OBVIOUS
<1>6. video' = p
  BY <1>1
<1> QED  BY <1>2, <1>3, <1>4, <1>5, <1>6, RunsOn

-----------------------------------------------------------------------------
(* What the orchestrator does with the lines.                              *)

\* A row the saga may go on from.
RowReady(q) ==
    /\ q \in VideoRow /\ q.saga = video.saga
    /\ Silent(q.scenes) \/ Voiced(q.scenes)
    /\ Rising(q.offsets)

PayloadFits(q, s, payload) ==
    /\ s = "validate" => payload.lines \in Seq(Line)
    /\ s = "synthesize" => payload = q.scenes
    /\ s = "render" => payload.seconds \in Seq(Nat)
    /\ s = "assemble" => Playable(payload) /\ Len(q.offsets) = Len(q.scenes)

KeepsWords(q, s) == video.step \in Spoken => s \in Spoken /\ SameWords(video.scenes, q.scenes)

\* A step is opened and its command sent.
LEMMA MoveCarries ==
    ASSUME PlayKept, NEW q, RowReady(q), NEW s \in VideoSteps, KeepsWords(q, s), NEW payload,
           PayloadFits(q, s, payload), Produced!Move(q, s, payload)
    PROVE  \E p : Carries(p)
<1>1. PICK p : p = [q EXCEPT !.step = s, !.state = "in_progress"]
  OBVIOUS
<1>2. /\ p \in VideoRow /\ p.step = s /\ p.saga = q.saga /\ p.scenes = q.scenes
      /\ p.offsets = q.offsets
  <2>1. "in_progress" \in VideoStates /\ q \in VideoRow
    BY DEF VideoStates, RowReady
  <2> QED  BY <1>1, <2>1 DEF VideoRow
<1>3. PICK c : c = [saga |-> video.saga, step |-> s, payload |-> payload]
  OBVIOUS
<1>4. video' = p /\ orders' = orders \cup {c}
  BY <1>1, <1>3 DEF Produced!Move, Produced!At, Produced!dispatch
<1>5. RowKept(p)
  BY <1>2 DEF RowKept, RowReady, PayloadFits
<1>6. Follows(p)
  BY <1>2 DEF Follows, RowReady, KeepsWords
<1>7. c.saga = video.saga /\ c.step = s /\ c.payload = payload
  BY <1>3
<1>8. CommandOf(c, p)
  <2>1. c.saga \in Nat /\ c.saga <= p.saga /\ c.saga = p.saga
    BY <1>2, <1>7 DEF RowReady, VideoRow
  <2>2. s = "synthesize" => payload \in Seq(Scene) /\ SameWords(payload, p.scenes) /\ s \in Spoken
    BY <1>2 DEF PayloadFits, VideoRow, SameWords, Spoken
  <2> QED  BY <1>2, <1>7, <2>1, <2>2 DEF CommandOf, PayloadFits
<1> QED  BY <1>4, <1>5, <1>6, <1>8 DEF Carries

\* A step fails, or the saga rests, and nothing is sent.
LEMMA StopCarries ==
    ASSUME NEW q, RowReady(q), NEW s \in VideoSteps, KeepsWords(q, s), NEW st \in VideoStates,
           s = "assemble" => Len(q.offsets) = Len(q.scenes),
           video' = [q EXCEPT !.step = s, !.state = st], orders' \subseteq orders
    PROVE  \E p : Carries(p)
<1>1. PICK p : p = [q EXCEPT !.step = s, !.state = st]
  OBVIOUS
<1>2. /\ p \in VideoRow /\ p.step = s /\ p.saga = q.saga /\ p.scenes = q.scenes
      /\ p.offsets = q.offsets
  BY <1>1 DEF RowReady, VideoRow
<1>3. RowKept(p)
  BY <1>2 DEF RowKept, RowReady
<1>4. Follows(p)
  BY <1>2 DEF Follows, RowReady, KeepsWords
<1> QED  BY <1>1, <1>3, <1>4 DEF Carries

LEMMA VideoIsReady ==
    ASSUME PlayKept
    PROVE  /\ RowReady(video) /\ KeepsWords(video, video.step) /\ video.step \in VideoSteps
           /\ video.step = "assemble" => Len(video.offsets) = Len(video.scenes)
           /\ video \in VideoRow
BY DEF PlayKept, RowKept, RowReady, KeepsWords, SameWords, VideoRow

\* Rendering starts, or fails for want of a language.
LEMMA RenderCarries ==
    ASSUME PlayKept, NEW q, RowReady(q), KeepsWords(q, "render"), Produced!startRenderScenes(q)
    PROVE  \E p : Carries(p)
<1>1. "render" \in VideoSteps /\ "failed" \in VideoStates
  BY DEF VideoSteps, VideoStates
<1>2. CASE Produced!Move(q, "render", Produced!renderPayload(q))
  <2>1. q.scenes \in Seq(Scene)
    BY DEF RowReady, VideoRow
  <2>2. PICK x : x = [i \in DOMAIN q.scenes |-> q.scenes[i].seconds]
    OBVIOUS
  <2>3. x \in Seq(Nat)
    <3>1. PICK n : n = Len(q.scenes)
      OBVIOUS
    <3>2. n \in Nat /\ DOMAIN q.scenes = 1 .. n /\ \A i \in 1 .. n : q.scenes[i] \in Scene
      BY <2>1, <3>1
    <3>3. \A i \in 1 .. n : q.scenes[i].seconds \in Nat
      BY <3>2 DEF Scene
    <3>4. x \in [1 .. n -> Nat]
      BY <2>2, <3>2, <3>3
    <3> QED  BY <3>2, <3>4
  <2>4. Produced!renderPayload(q).seconds = x
    BY <2>2 DEF Produced!renderPayload
  <2>5. PayloadFits(q, "render", Produced!renderPayload(q))
    BY <2>3, <2>4 DEF PayloadFits
  <2> QED  BY <1>1, <1>2, <2>5, MoveCarries
<1>3. CASE video' = Produced!Failed(q, "render") /\ UNCHANGED orders
  BY <1>1, <1>3, StopCarries DEF Produced!Failed
<1> QED  BY <1>2, <1>3 DEF Produced!startRenderScenes

\* After the review, or without one, the lines are spoken or only timed.
LEMMA ResumeCarries ==
    ASSUME PlayKept, NEW q, RowReady(q), video.step \notin Spoken, Produced!ResumeAfterReview(q)
    PROVE  \E p : Carries(p)
<1>1. CASE q.config.tts
  <2>1. Produced!Move(q, "synthesize", q.scenes)
    BY <1>1 DEF Produced!ResumeAfterReview, Produced!startSynthesizeSpeech
  <2>2. "synthesize" \in VideoSteps /\ KeepsWords(q, "synthesize")
    BY DEF VideoSteps, KeepsWords
  <2>3. PayloadFits(q, "synthesize", q.scenes)
    BY DEF PayloadFits
  <2> QED  BY <2>1, <2>2, <2>3, MoveCarries
<1>2. CASE ~q.config.tts
  <2>1. Produced!skipSynthesizeSpeech(q)
    BY <1>2 DEF Produced!ResumeAfterReview
  <2>2. PICK scenes : scenes = [i \in DOMAIN q.scenes |->
                                  [q.scenes[i] EXCEPT !.path = <<>>, !.seconds = Estimate]]
    OBVIOUS
  <2>3. PICK r : r = [q EXCEPT !.scenes = scenes]
    OBVIOUS
  <2>4. Produced!startRenderScenes(r)
    BY <2>1, <2>2, <2>3 DEF Produced!skipSynthesizeSpeech
  <2>5. scenes \in Seq(Scene) /\ Silent(scenes)
    <3>1. PICK n : n = Len(q.scenes)
      OBVIOUS
    <3>2. n \in Nat /\ DOMAIN q.scenes = 1 .. n /\ \A i \in 1 .. n : q.scenes[i] \in Scene
      BY <3>1 DEF RowReady, VideoRow
    <3>3. ASSUME NEW i \in 1 .. n PROVE scenes[i] \in Scene /\ scenes[i].path = <<>>
      <4>1. scenes[i] = [q.scenes[i] EXCEPT !.path = <<>>, !.seconds = Estimate]
        BY <2>2, <3>2
      <4>2. q.scenes[i] \in [text : Line, path : Seq(Nat), seconds : Nat]
        BY <3>2 DEF Scene
      <4>3. <<>> \in Seq(Nat) /\ Estimate \in Nat
        BY GapsAreNat DEF Line
      <4> QED  BY <4>1, <4>2, <4>3 DEF Scene
    <3>4. scenes \in [1 .. n -> Scene]
      BY <2>2, <3>2, <3>3
    <3> QED  BY <3>2, <3>3, <3>4 DEF Silent
  <2>6. r \in VideoRow /\ r.saga = q.saga /\ r.scenes = scenes /\ r.offsets = q.offsets
    BY <2>3, <2>5 DEF RowReady, VideoRow
  <2>7. RowReady(r) /\ KeepsWords(r, "render")
    BY <2>5, <2>6 DEF RowReady, KeepsWords
  <2> QED  BY <2>4, <2>7, RenderCarries
<1> QED  BY <1>1, <1>2

LEMMA RebuiltFits ==
    ASSUME PlayKept, NEW payload, payload = Produced!rebuildPayload(video)
    PROVE  PayloadFits(video, video.step, payload)
<1>1. video \in VideoRow /\ video.scenes \in Seq(Scene)
  BY VideoIsReady DEF VideoRow
<1>2. CASE video.step = "validate"
  <2>1. payload = video.script
    BY <1>2 DEF Produced!rebuildPayload, Produced!validatePayload
  <2> QED  BY <1>1, <1>2, <2>1 DEF PayloadFits, VideoRow, Script
<1>3. CASE video.step = "synthesize"
  <2>1. payload = video.scenes
    BY <1>3 DEF Produced!rebuildPayload
  <2> QED  BY <1>3, <2>1 DEF PayloadFits
<1>4. CASE video.step = "render"
  <2>1. payload = Produced!renderPayload(video)
    BY <1>4 DEF Produced!rebuildPayload
  <2>2. payload.seconds = [i \in DOMAIN video.scenes |-> video.scenes[i].seconds]
    BY <2>1 DEF Produced!renderPayload
  <2>3. PICK n : n = Len(video.scenes)
    OBVIOUS
  <2>4. n \in Nat /\ DOMAIN video.scenes = 1 .. n /\ \A i \in 1 .. n : video.scenes[i] \in Scene
    BY <1>1, <2>3
  <2>5. \A i \in 1 .. n : video.scenes[i].seconds \in Nat
    BY <2>4 DEF Scene
  <2>6. payload.seconds \in [1 .. n -> Nat]
    BY <2>2, <2>4, <2>5
  <2>7. payload.seconds \in Seq(Nat)
    BY <2>4, <2>6
  <2> QED  BY <1>4, <2>7 DEF PayloadFits
<1>5. CASE video.step = "assemble"
  <2>1. payload = Produced!assembleVideoPayload(video)
    BY <1>5 DEF Produced!rebuildPayload
  <2>2. Playable(payload)
    BY <1>5, <2>1, PayloadPlayable DEF PlayKept, RowKept
  <2> QED  BY <1>5, <2>2, VideoIsReady DEF PayloadFits
<1>6. CASE video.step = "none"
  BY <1>6 DEF PayloadFits
<1> QED  BY <1>1, <1>2, <1>3, <1>4, <1>5, <1>6 DEF VideoRow, VideoSteps

\* Before its first saga a video has no lines.
LEMMA FirstRow ==
    /\ Produced!project0 \in VideoRow
    /\ Produced!project0.scenes = <<>> /\ Produced!project0.offsets = <<>>
    /\ Produced!project0.saga = 0 /\ Produced!project0.step = "none"
<1>1. PICK s, c : s = (CHOOSE x \in Scripts : TRUE) /\ c = (CHOOSE x \in Configs : TRUE)
  OBVIOUS
<1>2. s \in Scripts /\ c \in Configs /\ Scripts \subseteq Script
  BY <1>1, ProducedAssumption DEF Produced!ScriptsAssumption, Produced!ConfigsAssumption,
                                  Script, Line
<1>3. Produced!project0 =
         [saga |-> 0, step |-> "none", state |-> "resting", script |-> s, config |-> c,
          scenes |-> <<>>, offsets |-> <<>>, seconds |-> 0, intro |-> 0, caption |-> FALSE]
  BY <1>1 DEF Produced!project0
<1>4. <<>> \in Seq(Scene) /\ <<>> \in Seq(Nat)
  OBVIOUS
<1> QED  BY <1>2, <1>3, <1>4 DEF VideoRow, VideoSteps, VideoStates

LEMMA StartRenderPlays == ASSUME PlayKept, Produced!StartRender PROVE PlayKept'
<1>1. PICK s \in Scripts, c \in Configs :
         LET p == [Produced!project0 EXCEPT !.saga = video.saga + 1, !.script = s, !.config = c,
                                            !.step = "validate", !.state = "in_progress"]
         IN  /\ video' = p
             /\ orders' = orders \cup {[saga |-> p.saga, step |-> "validate", payload |-> s]}
  BY DEF Produced!StartRender
<1>2. PICK p : p = [Produced!project0 EXCEPT !.saga = video.saga + 1, !.script = s, !.config = c,
                                            !.step = "validate", !.state = "in_progress"]
  OBVIOUS
<1>3. s \in Script
  BY ProducedAssumption DEF Produced!ScriptsAssumption, Script, Line
<1>4. video.saga \in Nat
  BY VideoIsReady DEF VideoRow
<1>5. PICK g : g = video.saga + 1
  OBVIOUS
<1>6. g \in Nat
  BY <1>4, <1>5
<1>7. /\ p \in VideoRow /\ p.saga = g /\ p.step = "validate"
      /\ p.scenes = <<>> /\ p.offsets = <<>>
  <2>1. "validate" \in VideoSteps /\ "in_progress" \in VideoStates
    BY DEF VideoSteps, VideoStates
  <2> QED  BY <1>2, <1>3, <1>5, <1>6, <2>1, FirstRow DEF VideoRow
<1>8. PICK o : o = [saga |-> g, step |-> "validate", payload |-> s]
  OBVIOUS
<1>9. video' = p /\ orders' = orders \cup {o}
  BY <1>1, <1>2, <1>7, <1>8
<1>10. RowKept(p)
  BY <1>7 DEF RowKept, Silent, Rising
<1>11. Follows(p)
  BY <1>5, <1>7 DEF Follows
<1>12. CommandOf(o, p)
  <2>1. o.saga = g /\ o.step = "validate" /\ o.payload.lines \in Seq(Line)
    BY <1>3, <1>8 DEF Script
  <2> QED  BY <1>6, <1>7, <2>1 DEF CommandOf
<1>13. \E x : Carries(x)
  BY <1>9, <1>10, <1>11, <1>12 DEF Carries
<1>14. UNCHANGED <<audio, rendered, final>> /\ reports' \subseteq reports
  BY DEF Produced!StartRender
<1>15. FinalKept'
  BY <1>14 DEF FinalKept, PlayKept, Plays
<1> QED  BY <1>13, <1>14, <1>15, OrchestratorRunsOn

\* What the Creator does in the review, and a retry.
LEMMA ReviewCarries ==
    ASSUME PlayKept,
           Produced!Approve \/ Produced!EditNarration \/ Produced!Reject \/ Produced!Retry
    PROVE  \E p : Carries(p)
<1>1. /\ RowReady(video) /\ KeepsWords(video, video.step)
      /\ video.step \in VideoSteps /\ video \in VideoRow
  BY VideoIsReady
<1>2. CASE Produced!Approve
  <2>1. video.step \notin Spoken /\ Produced!ResumeAfterReview(video)
    BY <1>2 DEF Produced!Approve, Produced!AwaitingReview, Spoken
  <2> QED  BY <1>1, <2>1, ResumeCarries
<1>3. CASE Produced!EditNarration
  <2>1. video.step = "validate"
    BY <1>3 DEF Produced!EditNarration, Produced!AwaitingReview
  <2>2. PICK i \in DOMAIN video.script.lines, t \in Rewordings :
           Produced!Move([video EXCEPT !.script.lines[i] = t], "validate",
                         Produced!validatePayload([video EXCEPT !.script.lines[i] = t]))
    BY <1>3 DEF Produced!EditNarration
  <2>3. PICK lines : lines = [video.script.lines EXCEPT ![i] = t]
    OBVIOUS
  <2>4. lines \in Seq(Line)
    BY <1>1, <2>3, GapsAreNat DEF VideoRow, Script
  <2>5. PICK s : s = [video.script EXCEPT !.lines = lines]
    OBVIOUS
  <2>6. s \in Script /\ s.lines = lines
    BY <1>1, <2>4, <2>5 DEF VideoRow, Script
  <2>7. PICK q : q = [video EXCEPT !.script = s]
    OBVIOUS
  <2>8. q = [video EXCEPT !.script.lines[i] = t]
    BY <2>3, <2>5, <2>7
  <2>9. /\ q \in VideoRow /\ q.saga = video.saga /\ q.scenes = video.scenes
        /\ q.offsets = video.offsets /\ q.script = s
    BY <1>1, <2>6, <2>7 DEF VideoRow
  <2>10. RowReady(q)
    BY <1>1, <2>9 DEF RowReady
  <2>11. KeepsWords(q, "validate") /\ "validate" \in VideoSteps
    BY <2>1 DEF KeepsWords, Spoken, VideoSteps
  <2>12. PayloadFits(q, "validate", Produced!validatePayload(q))
    BY <2>4, <2>6, <2>9 DEF PayloadFits, Produced!validatePayload
  <2>13. Produced!Move(q, "validate", Produced!validatePayload(q))
    BY <2>2, <2>8
  <2> QED  BY <2>10, <2>11, <2>12, <2>13, MoveCarries
<1>4. CASE Produced!Reject
  <2>1. video' = [video EXCEPT !.state = "resting"] /\ UNCHANGED orders /\ video.step = "validate"
    BY <1>4 DEF Produced!Reject, Produced!AwaitingReview
  <2>2. [video EXCEPT !.state = "resting"] = [video EXCEPT !.step = "validate", !.state = "resting"]
    BY <1>1, <2>1 DEF VideoRow
  <2>3. "resting" \in VideoStates
    BY DEF VideoStates
  <2> QED  BY <1>1, <2>1, <2>2, <2>3, StopCarries
<1>5. CASE Produced!Retry
  <2>1. PICK payload : payload = Produced!rebuildPayload(video)
    OBVIOUS
  <2>2. Produced!Move(video, video.step, payload)
    BY <1>5, <2>1 DEF Produced!Retry
  <2>3. PayloadFits(video, video.step, payload)
    BY <2>1, RebuiltFits
  <2> QED  BY <1>1, <2>2, <2>3, MoveCarries
<1> QED  BY <1>2, <1>3, <1>4, <1>5

LEMMA ReviewPlays ==
    ASSUME PlayKept,
           Produced!Approve \/ Produced!EditNarration \/ Produced!Reject \/ Produced!Retry
    PROVE  PlayKept'
<1>1. UNCHANGED <<audio, rendered, final, reports>>
  BY DEF Produced!Approve, Produced!EditNarration, Produced!Reject, Produced!Retry
<1>2. FinalKept'
  BY <1>1 DEF FinalKept, PlayKept, Plays
<1> QED  BY <1>1, <1>2, ReviewCarries, OrchestratorRunsOn

LEMMA CancelPlays == ASSUME PlayKept, Produced!Cancel PROVE PlayKept'
<1>1. video' = Produced!Failed(video, video.step) /\ orders' = {}
  BY DEF Produced!Cancel
<1>2. "failed" \in VideoStates
  BY DEF VideoStates
<1>3. \E p : Carries(p)
  BY <1>1, <1>2, VideoIsReady, StopCarries DEF Produced!Failed
<1>4. UNCHANGED <<audio, rendered, reports>>
  BY DEF Produced!Cancel
<1>5. FinalKept'
  <2>1. CASE UNCHANGED final
    BY <2>1 DEF FinalKept, PlayKept, Plays
  <2>2. CASE final' = [state |-> "part"]
    BY <2>2 DEF FinalKept
  <2> QED  BY <2>1, <2>2 DEF Produced!Cancel
<1> QED  BY <1>3, <1>4, <1>5, OrchestratorRunsOn

\* The lines the dry run found are the video's from here on.
LEMMA ValidatedCarries ==
    ASSUME PlayKept, NEW e \in reports, e.step = "validate", e.ok, Produced!Current(e),
           Produced!onScriptValidated(e)
    PROVE  \E p : Carries(p)
<1>1. video.step = "validate" /\ video.step \notin Spoken /\ video.step # "assemble"
  BY DEF Produced!Current, Spoken
<1>2. PICK lines : lines = e.result.lines
  OBVIOUS
<1>3. lines \in Seq(Line)
  BY <1>2 DEF PlayKept, EventOf
<1>4. PICK scenes : scenes = [i \in DOMAIN lines |->
                                [text |-> lines[i], path |-> <<>>, seconds |-> 0]]
  OBVIOUS
<1>5. scenes \in Seq(Scene) /\ Silent(scenes)
  <2>1. PICK n : n = Len(lines)
    OBVIOUS
  <2>2. n \in Nat /\ DOMAIN lines = 1 .. n /\ \A i \in 1 .. n : lines[i] \in Line
    BY <1>3, <2>1
  <2>3. <<>> \in Seq(Nat)
    OBVIOUS
  <2>4. \A i \in 1 .. n : scenes[i] \in Scene /\ scenes[i].path = <<>>
    BY <1>4, <2>2, <2>3 DEF Scene
  <2>5. scenes \in [1 .. n -> Scene]
    BY <1>4, <2>2, <2>4
  <2> QED  BY <2>2, <2>4, <2>5 DEF Silent
<1>6. PICK q : q = [video EXCEPT !.scenes = scenes]
  OBVIOUS
<1>7. q = [video EXCEPT !.scenes = Produced!parseInitialScenes(e)]
  BY <1>2, <1>4, <1>6 DEF Produced!parseInitialScenes
<1>8. /\ q \in VideoRow /\ q.saga = video.saga /\ q.scenes = scenes /\ q.step = video.step
      /\ q.offsets = video.offsets
  BY <1>5, <1>6, VideoIsReady DEF VideoRow
<1>9. RowReady(q)
  BY <1>5, <1>8, VideoIsReady DEF RowReady
<1>10. CASE video' = Produced!Failed(q, "validate") /\ UNCHANGED orders
  <2>1. "failed" \in VideoStates /\ "validate" \in VideoSteps /\ KeepsWords(q, "validate")
    BY <1>1 DEF VideoStates, VideoSteps, KeepsWords
  <2> QED  BY <1>9, <1>10, <2>1, StopCarries DEF Produced!Failed
<1>11. CASE q.config.review /\ video' = [q EXCEPT !.state = "review"] /\ UNCHANGED orders
  <2>1. [q EXCEPT !.state = "review"] = [q EXCEPT !.step = "validate", !.state = "review"]
    BY <1>1, <1>8 DEF VideoRow
  <2>2. "review" \in VideoStates /\ "validate" \in VideoSteps /\ KeepsWords(q, "validate")
    BY <1>1 DEF VideoStates, VideoSteps, KeepsWords
  <2> QED  BY <1>9, <1>11, <2>1, <2>2, StopCarries
<1>12. CASE ~q.config.review /\ Produced!ResumeAfterReview(q)
  BY <1>1, <1>9, <1>12, ResumeCarries
<1>13. \/ video' = Produced!Failed(q, "validate") /\ UNCHANGED orders
       \/ q.config.review /\ video' = [q EXCEPT !.state = "review"] /\ UNCHANGED orders
       \/ ~q.config.review /\ Produced!ResumeAfterReview(q)
  BY <1>7 DEF Produced!onScriptValidated
<1> QED  BY <1>10, <1>11, <1>12, <1>13

\* Every scene gets the audio of its own words.
LEMMA SynthesizedCarries ==
    ASSUME PlayKept, NEW e \in reports, e.step = "synthesize", e.ok, Produced!Current(e),
           Produced!onSpeechSynthesized(e)
    PROVE  \E p : Carries(p)
<1>1. e.saga = video.saga
  BY DEF Produced!Current
<1>2. PICK r : r = e.result.scenes
  OBVIOUS
<1>3. video.step \in Spoken /\ SaysWords(r, video) /\ Readings(r)
  BY <1>1, <1>2 DEF PlayKept, EventOf
<1>4. CASE Produced!validateSceneIndexSets(e)
  <2>1. PICK scenes : scenes = [i \in DOMAIN video.scenes |->
                          [video.scenes[i] EXCEPT !.path = r[i].path, !.seconds = r[i].seconds]]
    OBVIOUS
  <2>2. PICK q : q = [video EXCEPT !.scenes = scenes]
    OBVIOUS
  <2>3. q = [video EXCEPT !.scenes = Produced!parseSynthesizedScenes(e, video.scenes)]
    BY <1>2, <2>1, <2>2 DEF Produced!parseSynthesizedScenes
  <2>4. Produced!startRenderScenes(q)
    BY <1>4, <2>3 DEF Produced!onSpeechSynthesized
  <2>5. PICK n : n = Len(video.scenes)
    OBVIOUS
  <2>6. /\ n \in Nat /\ DOMAIN video.scenes = 1 .. n /\ DOMAIN r = 1 .. n
        /\ \A i \in 1 .. n : video.scenes[i] \in Scene
    BY <1>3, <2>5, VideoIsReady DEF VideoRow, SaysWords
  <2>7. ASSUME NEW i \in 1 .. n
        PROVE  /\ scenes[i] \in Scene /\ scenes[i].text = video.scenes[i].text
               /\ scenes[i].path = <<i, scenes[i].text>> /\ scenes[i].path \in DOMAIN audio
    <3>1. scenes[i] = [video.scenes[i] EXCEPT !.path = r[i].path, !.seconds = r[i].seconds]
      BY <2>1, <2>6
    <3>2. video.scenes[i] \in [text : Line, path : Seq(Nat), seconds : Nat]
      BY <2>6 DEF Scene
    <3>3. /\ r[i].path \in Seq(Nat) /\ r[i].seconds \in Nat
          /\ r[i].path = <<i, r[i].seconds>> /\ r[i].path \in DOMAIN audio
          /\ r[i].seconds = video.scenes[i].text
      <4>1. r \in Seq(Reading)
        BY <1>3 DEF Readings
      <4>2. i \in DOMAIN r
        BY <2>6
      <4>3. r[i] \in Reading
        BY <4>1, <4>2
      <4> QED  BY <1>3, <4>2, <4>3 DEF Reading, Readings, SaysWords
    <3>4. PICK x, y : x = r[i].path /\ y = r[i].seconds
      OBVIOUS
    <3>5. scenes[i] = [video.scenes[i] EXCEPT !.path = x, !.seconds = y]
      BY <3>1, <3>4
    <3>6. x \in Seq(Nat) /\ y \in Nat
      BY <3>3, <3>4
    <3>7. /\ scenes[i] \in Scene /\ scenes[i].text = video.scenes[i].text
          /\ scenes[i].path = x
      BY <3>2, <3>5, <3>6 DEF Scene
    <3> QED  BY <3>3, <3>4, <3>7
  <2>8. scenes \in Seq(Scene)
    <3>1. scenes \in [1 .. n -> Scene]
      BY <2>1, <2>6, <2>7
    <3> QED  BY <2>6, <3>1
  <2>9. Voiced(scenes) /\ SameWords(video.scenes, scenes)
    BY <2>1, <2>6, <2>7 DEF Voiced, SameWords
  <2>10. /\ q \in VideoRow /\ q.saga = video.saga /\ q.scenes = scenes
         /\ q.offsets = video.offsets
    BY <2>2, <2>8, VideoIsReady DEF VideoRow
  <2>11. RowReady(q)
    BY <2>9, <2>10, VideoIsReady DEF RowReady
  <2>12. KeepsWords(q, "render")
    BY <2>9, <2>10 DEF KeepsWords, Spoken
  <2> QED  BY <2>4, <2>11, <2>12, RenderCarries
<1>5. CASE ~Produced!validateSceneIndexSets(e)
  <2>1. video' = Produced!Failed(video, "render") /\ UNCHANGED orders
    BY <1>5 DEF Produced!onSpeechSynthesized
  <2>2. "failed" \in VideoStates /\ "render" \in VideoSteps /\ KeepsWords(video, "render")
    BY DEF VideoStates, VideoSteps, KeepsWords, SameWords, Spoken
  <2> QED  BY <2>1, <2>2, VideoIsReady, StopCarries DEF Produced!Failed
<1> QED  BY <1>4, <1>5

\* The moments of a render are taken when there are as many as lines.
LEMMA RenderedCarries ==
    ASSUME PlayKept, pointer.id \in Nat, NEW e \in reports, e.step = "render", e.ok,
           Produced!Current(e), Produced!onRenderingCompleted(e)
    PROVE  \E p : Carries(p)
<1>1. video.step = "render"
  BY DEF Produced!Current
<1>2. Timed(e.result)
  BY DEF PlayKept, EventOf
<1>3. CASE Len(e.result.offsets) = Len(video.scenes)
  <2>1. PICK o, t : o = e.result.offsets /\ t = e.result.seconds
    OBVIOUS
  <2>2. o \in Seq(Nat) /\ Rising(o) /\ t \in Nat /\ Len(o) = Len(video.scenes)
    BY <1>2, <1>3, <2>1 DEF Timed
  <2>3. PICK r : r = [video EXCEPT !.offsets = o, !.seconds = t]
    OBVIOUS
  <2>4. /\ r \in VideoRow /\ r.saga = video.saga /\ r.scenes = video.scenes
        /\ r.offsets = o
    BY <2>2, <2>3, VideoIsReady DEF VideoRow
  <2>5. PICK q \in Produced!resolveChannelAssets(r) :
           Produced!Move(q, "assemble", Produced!assembleVideoPayload(q))
    BY <1>3, <2>1, <2>3 DEF Produced!onRenderingCompleted
  <2>6. q = r \/ q = [r EXCEPT !.intro = pointer.id]
    BY <2>5 DEF Produced!resolveChannelAssets
  <2>7. /\ q \in VideoRow /\ q.saga = video.saga /\ q.scenes = video.scenes
        /\ q.offsets = o
    <3>1. CASE q = r
      BY <2>4, <3>1
    <3>2. CASE q = [r EXCEPT !.intro = pointer.id]
      BY <2>4, <3>2 DEF VideoRow
    <3> QED  BY <2>6, <3>1, <3>2
  <2>8. RowReady(q) /\ Len(q.offsets) = Len(q.scenes)
    BY <2>2, <2>7, VideoIsReady DEF RowReady
  <2>9. Playable(Produced!assembleVideoPayload(q))
    BY <2>7, <2>8, PayloadPlayable DEF RowReady
  <2>10. PayloadFits(q, "assemble", Produced!assembleVideoPayload(q))
    BY <2>8, <2>9 DEF PayloadFits
  <2>11. KeepsWords(q, "assemble") /\ "assemble" \in VideoSteps
    BY <2>7 DEF KeepsWords, SameWords, Spoken, VideoSteps
  <2> QED  BY <2>5, <2>8, <2>10, <2>11, MoveCarries
<1>4. CASE Len(e.result.offsets) # Len(video.scenes)
  <2>1. video' = Produced!Failed(video, "render") /\ UNCHANGED orders
    BY <1>4 DEF Produced!onRenderingCompleted
  <2>2. "failed" \in VideoStates /\ "render" \in VideoSteps /\ KeepsWords(video, "render")
    BY DEF VideoStates, VideoSteps, KeepsWords, SameWords, Spoken
  <2> QED  BY <2>1, <2>2, VideoIsReady, StopCarries DEF Produced!Failed
<1> QED  BY <1>3, <1>4

\* The video is there: the saga rests.
LEMMA AssembledCarries ==
    ASSUME PlayKept, NEW e \in reports, e.step = "assemble", Produced!Current(e),
           Produced!onVideoAssembled(e)
    PROVE  \E p : Carries(p)
<1>1. PICK h : h = (video.caption \/ e.result.caption)
  OBVIOUS
<1>2. h \in BOOLEAN
  BY <1>1
<1>3. video' = [video EXCEPT !.state = "resting", !.caption = h] /\ UNCHANGED orders
  BY <1>1 DEF Produced!onVideoAssembled
<1>4. PICK q : q = [video EXCEPT !.caption = h]
  OBVIOUS
<1>5. /\ q \in VideoRow /\ q.saga = video.saga /\ q.scenes = video.scenes
      /\ q.offsets = video.offsets /\ q.step = video.step
  BY <1>2, <1>4, VideoIsReady DEF VideoRow
<1>6. RowReady(q) /\ KeepsWords(q, q.step) /\ q.step \in VideoSteps
  BY <1>5, VideoIsReady DEF RowReady, KeepsWords
<1>7. q.step = "assemble" => Len(q.offsets) = Len(q.scenes)
  BY <1>5, VideoIsReady
<1>8. video' = [q EXCEPT !.step = q.step, !.state = "resting"]
  BY <1>3, <1>4, <1>5, VideoIsReady DEF VideoRow
<1>9. "resting" \in VideoStates
  BY DEF VideoStates
<1> QED  BY <1>3, <1>6, <1>7, <1>8, <1>9, StopCarries

LEMMA EventPlays ==
    ASSUME PlayKept, pointer.id \in Nat, Produced!HandleEvent PROVE PlayKept'
<1>1. PICK e \in reports :
         /\ e.step # "asset" /\ reports' = reports \ {e}
         /\ IF ~Produced!Current(e) THEN UNCHANGED <<video, orders>>
            ELSE IF e.ok THEN Produced!handleSuccess(e)
            ELSE video' = Produced!Failed(video, e.step) /\ UNCHANGED orders
  BY DEF Produced!HandleEvent
<1>2. UNCHANGED <<audio, rendered, final>>
  BY DEF Produced!HandleEvent
<1>3. FinalKept'
  BY <1>2 DEF FinalKept, PlayKept, Plays
<1>4. CASE ~Produced!Current(e)
  <2>1. UNCHANGED <<video, orders>>
    BY <1>1, <1>4
  <2>2. AudioGrows /\ AudioKept' /\ RenderedKept'
    BY <1>2 DEF AudioGrows, AudioKept, RenderedKept, Timed, PlayKept
  <2>3. \A x \in reports' : x \in reports
    BY <1>1
  <2> QED  BY <1>3, <2>1, <2>2, <2>3, WorkersRunOn
<1>5. CASE Produced!Current(e)
  <2>1. e.step = video.step
    BY <1>5 DEF Produced!Current
  <2>2. CASE ~e.ok
    <3>1. video' = Produced!Failed(video, video.step) /\ UNCHANGED orders
      BY <1>1, <1>5, <2>1, <2>2
    <3>2. "failed" \in VideoStates
      BY DEF VideoStates
    <3>3. \E p : Carries(p)
      BY <3>1, <3>2, VideoIsReady, StopCarries DEF Produced!Failed
    <3> QED  BY <1>1, <1>2, <1>3, <3>3, OrchestratorRunsOn
  <2>3. CASE e.ok
    <3>1. Produced!handleSuccess(e)
      BY <1>1, <1>5, <2>3
    <3>2. CASE e.step = "validate"
      <4>1. Produced!onScriptValidated(e)
        BY <3>1, <3>2 DEF Produced!handleSuccess
      <4> QED  BY <1>1, <1>2, <1>3, <1>5, <2>3, <3>2, <4>1, ValidatedCarries, OrchestratorRunsOn
    <3>3. CASE e.step = "synthesize"
      <4>1. Produced!onSpeechSynthesized(e)
        BY <3>1, <3>3 DEF Produced!handleSuccess
      <4> QED  BY <1>1, <1>2, <1>3, <1>5, <2>3, <3>3, <4>1, SynthesizedCarries, OrchestratorRunsOn
    <3>4. CASE e.step = "render"
      <4>1. Produced!onRenderingCompleted(e)
        BY <3>1, <3>4 DEF Produced!handleSuccess
      <4> QED  BY <1>1, <1>2, <1>3, <1>5, <2>3, <3>4, <4>1, RenderedCarries, OrchestratorRunsOn
    <3>5. CASE e.step = "assemble"
      <4>1. Produced!onVideoAssembled(e)
        BY <3>1, <3>5 DEF Produced!handleSuccess
      <4> QED  BY <1>1, <1>2, <1>3, <1>5, <3>5, <4>1, AssembledCarries, OrchestratorRunsOn
    <3>6. e.step \in Spoken \cup {"validate"}
      BY <1>1 DEF PlayKept, EventOf
    <3> QED  BY <3>2, <3>3, <3>4, <3>5, <3>6 DEF Spoken
  <2> QED  BY <2>2, <2>3
<1> QED  BY <1>4, <1>5

-----------------------------------------------------------------------------
(* What the workers do with the lines.                                     *)

IsAnswer(e, c, h, result) ==
    e.saga = c.saga /\ e.step = c.step /\ e.ok = h /\ e.result = result

\* Fields of an answer, and what is left when it is given.
LEMMA AnsweredIs ==
    ASSUME NEW c, NEW h, NEW result,
           Produced!Answered(c, Produced!answer(c, h, result))
    PROVE  /\ \E e : IsAnswer(e, c, h, result) /\ reports' = reports \cup {e}
           /\ UNCHANGED video /\ orders' \subseteq orders
<1>1. PICK e : e = Produced!answer(c, h, result)
  OBVIOUS
<1>2. IsAnswer(e, c, h, result)
  BY <1>1 DEF Produced!answer, IsAnswer
<1> QED  BY <1>1, <1>2 DEF Produced!Answered

\* A failure says nothing of the lines.
LEMMA FailsPlays ==
    ASSUME PlayKept, NEW c \in orders, c.step \in Spoken \cup {"validate"}, Produced!Fails(c),
           AudioGrows, AudioKept', RenderedKept', FinalKept'
    PROVE  PlayKept'
<1>1. Produced!Answered(c, Produced!answer(c, FALSE, Produced!None))
  BY DEF Produced!Fails
<1>2. PICK e : IsAnswer(e, c, FALSE, Produced!None) /\ reports' = reports \cup {e}
  BY <1>1, AnsweredIs
<1>3. UNCHANGED video /\ orders' \subseteq orders
  BY <1>1, AnsweredIs
<1>4. CommandOf(c, video)
  BY DEF PlayKept
<1>5. EventOf(e, video)'
  BY <1>2, <1>3, <1>4 DEF EventOf, CommandOf, IsAnswer
<1> QED  BY <1>2, <1>3, <1>5, WorkersRunOn

\* A worker that dies answers nothing.
LEMMA DiesPlays ==
    ASSUME PlayKept, Produced!Dies, AudioGrows, AudioKept', RenderedKept', FinalKept'
    PROVE  PlayKept'
<1>1. UNCHANGED <<video, orders, reports>>
  BY DEF Produced!Dies
<1>2. orders' \subseteq orders /\ \A e \in reports' : e \in reports
  BY <1>1
<1> QED  BY <1>1, <1>2, WorkersRunOn

\* An answer that fits the row.
LEMMA AnswerPlays ==
    ASSUME PlayKept, NEW c, NEW result,
           Produced!Answered(c, Produced!answer(c, TRUE, result)),
           \A e : IsAnswer(e, c, TRUE, result) => EventOf(e, video)',
           AudioGrows, AudioKept', RenderedKept', FinalKept'
    PROVE  PlayKept'
<1>1. PICK e : IsAnswer(e, c, TRUE, result) /\ reports' = reports \cup {e}
  BY AnsweredIs
<1>2. UNCHANGED video /\ orders' \subseteq orders
  BY AnsweredIs
<1>3. EventOf(e, video)'
  BY <1>1
<1> QED  BY <1>1, <1>2, <1>3, WorkersRunOn

LEMMA Untouched ==
    ASSUME PlayKept
    PROVE  /\ UNCHANGED audio => AudioGrows /\ AudioKept'
           /\ UNCHANGED rendered => RenderedKept'
           /\ UNCHANGED final => FinalKept'
BY DEF PlayKept, AudioGrows, AudioKept, RenderedKept, Timed, FinalKept, Plays

LEMMA ValidatePlays ==
    ASSUME PlayKept, NEW c \in orders, Produced!ValidateScript(c) PROVE PlayKept'
<1>1. AudioGrows /\ AudioKept' /\ RenderedKept' /\ FinalKept' /\ c.step = "validate"
  BY Untouched DEF Produced!ValidateScript
<1>2. CASE Produced!Fails(c)
  BY <1>1, <1>2, FailsPlays
<1>3. CASE Produced!Answered(c, Produced!answer(c, TRUE, [lines |-> c.payload.lines]))
  <2>1. PICK result : result = [lines |-> c.payload.lines]
    OBVIOUS
  <2>2. UNCHANGED video
    BY <1>3, AnsweredIs
  <2>3. CommandOf(c, video) /\ result.lines = c.payload.lines
    BY <2>1 DEF PlayKept
  <2>4. ASSUME NEW e, IsAnswer(e, c, TRUE, result) PROVE EventOf(e, video)'
    <3>1. e.step = "validate" /\ e.saga = c.saga /\ e.result = result
      BY <1>1, <2>4 DEF IsAnswer
    <3> QED  BY <1>1, <2>2, <2>3, <3>1 DEF EventOf, CommandOf
  <2> QED  BY <1>1, <1>3, <2>1, <2>4, AnswerPlays
<1> QED  BY <1>2, <1>3 DEF Produced!ValidateScript

\* Lines are spoken one after another, all of them before the answer.
LEMMA SynthesizePlays ==
    ASSUME PlayKept, NEW c \in orders, Produced!SynthesizeSpeechBatch(c) PROVE PlayKept'
<1>1. c.step = "synthesize" /\ UNCHANGED <<rendered, final>>
  BY DEF Produced!SynthesizeSpeechBatch
<1>2. PICK scenes : scenes = c.payload
  OBVIOUS
<1>3. CommandOf(c, video) /\ scenes \in Seq(Scene)
  BY <1>1, <1>2 DEF PlayKept, CommandOf
<1>4. PICK n \in 0 .. Len(scenes) :
         /\ audio' = Produced!Spoken(scenes, n)
         /\ \/ Produced!Fails(c)
            \/ Produced!Dies
            \/ /\ n = Len(scenes)
               /\ Produced!Answered(c, Produced!answer(c, TRUE, [scenes |-> [i \in 1 .. n |->
                     LET path == Produced!compute_audio_path(i, scenes[i].text)
                     IN  [path |-> path, seconds |-> audio'[path]]]]))
  BY <1>2 DEF Produced!SynthesizeSpeechBatch
<1>5. /\ AudioKept' /\ AudioGrows
      /\ \A i \in 1 .. n : <<i, scenes[i].text>> \in DOMAIN audio'
  <2>1. AudioKept
    BY DEF PlayKept
  <2> QED  BY <1>3, <1>4, <2>1, SpokenIsKept
<1>6. RenderedKept' /\ FinalKept' /\ c.step \in Spoken \cup {"validate"}
  BY <1>1, Untouched DEF Spoken
<1>7. CASE Produced!Fails(c)
  BY <1>5, <1>6, <1>7, FailsPlays
<1>8. CASE Produced!Dies
  BY <1>5, <1>6, <1>8, DiesPlays
<1>9. CASE /\ n = Len(scenes)
           /\ Produced!Answered(c, Produced!answer(c, TRUE, [scenes |-> [i \in 1 .. n |->
                 LET path == Produced!compute_audio_path(i, scenes[i].text)
                 IN  [path |-> path, seconds |-> audio'[path]]]]))
  <2>1. PICK r : r = [i \in 1 .. n |->
                 LET path == Produced!compute_audio_path(i, scenes[i].text)
                 IN  [path |-> path, seconds |-> audio'[path]]]
    OBVIOUS
  <2>2. PICK result : result = [scenes |-> r]
    OBVIOUS
  <2>3. Produced!Answered(c, Produced!answer(c, TRUE, result))
    BY <1>9, <2>1, <2>2
  <2>4. UNCHANGED video
    BY <2>3, AnsweredIs
  <2>5. n \in Nat /\ DOMAIN scenes = 1 .. n /\ \A i \in 1 .. n : scenes[i] \in Scene
    BY <1>3, <1>9
  <2>6. ASSUME NEW i \in 1 .. n
        PROVE  /\ r[i] \in Reading /\ r[i].path = <<i, r[i].seconds>>
               /\ r[i].path \in DOMAIN audio' /\ r[i].seconds = scenes[i].text
    <3>1. PICK t : t = scenes[i].text
      OBVIOUS
    <3>2. t \in Nat /\ i \in Nat
      BY <2>5, <3>1 DEF Scene, Line
    <3>3. <<i, t>> \in DOMAIN audio' /\ audio'[<<i, t>>] = t
      <4>1. <<i, t>> \in DOMAIN audio'
        BY <1>5, <3>1
      <4>2. audio'[<<i, t>>] = <<i, t>>[2]
        BY <1>5, <4>1 DEF AudioKept
      <4> QED  BY <4>1, <4>2
    <3>4. r[i] = [path |-> <<i, t>>, seconds |-> audio'[<<i, t>>]]
      BY <2>1, <3>1 DEF Produced!compute_audio_path
    <3>5. r[i] = [path |-> <<i, t>>, seconds |-> t]
      BY <3>3, <3>4
    <3>6. <<i, t>> \in Seq(Nat)
      BY <3>2
    <3> QED  BY <3>1, <3>2, <3>3, <3>5, <3>6 DEF Reading
  <2>7. r \in Seq(Reading) /\ DOMAIN r = 1 .. n
    <3>1. r \in [1 .. n -> Reading]
      BY <2>1, <2>6
    <3> QED  BY <2>5, <3>1
  <2>8. Readings(r)'
    BY <2>6, <2>7 DEF Readings
  <2>9. c.saga = video.saga => video.step \in Spoken /\ SaysWords(r, video)
    <3>1. SUFFICES ASSUME c.saga = video.saga PROVE video.step \in Spoken /\ SaysWords(r, video)
      OBVIOUS
    <3>2. video.step \in Spoken /\ SameWords(scenes, video.scenes)
      BY <1>1, <1>2, <1>3, <3>1 DEF CommandOf
    <3> QED  BY <2>5, <2>6, <2>7, <3>2 DEF SameWords, SaysWords
  <2>10. ASSUME NEW e, IsAnswer(e, c, TRUE, result) PROVE EventOf(e, video)'
    <3>1. e.step = "synthesize" /\ e.saga = c.saga /\ e.result.scenes = r
      BY <1>1, <2>2, <2>10 DEF IsAnswer
    <3>2. c.saga \in Nat /\ c.saga <= video.saga
      BY <1>3 DEF CommandOf
    <3>3. c.saga = video'.saga => video'.step \in Spoken /\ SaysWords(r, video)'
      BY <2>4, <2>9 DEF SaysWords
    <3>4. e.step \in Spoken \cup {"validate"}
      BY <3>1 DEF Spoken
    <3> QED  BY <2>4, <2>8, <3>1, <3>2, <3>3, <3>4 DEF EventOf
  <2> QED  BY <1>5, <1>6, <2>3, <2>10, AnswerPlays
<1> QED  BY <1>4, <1>7, <1>8, <1>9

\* A render gives every line its moment, its own or that of an earlier render.
LEMMA RenderPlays ==
    ASSUME PlayKept, NEW c \in orders, Produced!RenderScript(c) PROVE PlayKept'
<1>1. c.step = "render" /\ UNCHANGED <<audio, final>>
  BY DEF Produced!RenderScript
<1>2. PICK p : p = c.payload
  OBVIOUS
<1>3. CommandOf(c, video) /\ p.seconds \in Seq(Nat)
  BY <1>1, <1>2 DEF PlayKept, CommandOf
<1>4. AudioGrows /\ AudioKept' /\ FinalKept' /\ c.step \in Spoken \cup {"validate"}
  BY <1>1, Untouched DEF Spoken
<1>5. PICK o : o = Produced!segmentsFrom(p.seconds, p.shots)
  OBVIOUS
<1>6. PICK fresh : fresh = [timed |-> TRUE, offsets |-> o,
                            seconds |-> o[Len(o)] + Produced!longer(1, p.seconds[Len(o)])]
  OBVIOUS
<1> DEFINE Told(r) == Produced!Answered(c, Produced!answer(c, TRUE,
                         [offsets |-> r.offsets, seconds |-> r.seconds]))
<1>7. ASSUME NEW r, Timed(r), Told(r), RenderedKept' PROVE PlayKept'
  <2>1. PICK result : result = [offsets |-> r.offsets, seconds |-> r.seconds]
    OBVIOUS
  <2>2. Produced!Answered(c, Produced!answer(c, TRUE, result))
    BY <1>7, <2>1
  <2>3. UNCHANGED video
    BY <2>2, AnsweredIs
  <2>4. Timed(result)
    BY <1>7, <2>1 DEF Timed
  <2>5. ASSUME NEW e, IsAnswer(e, c, TRUE, result) PROVE EventOf(e, video)'
    <3>1. e.step = "render" /\ e.saga = c.saga /\ e.result = result
      BY <1>1, <2>5 DEF IsAnswer
    <3>2. e.step \in Spoken \cup {"validate"}
      BY <3>1 DEF Spoken
    <3>3. c.saga \in Nat /\ c.saga <= video'.saga
      BY <1>3, <2>3 DEF CommandOf
    <3> QED  BY <2>4, <3>1, <3>2, <3>3 DEF EventOf
  <2> QED  BY <1>4, <1>7, <2>2, <2>5, AnswerPlays
<1>8. \/ Produced!Fails(c) /\ UNCHANGED rendered
      \/ rendered # Produced!None /\ Told(rendered) /\ UNCHANGED rendered
      \/ p.seconds # <<>> /\ Told(fresh) /\ rendered' = fresh
      \/ /\ p.seconds # <<>> /\ Produced!Dies
         /\ rendered' \in {fresh, [fresh EXCEPT !.timed = FALSE]}
  BY <1>2, <1>5, <1>6 DEF Produced!RenderScript, Produced!_validate
<1>9. ASSUME p.seconds # <<>>
      PROVE  Timed(fresh) /\ Timed([fresh EXCEPT !.timed = FALSE])
  <2>1. o \in Seq(Nat) /\ Len(o) = Len(p.seconds) /\ Rising(o)
    BY <1>3, <1>5, SegmentsRise
  <2>2. PICK n : n = Len(o)
    OBVIOUS
  <2>3. n \in DOMAIN o /\ n \in DOMAIN p.seconds
    BY <1>3, <1>9, <2>1, <2>2
  <2>4. o[n] \in Nat /\ p.seconds[n] \in Nat
    <3>1. o[n] \in Nat
      BY <2>1, <2>3
    <3>2. p.seconds[n] \in Nat
      BY <1>3, <2>3
    <3> QED  BY <3>1, <3>2
  <2>5. PICK t : t = o[n] + Produced!longer(1, p.seconds[n])
    OBVIOUS
  <2>6. t \in Nat
    BY <2>4, <2>5 DEF Produced!longer
  <2>7. fresh = [timed |-> TRUE, offsets |-> o, seconds |-> t]
    BY <1>6, <2>2, <2>5
  <2>8. PICK other : other = [fresh EXCEPT !.timed = FALSE]
    OBVIOUS
  <2>9. fresh.offsets = o /\ fresh.seconds = t /\ other.offsets = o /\ other.seconds = t
    BY <2>7, <2>8
  <2> QED  BY <2>1, <2>6, <2>8, <2>9 DEF Timed
<1>10. CASE Produced!Fails(c) /\ UNCHANGED rendered
  BY <1>4, <1>10, FailsPlays, Untouched
<1>11. CASE rendered # Produced!None /\ Told(rendered) /\ UNCHANGED rendered
  <2>1. Timed(rendered)
    BY <1>11 DEF PlayKept, RenderedKept
  <2>2. RenderedKept'
    BY <1>11, Untouched
  <2> HIDE DEF Told
  <2> QED  BY <1>7, <1>11, <2>1, <2>2
<1>12. CASE p.seconds # <<>> /\ Told(fresh) /\ rendered' = fresh
  <2>1. Timed(fresh)
    BY <1>9, <1>12
  <2>2. RenderedKept'
    BY <1>12, <2>1 DEF RenderedKept, Timed
  <2> HIDE DEF Told
  <2> QED  BY <1>7, <1>12, <2>1, <2>2
<1>13. CASE /\ p.seconds # <<>> /\ Produced!Dies
            /\ rendered' \in {fresh, [fresh EXCEPT !.timed = FALSE]}
  <2>1. RenderedKept'
    BY <1>9, <1>13 DEF RenderedKept, Timed
  <2> QED  BY <1>4, <1>13, <2>1, DiesPlays
<1> HIDE DEF Told
<1> QED  BY <1>8, <1>10, <1>11, <1>12, <1>13

\* A video is cut, found as it lies, or left in part.
LEMMA AssemblePlays ==
    ASSUME PlayKept, LengthsKept, NEW c \in orders, Produced!AssembleVideo(c) PROVE PlayKept'
<1>1. c.step = "assemble" /\ UNCHANGED <<audio, rendered>>
  BY DEF Produced!AssembleVideo
<1>2. CommandOf(c, video) /\ Playable(c.payload)
  BY <1>1 DEF PlayKept, CommandOf
<1>3. AudioGrows /\ AudioKept' /\ RenderedKept' /\ c.step \in Spoken \cup {"validate"}
  BY <1>1, Untouched DEF Spoken
<1>4. ASSUME NEW result, FinalKept',
             Produced!Answered(c, Produced!answer(c, TRUE, result))
      PROVE  PlayKept'
  <2>1. UNCHANGED video
    BY <1>4, AnsweredIs
  <2>2. ASSUME NEW e, IsAnswer(e, c, TRUE, result) PROVE EventOf(e, video)'
    <3>1. e.step = "assemble" /\ e.saga = c.saga
      BY <1>1, <2>2 DEF IsAnswer
    <3>2. e.step \in Spoken \cup {"validate"}
      BY <3>1 DEF Spoken
    <3>3. c.saga \in Nat /\ c.saga <= video'.saga
      BY <1>2, <2>1 DEF CommandOf
    <3> QED  BY <3>1, <3>2, <3>3 DEF EventOf
  <2> QED  BY <1>3, <1>4, <2>2, AnswerPlays
<1>5. CASE final # Produced!None
  <2>1. Produced!Answered(c, Produced!answer(c, TRUE, [caption |-> FALSE])) /\ UNCHANGED final
    BY <1>5 DEF Produced!AssembleVideo
  <2> QED  BY <1>4, <2>1, Untouched
<1>6. CASE final = Produced!None
  <2>1. PICK intro \in Produced!resolve_channel_asset(c.payload.intro) :
           LET cut == Produced!Cut(c.payload, intro) IN
           \/ /\ Produced!Answered(c, Produced!answer(c, TRUE, [caption |-> cut.track # <<>>]))
              /\ final' = cut
           \/ Produced!Fails(c) /\ final' \in {Produced!None, [state |-> "part"]}
           \/ Produced!Dies /\ final' \in {cut, [state |-> "part"]}
    BY <1>6 DEF Produced!AssembleVideo
  <2>2. intro \in Nat
    BY DEF Produced!resolve_channel_asset, LengthsKept
  <2>3. PICK cut : cut = Produced!Cut(c.payload, intro)
    OBVIOUS
  <2>4. Plays(cut)
    <3>1. AudioKept
      BY DEF PlayKept
    <3> QED  BY <1>2, <2>2, <2>3, <3>1, CutPlays
  <2>5. final' \in {cut, Produced!None, [state |-> "part"]} => FinalKept'
    <3>1. [state |-> "part"].state # "whole"
      OBVIOUS
    <3>2. final' = cut => FinalKept'
      BY <2>4 DEF FinalKept, Plays
    <3> QED  BY <3>1, <3>2 DEF FinalKept
  <2>6. PICK result : result = [caption |-> cut.track # <<>>]
    OBVIOUS
  <2>7. \/ Produced!Answered(c, Produced!answer(c, TRUE, result)) /\ final' = cut
        \/ Produced!Fails(c) /\ final' \in {Produced!None, [state |-> "part"]}
        \/ Produced!Dies /\ final' \in {cut, [state |-> "part"]}
    BY <2>1, <2>3, <2>6
  <2>8. FinalKept'
    BY <2>5, <2>7
  <2> QED  BY <1>3, <1>4, <2>7, <2>8, FailsPlays, DiesPlays
<1> QED  BY <1>5, <1>6

-----------------------------------------------------------------------------
(* How long the intros are.                                                *)

\* A version has the length of its clip, or that of the row music is laid over.
LEMMA ActiveHasLength ==
    ASSUME LengthsKept, NEW a \in Produced!get_active PROVE a.seconds \in Nat
<1>1. a \in assets \/ a = Produced!NoAsset
  BY DEF Produced!get_active, Produced!Active
<1>2. Produced!NoAsset.seconds = 0
  BY DEF Produced!NoAsset
<1> QED  BY <1>1, <1>2 DEF LengthsKept

LEMMA UploadHasLength == ASSUME NEW u \in Uploads PROVE u.seconds \in Nat
BY ProducedAssumption DEF Produced!UploadsAssumption

\* Superseded, a version is as long as it was.
LEMMA SupersededKeepsLength ==
    ASSUME NEW a, IsVersion(a), a.seconds \in Nat
    PROVE  [a EXCEPT !.superseded = TRUE].seconds \in Nat
<1>1. PICK clip, music, seconds, old :
          a = [id |-> a.id, version |-> a.version, clip |-> clip, music |-> music,
               seconds |-> seconds, superseded |-> old]
  BY DEF IsVersion
<1>2. [a EXCEPT !.superseded = TRUE].seconds = a.seconds
  BY <1>1
<1> QED  BY <1>2

LEMMA RegisterKeepsLengths ==
    ASSUME LengthsKept, VersionsKept, Produced!register_new_version PROVE LengthsKept'
<1>1. PICK j \in jobs :
         /\ assets' = {IF r.id = j.previous.id THEN [r EXCEPT !.superseded = TRUE] ELSE r :
                          r \in assets} \cup {Produced!NewVersion(j)}
         /\ jobs' = jobs \ {j} /\ uploads' = uploads \ {j.cmd} /\ UNCHANGED pointer
  BY DEF Produced!register_new_version, Produced!productionVars
<1>2. PICK a : a = Produced!NewVersion(j)
  OBVIOUS
<1>3. a.seconds \in Nat
  <2>1. a.seconds = IF j.cmd.upload.role = "video" THEN j.cmd.upload.seconds ELSE j.active.seconds
    BY <1>2 DEF Produced!NewVersion
  <2>2. j.cmd.upload.seconds \in Nat
    BY UploadHasLength DEF LengthsKept
  <2> QED  BY <2>1, <2>2 DEF LengthsKept
<1>4. ASSUME NEW b \in assets' PROVE b.seconds \in Nat
  <2>1. CASE b = a
    BY <1>3, <2>1
  <2>2. CASE b # a
    <3>1. PICK r \in assets : b = IF r.id = j.previous.id THEN [r EXCEPT !.superseded = TRUE] ELSE r
      BY <1>1, <1>2, <1>4, <2>2
    <3>2. IsVersion(r) /\ r.seconds \in Nat
      BY DEF VersionsKept, LengthsKept
    <3> QED  BY <3>1, <3>2, SupersededKeepsLength
  <2> QED  BY <2>1, <2>2
<1> QED  BY <1>1, <1>4 DEF LengthsKept

LEMMA LengthsStep ==
    ASSUME LengthsKept, VersionsKept, [Produced!Next]_(Produced!vars) PROVE LengthsKept'
<1>1. CASE UNCHANGED <<assets, pointer, uploads, jobs>>
  BY <1>1 DEF LengthsKept
<1>2. CASE \/ Produced!StartRender \/ Produced!Approve \/ Produced!EditNarration
           \/ Produced!Reject \/ Produced!Retry \/ Produced!Cancel \/ Produced!HandleEvent
  <2>1. UNCHANGED <<assets, pointer, uploads, jobs>>
    BY <1>2 DEF Produced!StartRender, Produced!Approve, Produced!EditNarration, Produced!Reject,
                Produced!Retry, Produced!Cancel, Produced!HandleEvent, Produced!assetVars
  <2> QED  BY <1>1, <2>1
<1>3. CASE Produced!Work
  <2>1. ASSUME Produced!Dies PROVE UNCHANGED <<assets, pointer, uploads, jobs>>
    BY <2>1 DEF Produced!Dies, Produced!assetVars
  <2>2. ASSUME NEW c, NEW e, Produced!Answered(c, e)
        PROVE  UNCHANGED <<assets, pointer, uploads, jobs>>
    BY <2>2 DEF Produced!Answered, Produced!assetVars
  <2>3. PICK c \in orders :
           \/ Produced!ValidateScript(c) \/ Produced!SynthesizeSpeechBatch(c)
           \/ Produced!RenderScript(c) \/ Produced!AssembleVideo(c)
    BY <1>3 DEF Produced!Work
  <2>4. Produced!Dies \/ \E e : Produced!Answered(c, e)
    <3>1. CASE Produced!ValidateScript(c)
      BY <3>1 DEF Produced!ValidateScript, Produced!Fails
    <3>2. CASE Produced!SynthesizeSpeechBatch(c)
      BY <3>2 DEF Produced!SynthesizeSpeechBatch, Produced!Fails
    <3>3. CASE Produced!RenderScript(c)
      BY <3>3 DEF Produced!RenderScript, Produced!Fails
    <3>4. CASE Produced!AssembleVideo(c)
      BY <3>4 DEF Produced!AssembleVideo, Produced!Fails
    <3> QED  BY <2>3, <3>1, <3>2, <3>3, <3>4
  <2> QED  BY <1>1, <2>1, <2>2, <2>4
<1>4. CASE Produced!Normalize
  <2>1. PICK u \in Uploads : uploads' = uploads \cup {[id |-> wishes, upload |-> u]}
    BY <1>4 DEF Produced!Normalize
  <2>2. UNCHANGED <<assets, pointer, jobs>>
    BY <1>4 DEF Produced!Normalize
  <2> QED  BY <2>1, <2>2 DEF LengthsKept
<1>5. CASE Produced!TakeUpload
  <2>1. UNCHANGED <<assets, pointer>> /\ uploads' \subseteq uploads
    BY <1>5 DEF Produced!TakeUpload
  <2>2. jobs' = jobs \/ \E c \in uploads, a \in Produced!get_active :
           jobs' = jobs \cup {[cmd |-> c, active |-> a, previous |-> Produced!None]}
    BY <1>5 DEF Produced!TakeUpload
  <2>3. CASE jobs' = jobs
    BY <2>1, <2>3 DEF LengthsKept
  <2>4. CASE jobs' # jobs
    <3>1. PICK c \in uploads, a \in Produced!get_active :
             jobs' = jobs \cup {[cmd |-> c, active |-> a, previous |-> Produced!None]}
      BY <2>2, <2>4
    <3>2. a.seconds \in Nat /\ c.upload \in Uploads
      BY ActiveHasLength DEF LengthsKept
    <3> QED  BY <2>1, <3>1, <3>2 DEF LengthsKept
  <2> QED  BY <2>3, <2>4
<1>6. CASE Produced!ReadPrevious
  <2>1. UNCHANGED <<assets, pointer, uploads>>
    BY <1>6 DEF Produced!ReadPrevious
  <2>2. PICK j \in jobs, p \in Produced!get_active :
           jobs' = (jobs \ {j}) \cup {[j EXCEPT !.previous = p]}
    BY <1>6 DEF Produced!ReadPrevious
  <2>3. PICK c, a, q : j = [cmd |-> c, active |-> a, previous |-> q]
    BY DEF VersionsKept, IsNormalization
  <2>4. [j EXCEPT !.previous = p] = [cmd |-> c, active |-> a, previous |-> p]
    BY <2>3
  <2>5. a.seconds \in Nat /\ c.upload \in Uploads
    BY <2>3 DEF LengthsKept
  <2> QED  BY <2>1, <2>2, <2>4, <2>5 DEF LengthsKept
<1>7. CASE Produced!NormalizationFails \/ Produced!AssemblyWorkerDies
  <2>1. UNCHANGED <<assets, pointer>> /\ uploads' \subseteq uploads /\ jobs' \subseteq jobs
    BY <1>7 DEF Produced!NormalizationFails, Produced!AssemblyWorkerDies
  <2> QED  BY <2>1 DEF LengthsKept
<1>8. CASE Produced!register_new_version
  BY <1>8, RegisterKeepsLengths
<1>9. CASE Produced!handleChannelAssetProjection
  <2>1. PICK e \in reports : e.step = "asset" /\ Produced!UpsertChannelAssetPointer(e)
    BY <1>9 DEF Produced!handleChannelAssetProjection
  <2>2. e.id \in Nat
    BY <2>1 DEF VersionsKept, Announcement
  <2>3. pointer'.id \in Nat
    BY <2>1, <2>2 DEF Produced!UpsertChannelAssetPointer, LengthsKept
  <2>4. UNCHANGED <<assets, uploads, jobs>>
    BY <1>9 DEF Produced!handleChannelAssetProjection
  <2> QED  BY <2>3, <2>4 DEF LengthsKept
<1>10. CASE UNCHANGED Produced!vars
  BY <1>1, <1>10 DEF Produced!vars
<1> QED  BY <1>2, <1>3, <1>4, <1>5, <1>6, <1>7, <1>8, <1>9, <1>10 DEF Produced!Next

-----------------------------------------------------------------------------
(* A video plays as its script was written.                                *)

LEMMA PlayStep ==
    ASSUME PlayKept, LengthsKept, VersionsKept, [Produced!Next]_(Produced!vars) PROVE PlayKept'
<1>1. ASSUME UNCHANGED <<video, orders, audio, rendered, final>>,
             \A e \in reports' : e \in reports \/ e.step = "asset"
      PROVE  PlayKept'
  <2>1. \A e \in reports' : e \in reports \/ EventOf(e, video)'
    BY <1>1 DEF EventOf
  <2>2. orders' \subseteq orders
    BY <1>1
  <2> QED  BY <1>1, <2>1, <2>2, Untouched, WorkersRunOn
<1>2. CASE Produced!StartRender
  BY <1>2, StartRenderPlays
<1>3. CASE Produced!Approve \/ Produced!EditNarration \/ Produced!Reject \/ Produced!Retry
  BY <1>3, ReviewPlays
<1>4. CASE Produced!Cancel
  BY <1>4, CancelPlays
<1>5. CASE Produced!HandleEvent
  BY <1>5, EventPlays DEF LengthsKept
<1>6. CASE Produced!Work
  <2>1. PICK c \in orders :
           \/ Produced!ValidateScript(c) \/ Produced!SynthesizeSpeechBatch(c)
           \/ Produced!RenderScript(c) \/ Produced!AssembleVideo(c)
    BY <1>6 DEF Produced!Work
  <2> QED  BY <2>1, ValidatePlays, SynthesizePlays, RenderPlays, AssemblePlays
<1>7. CASE Produced!Normalize \/ Produced!TakeUpload \/ Produced!NormalizationFails
           \/ Produced!ReadPrevious \/ Produced!AssemblyWorkerDies
  <2>1. UNCHANGED <<video, orders, audio, rendered, final, reports>>
    BY <1>7 DEF Produced!Normalize, Produced!TakeUpload, Produced!NormalizationFails,
                Produced!ReadPrevious, Produced!AssemblyWorkerDies, Produced!productionVars
  <2>2. \A e \in reports' : e \in reports
    BY <2>1
  <2> QED  BY <1>1, <2>1, <2>2
<1>8. CASE Produced!register_new_version
  <2>1. UNCHANGED <<video, orders, audio, rendered, final>>
    BY <1>8 DEF Produced!register_new_version, Produced!productionVars
  <2>2. \E i, v : reports' = reports \cup {[step |-> "asset", id |-> i, version |-> v,
                                             handled |-> FALSE]}
    BY <1>8 DEF Produced!register_new_version
  <2>3. \A e \in reports' : e \in reports \/ e.step = "asset"
    BY <2>2
  <2> QED  BY <1>1, <2>1, <2>3
<1>9. CASE Produced!handleChannelAssetProjection
  <2>1. UNCHANGED <<video, orders, audio, rendered, final>>
    BY <1>9 DEF Produced!handleChannelAssetProjection, Produced!productionVars
  <2>2. PICK e \in reports :
           /\ e.step = "asset"
           /\ reports' = (reports \ {e})
                            \cup (IF e.handled THEN {} ELSE {[e EXCEPT !.handled = TRUE]})
    BY <1>9 DEF Produced!handleChannelAssetProjection
  <2>3. [e EXCEPT !.handled = TRUE].step = "asset"
    BY <2>2 DEF VersionsKept, Announcement
  <2>4. \A x \in reports' : x \in reports \/ x.step = "asset"
    BY <2>2, <2>3
  <2> QED  BY <1>1, <2>1, <2>4
<1>10. CASE UNCHANGED Produced!vars
  <2>1. UNCHANGED <<video, orders, audio, rendered, final, reports>>
    BY <1>10 DEF Produced!vars
  <2>2. \A e \in reports' : e \in reports
    BY <2>1
  <2> QED  BY <1>1, <2>1, <2>2
<1> QED  BY <1>2, <1>3, <1>4, <1>5, <1>6, <1>7, <1>8, <1>9, <1>10 DEF Produced!Next

LEMMA PlayBegins == ASSUME Produced!Init PROVE PlayKept /\ LengthsKept
<1>1. /\ video = Produced!project0 /\ orders = {} /\ reports = {} /\ audio = << >>
      /\ rendered = Produced!None /\ final = Produced!None
      /\ assets = {} /\ pointer.id = 0 /\ uploads = {} /\ jobs = {}
  BY DEF Produced!Init
<1>2. RowKept(video)
  BY <1>1, FirstRow DEF RowKept, Silent, Rising
<1>3. AudioKept
  BY <1>1 DEF AudioKept
<1> QED  BY <1>1, <1>2, <1>3 DEF PlayKept, LengthsKept, RenderedKept, FinalKept

\* A finished video plays as its script was written, whatever was reworded, tried
\* again, cancelled, or taken over from what earlier runs left on the volume: the
\* subtitles show the words being said, and the lines are said in order and to the end
\* (PlaysAsWritten; compute_audio_path, onRenderingCompleted, _segments_from,
\* _target_duration, SubtitleCue.shifted_by).
THEOREM PlaysAsWrittenAlways == Produced!Spec => []PlaysAsWritten
<1>1. Produced!Init => PlayKept /\ LengthsKept /\ VersionsKept
  <2>1. Produced!Init => VersionsKept
    BY FS_EmptySet DEF Produced!Init, VersionsKept
  <2> QED  BY <2>1, PlayBegins
<1>2. PlayKept /\ LengthsKept /\ VersionsKept /\ [Produced!Next]_(Produced!vars)
         => PlayKept' /\ LengthsKept' /\ VersionsKept'
  BY PlayStep, LengthsStep, VersionsStep
<1>3. PlayKept => PlaysAsWritten
  <2>1. PlayKept => FinalKept
    BY DEF PlayKept
  <2> QED  BY <2>1 DEF FinalKept, Plays, PlaysAsWritten, Produced!PlaysAsWritten,
              Produced!SubtitlesAreSaid, Produced!LinesInOrder, Produced!Whole
<1> QED  BY <1>1, <1>2, <1>3, PTL DEF Produced!Spec

-----------------------------------------------------------------------------
(* The parts side by side.                                                 *)

\* Each part does in its run beside the others only what it does alone.
THEOREM SideBySide ==
    /\ HandlersSpec => Handlers!Spec
    /\ DeletionSpec => Deletion!Spec
    /\ ProducedSpec => Produced!Spec
<1>1. AllInit => Handlers!Init /\ Deletion!Init /\ Produced!Init
  BY DEF AllInit
<1>2. [HandlersNext]_allVars => [Handlers!Next]_(Handlers!vars)
  BY DEF HandlersNext, allVars, handlerVars, Handlers!vars
<1>3. [DeletionNext]_allVars => [Deletion!Next]_(Deletion!vars)
  BY DEF DeletionNext, allVars, deleteVars, Deletion!vars, Deletion!worker, Deletion!bounds
<1>4. [ProducedNext]_allVars => [Produced!Next]_(Produced!vars)
  BY DEF ProducedNext, allVars, fileVars, Produced!vars
<1>5. HandlersSpec => Handlers!Spec
  BY <1>1, <1>2, PTL DEF HandlersSpec, Handlers!Spec
<1>6. DeletionSpec => Deletion!Spec
  BY <1>1, <1>3, PTL DEF DeletionSpec, Deletion!Spec
<1>7. ProducedSpec => Produced!Spec
  BY <1>1, <1>4, PTL DEF ProducedSpec, Produced!Spec
<1> QED  BY <1>5, <1>6, <1>7
=============================================================================
