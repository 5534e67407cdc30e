---------------------------- MODULE MCOrchestrator ----------------------------
(***************************************************************************)
(* What the orchestrator drives, side by side: the render and publish saga *)
(* (RenderSaga), its handlers call by call (SagaHandlers), the delete of a *)
(* project (DeleteSaga) and the files of a video (VideoFiles).  Each run   *)
(* has a specification here in which one of them moves and the others stay *)
(* as they began.                                                          *)
(***************************************************************************)
EXTENDS RenderSaga, TLC

CONSTANTS
    Threads, MaxHandled, maxEventAttempts,                       \* SagaHandlers
    PurgeTargets, Serial, Dispatchers, MaxDeletes, MaxClock,     \* DeleteSaga
    Scripts, Rewordings, Configs, Uploads, Estimate,             \* VideoFiles
    ShotGap, LineGap, LeadIn, LeadOut, MaxProduced

VARIABLES
    shared, disposed, dead, deliveries, retries, job, sagas, second, asked, faults,
    projectRow, purgeSteps, deleteRequest, outbox, published, queue, held, inbox, files,
    cutoff, purgeAnswers, clock, purgeSent, moves, purged, broken,
    video, orders, reports, audio, rendered, final, assets, pointer, uploads, jobs,
    wishes, crashes

sagaVars == vars
handlerVars ==
    <<shared, disposed, dead, deliveries, retries, job, sagas, second, asked, faults>>
deleteVars ==
    <<projectRow, purgeSteps, deleteRequest, outbox, published, queue, held, inbox, files,
      cutoff, purgeAnswers, clock, purgeSent, moves, purged, broken>>
fileVars ==
    <<video, orders, reports, audio, rendered, final, assets, pointer, uploads, jobs,
      wishes, crashes>>
allVars == <<sagaVars, handlerVars, deleteVars, fileVars>>

Handlers == INSTANCE SagaHandlers WITH
    MaxMoves <- MaxHandled, events <- deliveries, tries <- retries, now <- second,
    requests <- asked

Deletion == INSTANCE DeleteSaga WITH
    MaxMoves <- MaxDeletes, MaxNow <- MaxClock, project <- projectRow, step <- purgeSteps,
    request <- deleteRequest, events <- purgeAnswers, now <- clock, sent <- purgeSent

Produced == INSTANCE VideoFiles WITH
    MaxMoves <- MaxProduced, project <- video, cmds <- orders, events <- reports,
    requests <- wishes

ASSUME HandlersAssumption == Handlers!ThreadsAssumption /\ Handlers!CountsAssumption
ASSUME DeletionAssumption == Deletion!TargetsAssumption /\ Deletion!BoundsAssumption
ASSUME ProducedAssumption ==
    /\ Produced!ScriptsAssumption /\ Produced!ConfigsAssumption
    /\ Produced!UploadsAssumption /\ Produced!BoundsAssumption

AllInit == Init /\ Handlers!Init /\ Deletion!Init /\ Produced!Init

HandlersNext == Handlers!Next /\ UNCHANGED <<sagaVars, deleteVars, fileVars>>
HandlersSpec == AllInit /\ [][HandlersNext]_allVars /\ Handlers!Fairness

DeletionNext == Deletion!Next /\ UNCHANGED <<sagaVars, handlerVars, fileVars>>
DeletionSpec == AllInit /\ [][DeletionNext]_allVars /\ Deletion!Fairness

ProducedNext == Produced!Next /\ UNCHANGED <<sagaVars, handlerVars, deleteVars>>
ProducedSpec == AllInit /\ [][ProducedNext]_allVars

-----------------------------------------------------------------------------
(* The scripts, settings and uploads of VideoFiles for TLC: a script of    *)
(* two lines in one shot, two scripts of a line, two clips for the intro   *)
(* and a music bed to lay over one.                                        *)
MCScripts ==
    {[lines |-> <<1, 2>>, shots |-> <<2>>], [lines |-> <<1>>, shots |-> <<>>],
     [lines |-> <<2>>, shots |-> <<>>]}

MCConfigs ==
    {[review |-> TRUE, tts |-> TRUE, intro |-> TRUE, subtitles |-> {"track", "burn_in"}],
     [review |-> FALSE, tts |-> TRUE, intro |-> FALSE, subtitles |-> {"track"}],
     [review |-> FALSE, tts |-> FALSE, intro |-> TRUE, subtitles |-> {}]}

MCUploads ==
    {[role |-> "video", source |-> 1, seconds |-> 2], [role |-> "video", source |-> 2, seconds |-> 1],
     [role |-> "music", source |-> 3, seconds |-> 0]}

-----------------------------------------------------------------------------
\* What the parts must keep: see the definition of each in its module.
DispatchedOncePerRequest == Handlers!DispatchedOncePerRequest
ImplementsRenderSaga == Handlers!ImplementsRenderSaga
EventsSettle == Handlers!EventsSettle
GoneAfterPurges == Deletion!GoneAfterPurges
DeleteSettles == Deletion!DeleteSettles
PlaysAsWritten == Produced!PlaysAsWritten
PointerIsNewest == Produced!PointerIsNewest
=============================================================================
