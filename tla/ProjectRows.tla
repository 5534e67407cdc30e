----------------------------- MODULE ProjectRows -----------------------------
(***************************************************************************)
(* The projects as rows: drafts created by a page that picks their ids,    *)
(* shorts made for a long video, forks of a project from one of its steps, *)
(* and deletion (orchestrator), with what authoring-service holds of each. *)
(*                                                                         *)
(* Creating and forking take several calls on two services, one row after  *)
(* the other; any of them may fail, and the ones before it stay done.      *)
(* Overlaps says whether other requests run in between.                    *)
(*                                                                         *)
(* A storyboard stands for the story it was written from, settings for     *)
(* what wizard step 2 collects, and the saga for one status in flight.     *)
(* Deletion is in DeleteSaga; here its start and its end.                  *)
(***************************************************************************)
EXTENDS Naturals, FiniteSets

CONSTANTS Ids,            \* project ids
          Topics,         \* what a Creator types as the topic
          Collected,        \* what step 2 may collect
          DefaultChoice,  \* ... of a new draft
          ShortChoice,    \* ... of a new short
          MaxStories,     \* bound: different stories
          MaxRequests,    \* bound: requests of the Creator
          Overlaps,       \* whether requests run inside one another
          Breaks,         \* whether a call may fail
          None

BoundsAssumption == {MaxStories, MaxRequests} \subseteq Nat /\ {Overlaps, Breaks} \subseteq BOOLEAN
NamesAssumption == {DefaultChoice, ShortChoice} \subseteq Collected /\ None \notin Ids \cup Topics \cup Collected

VARIABLES rows,      \* the orchestrator's row of each project, or None
          authored,  \* authoring-service's row of it, or None
          call,      \* the create or fork under way, or None
          requests,  \* how many requests there were
          chosen,    \* history: the settings chosen last for each project
          linked     \* history: the pairs linked as companions

vars == <<rows, authored, call, requests, chosen, linked>>

Statuses == {"draft", "in_flight", "failed", "finished", "deleting"}
Row == [status : Statuses, step : 1..3, settings : Collected, subject : Topics \cup {None},
        music : Ids \cup {None}, companion : Ids \cup {None}, forked : Ids \cup {None}]
Authored == [topic : Topics \cup {None}, story : 0..MaxStories, board : 0..MaxStories,
             code : BOOLEAN, drawn : BOOLEAN, brief : BOOLEAN]

NewRow(settings) == [status |-> "draft", step |-> 1, settings |-> settings, subject |-> None,
                     music |-> None, companion |-> None, forked |-> None]
NewAuthored == [topic |-> None, story |-> 0, board |-> 0, code |-> FALSE, drawn |-> FALSE,
                brief |-> FALSE]

ShapesAssumption == None \notin Row \cup Authored

There(id) == rows[id] # None

(* The page of a copy opens once the fork has answered.                    *)
Copying(id) == call # None /\ call.from # 0 /\ call.id = id
Editable(id) == There(id) /\ rows[id].status \in {"draft", "failed"} /\ ~Copying(id)

(* Authoring-service inserts the row with whichever field is saved first.  *)
AuthoredOf(id) == IF authored[id] = None THEN NewAuthored ELSE authored[id]
SaveAuthored(id, a) == authored' = [authored EXCEPT ![id] = a]

(* Save writes every column but these three.                               *)
Saved(id, r) ==
    LET kept == IF There(id) THEN rows[id] ELSE NewRow(DefaultChoice)
    IN  [r EXCEPT !.step = kept.step, !.subject = kept.subject, !.forked = kept.forked]

Save(id, r) == rows' = [rows EXCEPT ![id] = Saved(id, r)]

-----------------------------------------------------------------------------
(* A request that is one call, and the stages of one that is several.      *)
Request ==
    /\ Overlaps \/ call = None
    /\ requests < MaxRequests
    /\ requests' = requests + 1

Opens(id, src, topic, todo) ==
    /\ call = None
    /\ Request
    /\ call' = [id |-> id, src |-> src, copy |-> IF src = None THEN None ELSE rows[src],
                topic |-> topic, from |-> 0, todo |-> todo]

Order == [link |-> 1, save |-> 2, fork |-> 3, forkedFrom |-> 4, topic |-> 5, subject |-> 6,
          models |-> 7, settings |-> 8, story |-> 9, board |-> 10]

Stage(name) ==
    call # None /\ name \in call.todo /\ \A other \in call.todo : Order[name] <= Order[other]

Goes(name) == IF call.todo = {name} THEN None ELSE [call EXCEPT !.todo = @ \ {name}]
Done(name) == call' = Goes(name)

BreaksOff ==
    /\ Breaks
    /\ call # None
    /\ call' = None
    /\ UNCHANGED <<rows, authored, requests, chosen, linked>>

-----------------------------------------------------------------------------
(* POST /v1/projects, also sent again when the topic is edited: the row is *)
(* created only if it is not there.                                        *)
topicStages(topic) == IF topic = None THEN {} ELSE {"topic", "subject"}

Stages(id, long, topic) ==
    IF There(id) THEN topicStages(topic)
    ELSE {"save"} \cup (IF long = None THEN {} ELSE {"link"}) \cup topicStages(topic)

CreateDraft(id, long, topic) ==
    /\ long # None => There(long)
    /\ Stages(id, long, topic) # {}
    /\ Opens(id, long, topic, Stages(id, long, topic))
    /\ UNCHANGED <<rows, authored, chosen, linked>>

(* The long video is saved whole, as it was read, with the link put in.    *)
makeShortOf ==
    /\ Stage("link")
    /\ Save(call.src, [call.copy EXCEPT !.companion = call.id])
    /\ linked' = linked \cup {{call.id, call.src}}
    /\ Done("link")
    /\ UNCHANGED <<authored, requests, chosen>>

SaveDraft ==
    /\ Stage("save")
    /\ LET settings == IF call.src = None THEN DefaultChoice ELSE ShortChoice
       IN  /\ Save(call.id, [NewRow(settings) EXCEPT !.companion = call.src])
           /\ chosen' = IF There(call.id) THEN chosen ELSE [chosen EXCEPT ![call.id] = settings]
    /\ Done("save")
    /\ UNCHANGED <<authored, requests, linked>>

UpdateProjectTopic(id, topic) ==
    /\ Editable(id)
    /\ Opens(id, None, topic, topicStages(topic))
    /\ UNCHANGED <<rows, authored, chosen, linked>>

SaveAuthoringTopic ==
    /\ Stage("topic")
    /\ SaveAuthored(call.id, [AuthoredOf(call.id) EXCEPT !.topic = call.topic])
    /\ Done("topic")
    /\ UNCHANGED <<rows, requests, chosen, linked>>

SaveIdeaInput ==
    /\ Stage("subject")
    /\ rows' = IF There(call.id) THEN [rows EXCEPT ![call.id].subject = call.topic] ELSE rows
    /\ Done("subject")
    /\ UNCHANGED <<authored, requests, chosen, linked>>

-----------------------------------------------------------------------------
(* POST /v1/projects/{id}/fork: a new row, then what comes before the step *)
(* it starts again from.                                                   *)
ForkSteps == {2, 3, 4, 6}

(* Mutant: the settings are confirmed for every copy.                      *)
forkStagesSettled(topic, from) ==
    {"fork", "forkedFrom", "models", "settings"}
        \cup (IF topic = None THEN {} ELSE {"topic"})
        \cup (IF from >= 4 THEN {"story"} ELSE {})
        \cup (IF from >= 6 THEN {"board"} ELSE {})

forkStages(topic, from) ==
    {"fork", "forkedFrom", "models"}
        \cup (IF topic = None THEN {} ELSE {"topic"})
        \cup (IF from >= 3 THEN {"settings"} ELSE {})
        \cup (IF from >= 4 THEN {"story"} ELSE {})
        \cup (IF from >= 6 THEN {"board"} ELSE {})

(* Bound: the new id is the least used one, any that has no row.           *)
Fork(src, id, from) ==
    /\ There(src) /\ ~There(id)
    /\ call = None
    /\ Request
    /\ LET topic == AuthoredOf(src).topic
       IN  call' = [id |-> id, src |-> src, copy |-> rows[src], topic |-> topic, from |-> from,
                    todo |-> forkStages(topic, from)]
    /\ UNCHANGED <<rows, authored, chosen, linked>>

blankFork(src) == [src EXCEPT !.status = "draft", !.step = 1, !.music = None, !.companion = None]

SaveFork ==
    /\ Stage("fork")
    /\ Save(call.id, blankFork(call.copy))
    /\ chosen' = [chosen EXCEPT ![call.id] = call.copy.settings]
    /\ Done("fork")
    /\ UNCHANGED <<authored, requests, linked>>

SetForkedFrom ==
    /\ Stage("forkedFrom")
    /\ rows' = IF There(call.id) THEN [rows EXCEPT ![call.id].forked = call.src] ELSE rows
    /\ Done("forkedFrom")
    /\ UNCHANGED <<authored, requests, chosen, linked>>

(* The working mode and the models, which insert authoring-service's row.  *)
SaveAuthoringModels ==
    /\ Stage("models")
    /\ SaveAuthored(call.id, AuthoredOf(call.id))
    /\ Done("models")
    /\ UNCHANGED <<rows, requests, chosen, linked>>

SaveWizardSettings ==
    /\ Stage("settings")
    /\ rows' = IF There(call.id)
               THEN [rows EXCEPT ![call.id].settings = call.copy.settings,
                                 ![call.id].music = None, ![call.id].step = 3]
               ELSE rows
    /\ call' = IF There(call.id) THEN Goes("settings") ELSE None
    /\ chosen' = [chosen EXCEPT ![call.id] = call.copy.settings]
    /\ UNCHANGED <<authored, requests, linked>>

ForkStory ==
    /\ Stage("story")
    /\ SaveAuthored(call.id, [AuthoredOf(call.id) EXCEPT !.story = AuthoredOf(call.src).story])
    /\ Done("story")
    /\ UNCHANGED <<rows, requests, chosen, linked>>

ForkStoryboard ==
    /\ Stage("board")
    /\ SaveAuthored(call.id, [AuthoredOf(call.id) EXCEPT !.board = AuthoredOf(call.src).board])
    /\ Done("board")
    /\ UNCHANGED <<rows, requests, chosen, linked>>

-----------------------------------------------------------------------------
(* The wizard's settings, and a start that writes the row from its request *)
(* and, when it names a companion, links that one back.                    *)
PatchSettings(id, settings, step) ==
    /\ Editable(id)
    /\ Request
    /\ rows' = [rows EXCEPT ![id].settings = settings,
                            ![id].step = IF step > rows[id].step THEN step ELSE rows[id].step]
    /\ chosen' = [chosen EXCEPT ![id] = settings]
    /\ UNCHANGED <<authored, call, linked>>

(* The track is a file in the project's own folder.                        *)
PatchMusic(id, music) ==
    /\ Editable(id)
    /\ music \in {None, id} /\ rows[id].music # music
    /\ Request
    /\ rows' = [rows EXCEPT ![id].music = music]
    /\ UNCHANGED <<authored, call, chosen, linked>>

StartRender(id, settings, companion) ==
    /\ There(id) /\ rows[id].status \notin {"in_flight", "deleting"}
    /\ companion # id /\ (companion # None => There(companion))
    /\ Request
    /\ rows' = [i \in Ids |->
          IF i = id
          THEN Saved(id, [NewRow(settings) EXCEPT !.status = "in_flight",
                                                  !.music = rows[id].music, !.companion = companion])
          ELSE IF i = companion THEN [rows[i] EXCEPT !.companion = id] ELSE rows[i]]
    /\ linked' = IF companion = None THEN linked ELSE linked \cup {{id, companion}}
    /\ chosen' = [chosen EXCEPT ![id] = settings]
    /\ UNCHANGED <<authored, call>>

(* The saga ends a run one way or the other.                               *)
UpdateStatus(id) ==
    /\ Overlaps \/ call = None
    /\ There(id) /\ rows[id].status = "in_flight"
    /\ \E status \in {"failed", "finished"} : rows' = [rows EXCEPT ![id].status = status]
    /\ UNCHANGED <<authored, call, requests, chosen, linked>>

-----------------------------------------------------------------------------
(* What authoring-service holds: an output that changes empties what was   *)
(* written from it. The topic sent with a story is the one there is.       *)
ClearAfterStory(a) == [a EXCEPT !.board = 0, !.code = FALSE]

SaveAuthoringStory(id, story) ==
    /\ Editable(id)
    /\ Request
    /\ LET a == AuthoredOf(id)
       IN  SaveAuthored(id, IF story = a.story THEN a ELSE ClearAfterStory([a EXCEPT !.story = story]))
    /\ UNCHANGED <<rows, call, chosen, linked>>

(* A storyboard of the story there is; it may be a rewritten one.          *)
SaveAuthoringStoryboard(id, rewritten) ==
    /\ Editable(id)
    /\ AuthoredOf(id).story # 0
    /\ Request
    /\ LET a == AuthoredOf(id)
       IN  SaveAuthored(id, [a EXCEPT !.board = a.story,
                                      !.code = @ /\ a.board = a.story /\ ~rewritten])
    /\ UNCHANGED <<rows, call, chosen, linked>>

SaveAuthoringCode(id) ==
    /\ Editable(id)
    /\ Request
    /\ SaveAuthored(id, [AuthoredOf(id) EXCEPT !.code = TRUE])
    /\ UNCHANGED <<rows, call, chosen, linked>>

(* The drawing list is decided to the end, or the brief approved.          *)
Approves(id) ==
    /\ Editable(id)
    /\ authored[id] # None
    /\ Request
    /\ \/ SaveAuthored(id, [authored[id] EXCEPT !.drawn = TRUE])
       \/ SaveAuthored(id, [authored[id] EXCEPT !.brief = TRUE])
    /\ UNCHANGED <<rows, call, chosen, linked>>

-----------------------------------------------------------------------------
BeginDelete(id) ==
    /\ There(id) /\ rows[id].status \notin {"in_flight", "deleting"}
    /\ Request
    /\ rows' = [rows EXCEPT ![id].status = "deleting"]
    /\ UNCHANGED <<authored, call, chosen, linked>>

Delete(id) ==
    /\ Overlaps \/ call = None
    /\ There(id) /\ rows[id].status = "deleting"
    /\ rows' = [rows EXCEPT ![id] = None]
    /\ authored' = [authored EXCEPT ![id] = None]
    /\ UNCHANGED <<call, requests, chosen, linked>>

-----------------------------------------------------------------------------
Init ==
    /\ rows = [id \in Ids |-> None]
    /\ authored = [id \in Ids |-> None]
    /\ call = None
    /\ requests = 0
    /\ chosen = [id \in Ids |-> DefaultChoice]
    /\ linked = {}

Next ==
    \/ \E id \in Ids, long \in Ids \cup {None}, topic \in Topics \cup {None} :
          CreateDraft(id, long, topic)
    \/ makeShortOf \/ SaveDraft \/ SaveAuthoringTopic \/ SaveIdeaInput
    \/ \E id \in Ids, topic \in Topics : UpdateProjectTopic(id, topic)
    \/ \E src, id \in Ids, from \in ForkSteps : Fork(src, id, from)
    \/ SaveFork \/ SetForkedFrom \/ SaveAuthoringModels \/ SaveWizardSettings
    \/ ForkStory \/ ForkStoryboard
    \/ BreaksOff
    \/ \E id \in Ids, settings \in Collected, step \in {1, 3} : PatchSettings(id, settings, step)
    \/ \E id \in Ids, music \in Ids \cup {None} : PatchMusic(id, music)
    \/ \E id \in Ids, settings \in Collected, companion \in Ids \cup {None} :
          StartRender(id, settings, companion)
    \/ \E id \in Ids : UpdateStatus(id)
    \/ \E id \in Ids, story \in 1..MaxStories : SaveAuthoringStory(id, story)
    \/ \E id \in Ids, rewritten \in BOOLEAN : SaveAuthoringStoryboard(id, rewritten)
    \/ \E id \in Ids : SaveAuthoringCode(id)
    \/ \E id \in Ids : Approves(id)
    \/ \E id \in Ids : BeginDelete(id)
    \/ \E id \in Ids : Delete(id)

Spec == Init /\ [][Next]_vars

-----------------------------------------------------------------------------
(* Rows, calls and histories keep their shape.                             *)
TypeOK ==
    /\ rows \in [Ids -> Row \cup {None}]
    /\ authored \in [Ids -> Authored \cup {None}]
    /\ call # None => call.id \in Ids /\ call.src \in Ids \cup {None} /\ call.todo # {}
    /\ requests \in 0..MaxRequests
    /\ chosen \in [Ids -> Collected] /\ \A pair \in linked : Cardinality(pair) = 2

(* A project keeps the settings that were chosen for it last: no draft     *)
(* posted again, short made for it, fork of it or call that broke off sets *)
(* them back.                                                              *)
SettingsAsChosen == \A id \in Ids : There(id) => rows[id].settings = chosen[id]

(* What a project is shown beside is its long video or its short; a copy   *)
(* of either has no companion until it gets its own.                       *)
CompanionWasLinked ==
    \A id \in Ids : There(id) /\ rows[id].companion # None => {id, rows[id].companion} \in linked

(* No project plays music from the folder of another, which goes when that *)
(* one is deleted.                                                         *)
MusicStays == \A id \in Ids : There(id) => rows[id].music \in {None, id}

(* A storyboard is of the story beside it, in a project and in a copy made *)
(* of it, wherever the copying broke off.                                  *)
BoardOfStory ==
    \A id \in Ids : authored[id] # None /\ authored[id].board # 0 =>
        authored[id].board = authored[id].story

(* Nothing but deletion takes a Creator back behind a confirmed step.      *)
StepNeverBack ==
    [][\A id \in Ids : There(id) /\ There(id)' => rows'[id].step >= rows[id].step]_vars

(* Where the flow stands with a project: FlowStateFor, for the steps a     *)
(* draft can be at; a saga past them counts as the render.                 *)
FlowStep(row, a) ==
    IF row.status # "draft" THEN 10
    ELSE IF row.step < 3 THEN (IF a # None /\ ~a.brief THEN 1 ELSE 2)
    ELSE IF a = None THEN 3
    ELSE IF a.code THEN 6
    ELSE IF a.board # 0 THEN (IF a.drawn THEN 6 ELSE 5)
    ELSE IF a.story # 0 THEN 4 ELSE 3

(* A copy is as far as it will get: the fork is done, or broke off.        *)
ForkEnds == call # None /\ call.from # 0 /\ call' = None /\ rows'[call.id] # None

(* Everything from the chosen step on is left to be redone: a copy never   *)
(* stands further than the step it starts again from.                      *)
ForkRedoesTheRest ==
    [][ForkEnds => FlowStep(rows'[call.id], authored'[call.id]) <= call.from]_vars

(* What was chosen, written and linked for a project stands in its rows.   *)
RowsStand ==
    /\ [](SettingsAsChosen /\ CompanionWasLinked /\ MusicStays /\ BoardOfStory)
    /\ StepNeverBack /\ ForkRedoesTheRest
=============================================================================
