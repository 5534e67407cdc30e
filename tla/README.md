# ConceptFlow, in TLA+

ConceptFlow helps a Creator author an educational video with language models, renders and narrates it,
assembles it and publishes it. Eight services share the work. This project models the three places where
its logic is: the saga coordinator (`services/orchestrator`, Go), the authoring desks
(`services/authoring-service`, Go) and what the Python workers and the code pipeline of `llm-service` do to
files and rows; of the page, how it follows a long call. TLC checks every module on small instances; TLAPS
proves for every instance the invariants of all components, that the render saga implements the abstract
pipeline, and that its handlers, call by call, implement the saga.

## The system

| component | state | operations | talks to |
|---|---|---|---|
| orchestrator: render and publish saga (`application/`) | `projects` row (status, saga id, script, outline, switches), `saga_steps` rows, retry counts in memory | StartRender, StartPublish, Retry, Cancel, Approve, EditNarration, Reject; one handler per worker event | commands through its outbox; a cancel fanout; events from workers |
| orchestrator: delivery (`adapters/amqp`, `adapters/postgres`) | inbox, outbox, failed attempts per event in memory | event delivery, command and event dead letters, relay | broker, database; one goroutine per delivery and per request |
| delete saga (orchestrator, every owner of files) | status `deleting`, one purge step per owner | BeginDelete, purge command and event, final delete | as above |
| channel assets (`video-assembly`, orchestrator) | versioned rows; one pointer per kind and quality | upload, normalize, register, announce, project the announcement | broker |
| workers: `rendering`, `tts`, `video-assembly`, `publisher` | inbox, outbox, cancel registry in memory, files | handle a command, answer with one event, drop a cancelled command | one command at a time (prefetch 1; tts and the publisher have no limit) |
| artifacts on the shared volume | readings, rendered and final video, subtitles, named by project id | render, speak, assemble, reuse, purge | file system |
| draft voice (orchestrator, `authoring-service`, `tts`) | voice lines with text, voice, status | claim, dispatch, result, fail | http and broker |
| idea, brief, story desks (`authoring-service`) | one row each, with the hash of what it was written from | generate, edit, review, approve, unapprove | `llm-service` |
| research desk and source verifier | facts, questions, gate, a queue of checks in memory | generate, paste, edit, approve, check a link | `llm-service`, the web |
| beat desk | one beat sheet: beats, lengths, skeleton approval | build, generate, edit, redo, add, delete, reorder | `llm-service` |
| script desk | one row of dialogue per beat | generate, edit, redo, replace, approve | `llm-service` |
| script lock | handoff notes, review, glossary, locked versions | write, edit, confirm, review, accept, fix, lock | `llm-service` |
| illustrations | library of drawings, a list per video | draw, edit, approve, preview, make exemplar, link, delete | `llm-service`, renderer |
| code pipeline (`llm-service`) | segments with fingerprints (authoring), the run in memory | plan, frame, chunks, repair, merge, final check | models |
| project records (orchestrator, `authoring-service`) | `projects` and `project_authoring` rows, companions, forks, wizard position | create a draft or a short, fork, patch a setting, start, delete | both services, one call after the other |
| settings and formats (orchestrator) | the settings of a project, versions of video formats, the pin of a project | patch, save a format, confirm, start, retry | workers' commands carry them |
| visual languages (`authoring-service`) | languages with their versions, which is active, pins of projects | seed, copy, update, activate, delete, pin | `rendering` for the samples |
| language samples (`authoring-service`, `rendering`) | records of sample pictures, stills in a shared directory | rebuild, keep, prune | http |
| long calls (`authoring-service`, `web-gui`) | a registry of operations in memory; what each page follows | start, progress, cancel, poll, find again | http |
| `api-gateway`, the rest of `web-gui`, prompt templates | rows read or replaced whole by one request, or none | proxy, show | |

The services meet in few places. A desk reads the rows of the desk before it and keeps a hash, so that the
Creator sees what is out of date; the orchestrator's saga reads a script and an outline; workers read
commands and files. Each module takes what it reads from another component as a small set of versions that
may change at any moment the code lets them change.

What is hard in it:

- **Every repository call is a transaction of its own.** A handler writes a step row, the outbox and the
  project row one after the other, and may fail or crash in between.
- **Deliveries are at least once, on concurrent goroutines**, and the only protection is the status of the
  step: an event counts if its step is in progress.
- **A cancel does not remove commands.** It fails the step at once and broadcasts a time, in seconds, that
  workers compare with the time of each command.
- **A desk reads a row, asks a model for minutes and saves the row whole.** Whatever the Creator did
  meanwhile meets the answer; what protects the Creator is a hash, an ownership mark or a check at the write.
- **Files are found by name.** A retry, a new run or an edit finds what an earlier one left.
- **A request that spans two services is a row of calls.** A draft, a short or a fork saves one row after
  the other; any call may fail, and the page posts again.
- **A setting is read late.** The wizard stores it, some step of the saga reads it, and the two must agree on
  which values went into what was made.
- **A page outlives its request.** It follows a call by an id, finds calls it did not start and aborts its own.
- **Approvals are promises**: of a table, a drawing, a note, a dialogue exactly as it reads. Each of the many
  ways to change a row must take the approval back.

PROJECT.json lists these hazards one by one with their lines.

## The modules

| module | what it is |
|---|---|
| `SagaSteps` | the steps, their statuses and the tables of `domain/project.go` |
| `Pipeline` | the abstract promise: N stages, one at a time, each on the results of exactly the ones before |
| `RenderSaga` | the saga of one project, one action per endpoint and per handler; implements `Pipeline` |
| `SagaHandlers` | the same call by call, with redelivery, failed calls and crashes; implements `RenderSaga` while nothing fails |
| `DeleteSaga` | deletes, renders, relay, inboxes, purges and restarts of one project |
| `DraftVoice` | the reading of lines while the script is being written |
| `VideoFiles` | what is in the files and who reuses them; channel assets and their pointer |
| `StoryDesk` | idea, brief and story |
| `ResearchDesk` | facts, questions, the gate and the checks of links |
| `BeatLengths`, `BeatSheet` | the arithmetic of the lengths; the requests on the beat sheet |
| `ScriptDesk` | the dialogue of the beats |
| `ScriptLock` | handoff notes, review and locked versions |
| `Illustrations` | the library and a video's list |
| `CodePipeline` | the run that writes a video's code |
| `VisualLanguages` | the store of the languages, which is active, and the pins of projects |
| `LanguageSamples` | the sample pictures: rebuilds, the keeper and its prune |
| `ProjectSettings` | the settings and the format of a project through its saga |
| `ProjectRows` | drafts, shorts, forks, starts and deletions on the rows of two services |
| `Operations` | the registry of long calls and the pages that follow them |
| `MCOrchestrator` | `RenderSaga`, `SagaHandlers`, `DeleteSaga` and `VideoFiles` side by side |
| `MCDesks` | `ResearchDesk` and `StoryDesk` side by side |
| `MCCalls` | `DraftVoice` and `Operations` side by side |
| `MCPictures` | `Illustrations`, `VisualLanguages` and `LanguageSamples` side by side |
| `MCProjects` | `ProjectSettings`, `ProjectRows`, `BeatSheet` and `ScriptDesk` side by side |
| `MCOrchestrator_proofs`, `SagaHandlers_proofs`, `MCCalls_proofs`, `MCPictures_proofs`, `MCProjects_proofs`, `MCDesks_proofs`, `ScriptLock_proofs`, `CodePipeline_proofs` | the theorems |

A pattern runs through the desk modules. A *thread* is a goroutine that serves a request; `job[t]` or
`call[t]` is what it serves and what it has read. A request action reads the rows and applies the early
returns; an end action does one save, from the copy. Whatever other threads do in between is the
interleaving the code allows, since no lock is held. `GiveUp` or `Fail` is the error path.

The five modules that put others *side by side* do not compose them. In `MCCalls`, `MCPictures` and
`MCProjects` each behaviour chooses its `part` at the start and is a behaviour of that module, while the
others stay as they began: a run checks its parts one after the other, so its states are the sum of theirs,
not the product. `MCOrchestrator` has a specification for each part, and a run for each; in `MCDesks`
the story moves, and `ResearchDesk` has a run of its own. These modules share
no state with one another that the code changes during a request; what one takes from another is, as
everywhere here, a version that may change at any moment. The theorems `SideBySide` say that a behaviour of a
part beside the others is one of its module alone, so that what is proved of the module holds in the run.

### RenderSaga

`status`, `saga`, `config`, `script`, `outline` are columns of `projects`. A script and an outline are
version numbers: only which script an outline was made from matters. `step` is `saga_steps`. `tries` is
`synthesisRetries`. `cmds` are the commands from the outbox to the end of a worker's work on them,
`events` the answers from the worker's outbox to the acknowledgement. Both are sets, so messages come in
any order. `cancel` is the last broadcast with its second, `now` the clock that stamps commands and
cancels.

`StartRender`, `StartPublish`, `RetryStep`, `CancelStep`, `Approve`, `EditNarration`, `Reject` are the use
cases of that name (`EditNarration` with its `revalidate`). `SkipEvent`, `handleFailure`,
`retryTransientSynthesisFailure` and the `on...` actions are the branches of
`HandleStepEventUseCase.Execute`, with all that follows from an event: `onSpeechSynthesized` also starts
the next step or fails it. Where a handler compares data the model has not got (scene indexes, beats, the
kit of a visual language), both outcomes are possible. A worker is `Answer`, `DropCancelled` or
`handleDLQDelivery`. Since the registry of cancels is in the workers' memory and an event may be in the
outbox already, a cancelled command may be answered all the same.

Three constants say what the environment does, because the code relies on it and does not enforce it.
The runs and the theorems take the well-behaved value; TLC finds the violation with the other:

| constant | says | otherwise |
|---|---|---|
| `HumanPace = TRUE` | a second passes between a cancel and the next request that sends a timestamped command | `NeverStranded` fails: a retry in the second of the cancel is dropped as cancelled |
| `StartWhileRunning = FALSE` | StartRender is not called on a project in flight (the endpoint does not refuse it, the page does not offer it) | `StatusMatchesStep` fails: two sagas run on one row |
| `StaleDeadLetters = FALSE` | a dead letter finds its step still in progress | `StatusMatchesStep` fails: the project fails under a running step |

### SagaHandlers

A thread is a goroutine: what it works for, its message and the calls it has still to make (`todo`). The
request and event actions read the row and fix the calls; `Call` does the next, one transaction each;
`CompleteStep` and `Decide` split a success event where the code does, after its step is completed and the
row read. `Finish` acknowledges. `CallFails` is an error from any call, the progress message and the
acknowledgement included: an event goes back to its queue and after `maxEventAttempts` fails its step.
`Crash` empties what is in memory. The backoff of an automatic retry is not modelled as time: its one call
may come as late as it likes. Workers, dead letters and pace are as in `RenderSaga` with the well-behaved
constants. The run has one thread, so handlers do not overlap; see *Known and not checked*.

### DeleteSaga

`BeginDelete` looks at the status under its row lock and opens the purge steps; `Execute` sends the commands
one by one; `Relay` publishes and marks in two steps and may crash between them, so a command may be sent
twice. A worker takes a command, purges, and answers in the transaction that marks its inbox; a worker in
`Serial` holds one command, another may purge while a reading is still being written. `HandlePurgeEvent` is
the handler call by call, the last answer deleting the row. Dead letters of purge commands, a cancel that
drops a purge command sent in its second, and restarts of the orchestrator and of each worker are actions.
The owners of files are modelled as two kinds (one serial, one not). `step` is kept per saga because a
DELETE asked again starts another saga. A failure of the broker at tts is taken as its restart. Cleaning
the authoring rows is left out.

### DraftVoice

`Speak` asks for a set of lines, `Serve` goes on with the claim, the dispatch and, on an error, the failure
of the lines; `Tts` reads, drops what was cancelled or fails; `Consume` is the orchestrator passing a result
back, where only a row whose text still has the hash takes it. `Reword`, `ChangeVoice`, `Cancel` and
`TimePasses` (a claim gone stale) are the environment. At most one failure happens at a time, and a claim
fails only before it reached the rows.

### VideoFiles

A text takes as many seconds as its number says, so that subtitles can be compared with what is said.
`audio` is the folder of readings by name, `rendered` and `final` the two videos with what is in them and
how whole they are. `Work` is the validate, synthesize, render and assemble commands, each of which may
reuse what it finds, fail, or die half-way; `HandleEvent` is what the orchestrator makes of the offsets and
durations it is told. `assemble` builds picture, narration and subtitles as `assemble_video.py`,
`subtitles.py` and `narration` do: offsets, leads, gaps, intro and caption track. Uploads of an intro are
normalized side by side, `register_new_version` reads the previous version and writes the next, and the
announcements reach `handleChannelAssetProjection` late, twice and in any order. Left out: more than one
kind and quality of asset, the clips themselves, change of voice, rounding to frames, background music
of the video, styling, thumbnails, failed asset lookups, and an ffmpeg thread that ends after its timeout. Saga events are
delivered once here (`SagaHandlers` has their redelivery). `MCOrchestrator` gives
the scripts, switches and uploads of the run. A script without a line, or with a line of no length, is refused
where the code refuses it (`ValidateScript`, `_validate`).

### StoryDesk

`row[d]` is the row of the idea, the brief or the story: fields with their author and input, the hash of what
it was written from, the status. `subject` (with the language), `kept` and `resolved` are what they are
written from. `Generate...` reads the inputs at one instant, `Write...` merges the reply with the fields the
Creator owns; replies may be unfit, or cite facts. A text is told apart by who wrote it, from what, and
whether the machine check takes it. Changing a fact's claim or type is taken as dropping it; the form of the
video is fixed and the project stays editable; the redo count and a review's rating are left out.

### ResearchDesk

A fact is its link, its quote, the marks of what the Creator wrote, and the state of its link. `Check` is a
worker of the source verifier: it has read a fact, looks at a page (the set of quotes it holds) and stores
what it found if the source is still the same. The queue and its four workers are a bag; `Restart` loses it
and queues again what was left running. `ParseResearchPaste`, `mergePasted`, `ApplyResearch` and the
questions' numbering are translated with the wording abstracted. The gate and the existing questions are
read at once; a save and its enqueue are one step; brief and idea are approved and constant.

### BeatLengths and BeatSheet

`BeatLengths` is `BalanceSeconds` and its helpers as operators over sequences of lengths, with exact
fractions where the code has floats. `BeatSheet` has every request on the sheet: the skeleton, generation
and redo, edits of text and length, approval, order. A wording is who wrote it. Suggestions for one beat,
which store nothing, are left out; the brief is taken as approved, so its length is one an approved brief may
have (`LengthsAssumption`, 60 seconds to half an hour).

### ScriptDesk

`beat` is the version of a beat's content, which changes below the dialogue; `script[b]` the row: lines,
next number, author marks, the version it was written from, status. `Generate` runs over a set of beats and
saves each as it is written; `Replace` over the lines that match. Inline suggestions are left out, and
reading a line aloud is `DraftVoice`.

### ScriptLock

`talk`, `note`, `review`, `glossary` and `versions` are the rows; `State` and `CanLock` decide as the code
does what is missing for a lock. A lock reads everything twice, once to decide and once to freeze;
`torn` remembers the versions whose two reads differed. The history variables say what was approved,
confirmed, reviewed and done, independently of the rows. Of the findings a machine makes, the model has one
of the review as a whole and one fault of a beat; the model's notes and reasons, and the brief, facts, story
and beats, are constant.

### Illustrations

`lib` is the library, `rows` a video's list, `status` what the orchestrator says of the video. A request is
the sequence of its reads, the call to a model or renderer, and its saves. `CreateExemplar` counts under
its lock; `MakeExemplar` has checked minutes before. `Restart` loses the set of rows being drawn. A tier or a
backdrop is the row it results in (`PlannedRow`, `SetTier`). Kit built-ins, folders, the storyboard's hash and
the seed are left out; `DrawMissing` is a loop over `Draw`, and like `Prepare`, `Gate` and `ForCode`, which
`project_illustrations.go:42` says hold back the code step, nothing outside the tests calls it.

### CodePipeline

`input` is the version a segment is written from, `store` its row, `task` what a chunk is at: being written,
split in halves after a reply cut off, checked, repaired, done, failed. `Frame`, `Works`, `Merge`,
`FinalCheck` are the phases of `run.py`; `Cut` is a cancelled request; a dead key or an empty balance stops
the run as `auth`. `EditInput` and `Paste` are the Creator's. The code that calls the pipeline and stores its
events is not in this commit: that an event is stored as it is emitted is external, from ADR-0030.
Extraction, provider retries and the palette fix happen inside a call; a repaired frame breaks no shot; a
shot gets at most one suggestion per check.

### VisualLanguages and LanguageSamples

A request reads the language it names and then writes in one transaction; `Activate` is two statements, since
the second sees what was committed after the first. The pin of a new project is read by a trigger and checked
by a foreign key at the end of the insert. `Restart` loses the requests and seeds the shipped language, from a
newer or an older build. `LanguageSamples` has two actors that rebuild the samples, one still at a time, and a
keeper that prunes: `Still` finds a file or draws it, `SaveLanguageSample` records it, `Deploy` ships a newer
kit, `PruneStills` is its two calls. It assumes that kits only go up and one is shipped at a time, that a
request ends within the day between two prunes, and, in the run, that a page does not rebuild while the keeper
prunes (`PageWhilePruning = FALSE`); with `TRUE` TLC finds a still deleted that is shown.

### ProjectSettings and ProjectRows

`ProjectSettings` is the row of one project: the settings in the groups the rules of `domain/wizard.go` have,
the versions of two formats, what the last commands carried (`asked`) and which version a script was
validated against (`checked`). A patch is allowed and stored in two calls. The run lets nothing in between
(`PatchOverlaps = FALSE`), takes the handlers of the saga as one step each, patches one field at a time, and
starts nothing over a step in flight.

`ProjectRows` is the rows of several projects in both services. A draft, a short or a fork is a sequence of
calls (`call` with the stages still to come, taken in their order), each of which may fail; the page posts again under the same id. A storyboard
stands for the story it was written from. The run lets no other request in between (`Overlaps = FALSE`),
starts only projects that are shown and neither in flight nor being deleted, and edits a copy once the fork
answered. `rows` here has no saga: a status is enough.

### Operations

`ops` is the registry of `operations.go`, each method under its lock; `calls` is how far the request of an id
is; `pages` is the state of the hooks `useOperationRun` and `useOperationProgress`: the id a page follows, the
one of its own request, what it saw last. `Restart` empties the registry and breaks the connections. The
run assumes that a Creator starts no call before a stop is answered (`Hasty = FALSE`) and lets a page sleep
through the ten minutes an ended entry is kept (`Sleepy = TRUE`). A load of the page's state is one step.

## What is checked

| run | bounds | distinct states | question |
|---|---|---|---|
| `RenderSaga_run` | 4 requests, 1 automatic retry | 277,520 | the project row and the step rows agree (`RowsAgree`: the status is that of the step in progress, a failed project has its failed step, earlier steps are done, only an assembled run is published), a project in flight has work outstanding (`NeverStranded`), late messages never wake a resting one (`OnlyRequestsWake`), the saga is a `Pipeline` (`ImplementsPipeline`) and comes to rest (`RunningSettles`) |
| `SagaHandlers_run` | 1 thread, 3 requests and faults together, 2 attempts | 1,022,348 | a step is dispatched once per request whatever is redelivered (`DispatchedOncePerRequest`), the calls amount to `RenderSaga` until something fails (`ImplementsRenderSaga`), no event loops for ever (`EventsSettle`) |
| `DeleteSaga_run` | 2 workers, 2 moves (DELETEs, renders, faults), 2 seconds | 174,800 | the row goes only when every worker purged for one delete (`GoneAfterPurges`); a delete whose commands were all sent ends (`DeleteSettles`) |
| `VideoFiles_run` | 4 moves; three scripts of one and two lines, one rewording, an intro or none, three uploads | 6,617,132 | a finished video plays as written (`PlaysAsWritten`: subtitles show what is said, lines follow one another to the end), the pointer ends at a newest version (`PointerIsNewest`) |
| `StoryDesk_run` | 2 threads, 3 requests, 2 changes | 1,497,148 | what reads as up to date is (`FreshIsOfInput`), what reads as approved was (`ApprovedWasApproved`), a fresh story cites no dropped fact (`FreshStoryCitesKept`) |
| `ResearchDesk_run` | 2 threads, 2 requests, 2 facts, 3 questions, 1 link, 1 quote, 1 restart | 429,015 | a link state is of the source of now (`LinkIsOfSource`); one request at a time, an approved table stands (`ApprovedTableStands`) and codes are never reused (`CodesNeverReused`) |
| `ScriptLock_run` | 2 threads, 4 requests, 1 beat, 2 wordings | 2,361,764 | a locked version was ready (`LockedWasReady`); fixed findings were fixed (`FixedWasDone`) |
| `CodePipeline_run` | 3 shots in 2 chunks, 2 calls at a time, 1 repair round, 2 runs, 1 edit | 469,714 | stored code is of its fingerprint (`CodeIsOfFingerprint`), no shot vanishes (`EveryShotAccounted`), a run ends (`RunEnds`) |
| `MCCalls` | *DraftVoice*: 2 lines, texts, voices, threads, requests; 1 edit, late line, cancel, fault. *Operations*: 2 calls, 2 pages, 2 visits, 1 restart | 2,149,320 | a ready line has a file of its wording (`ReadyFileIsOfWording`); none waits for a reading nobody brings (`NoLineStranded`); the registry runs what runs and tells the truth, a page follows its own call and shows what it stored (`OperationsTellTruth`) |
| `MCPictures` | *Illustrations*: 2 threads, 3 requests, 5 drawings, 3 rows, 2 exemplars, 1 restart. *VisualLanguages*: 2 languages, 2 requests at a time, 1 project, 3 versions. *LanguageSamples*: 2 samples, 1 page, 3 kits | 2,139,982 | exemplars stay within their number (`ExemplarsBounded`), approved code was approved (`ApprovedWasApproved`), a preview shows the code of its version (`PreviewIsOfCode`), a linked drawing is not deleted unseen (`LinkedStays`); one language is active, a pin can be read and stays, the shipped language has the build's text (`LanguagesStand`); no record claims a newer picture than there is, what is shown is there, at rest every sample is recorded (`SamplesStand`) |
| `MCProjects` | *ProjectSettings*: 2 formats, 2 scripts, 2 render and 2 merge settings. *ProjectRows*: 3 projects, 4 requests, 2 stories. *BeatSheet*: 1 thread, 5 requests, 3 beats, a 60 s target. *ScriptDesk*: 1 thread, 4 requests, 2 beats | 1,464,350 | a setting is not relabelled after use (`SettingsStand`), a pinned version is the validated one (`ValidatedAgainst`), what the wizard confirmed goes together (`ConfirmedFits`); settings are as chosen, companions were linked, music stays, a storyboard is of its story, no step back, a fork redoes the rest (`RowsStand`); lengths end in the target (`ContentRunFitsTarget`), approved beats and the Creator's parts stand (`RunsSpareTheCreators`); runs spare approved and hand-written dialogue (`SparedDialogueStands`), what is out of date reads so until written again (`StaleUntilRewritten`) |
| `ProjectSettings_retry` | the settings without the wizard | violated | a retried render carries the settings of now (`RetryReadsSettings`), as a comment says of it: TLC finds that it carries neither kit nor quality nor font, so a change made for the retry is not read. PROJECT.json quotes the line under "findings" |

**Bounds.** Each run's bound on requests (`MaxRequests`, `MaxMoves`, `MaxSpeaks`, `MaxRuns`) bounds every
counter and message with it. They are the fewest that reach the interesting case and then act on it:

- *RenderSaga*: four requests render, cancel, retry and start over, or review, edit, approve and publish.
  One automatic retry tells the budget from its exhaustion. `now` moves only from the second of the last
  cancel.
- *SagaHandlers*: a failed call and another, or a crash, on the redelivery, with two attempts, reach the
  giving up of an event.
- *DeleteSaga*: two DELETEs, a render and a DELETE, or a DELETE and a fault; three moves with one second pass
  the safety check too (5.2 million states).
- *Desks with two threads*: one request is overtaken by another and a third sees the result. With one thread,
  four or five requests in a row build, approve, edit and run again. Two quotes in *ResearchDesk* pass too
  (5.1 million).
- *ScriptLock*: every condition of a lock is per beat or on the whole script, so one beat has all of them;
  two wordings, one of them flagged by the machine, tell stale from fresh.
- *BeatSheet*: replies and edits of 1, 10, 25, 50 and 1000 seconds fall below, inside and above what a beat
  and the target allow.
- *CodePipeline*: three shots in chunks of two make one chunk that can be split and one that cannot.
- *VideoFiles*: a render, an edit or crash in it, a retry or a new run, and an upload.
- *VisualLanguages*: two requests at once are the most that meet on a row; the third version is the one after
  the one a project is pinned at. Projects meet only through the languages, so one is enough; two pass too.
- *ProjectRows*: a project, its short and a fork of either are three; the fourth request acts on the result.
  The ids `a`, `b` and `c` are symmetric: no definition names one or orders them.
- *Operations*: one call followed by its page and found by another, and the next call.

Symmetry is used in `MCCalls` (calls, pages) and `MCProjects` (projects, topics), which check no liveness: no
definition names or orders one of these. The runs switch the deadlock check off, since a system that has used up
its requests and rests is done.

**One thread.** `BeatSheet` and `ScriptDesk` run with one thread and some properties of `ResearchDesk` and
`Illustrations` speak of one request at a time (`orderly`). Their rows are saved whole from copies without
a version check: with two threads, a save writes over another, and the properties, being about what the
requests mean one after the other, do not hold. What the code does protect when requests overlap (link
states, exemplars, approvals, hashes, locks) is checked with two.

**Fairness.**

- `RenderSaga`: weak fairness of `Worker`, since a command nobody takes expires into the dead letter queue
  after 24 hours (`infra/rabbitmq/definitions.json`) and is failed from there, and of `Orchestrator`, which
  handles deliveries while it is up and is restarted when it is not.
- `SagaHandlers`: weak fairness of each thread's taking a delivery and of its going on.
- `DeleteSaga`: a request goes on, the relay polls, each worker goes on with what it holds and takes the next,
  the broker delivers.
- `CodePipeline`: a call to a model ends (timeouts) and an asyncio task that can go on does.

The Creator, the clock and faults owe nothing anywhere.

## What is proved

Every theorem holds for all values of the constants that satisfy the named assumptions of its module (bounds
are numbers, sets of wordings or names are not empty, a null value is not one of the others). The argument is
the same everywhere: an inductive invariant, one lemma per action that it is kept, and the property from it.
`TypeCorrect` is `TypeOK` in each.

**MCOrchestrator_proofs** has five parts. *The saga*, for every number of requests and every retry budget:

- `TypeCorrect`: with any environment. The automatic retries stay within their budget.
- `StatusMatches`, `StepsInOrder`, `RetryReopensFailedStep`, `OnlyAssembledIsPublished`, together
  `RowsStandTogether` (the run's `RowsAgree`), and `RestingStays`: assuming `~StartWhileRunning` and
  `~StaleDeadLetters`; with `HumanPace` also
- `NobodyStranded` and `RetriesRun`.
- `Implements`: under the first two assumptions every behaviour is one of `Pipeline`. `InitMaps` and one lemma
  per action map each step to a step of the pipeline or a stutter.

The first six follow from `RowInv`, the conjunction of the invariants with two facts: sagas not yet begun
have no steps, and under review nothing after validation is begun. Without the first a new saga could find a
step in progress, without the second Approve could open a step after a later one. The proof goes by three
lemmas on a *quiet* step, one that may be opened or closed because nothing else is in progress and nothing
after it is begun: the running step is quiet, the failed step is, and after a quiet step is completed the next
is. Opening or failing a quiet step keeps `RowInv`, and every handler is one of the two.

`NobodyStranded` and `RetriesRun` follow from `MessageInv`: while a project is not failed the clock is past
the last cancel, so whatever a handler sends is newer than it. A cancel leaves the project failed, and
`HumanPace` makes the only two ways out of there, a retry and a new start, wait.

`PrefixStands` is what follows: the promise of `Pipeline`, that a stage runs on exactly the results before it,
is proved from the actions of `Pipeline` alone, and the saga inherits it by `Implements`.

*The delete*, for any workers, serial or not, and any number of deletes, renders and faults:
`RowsGoAfterPurges`, with no assumption. `PurgesAreTrue` says that whatever claims a purge claims one that
happened, per saga: the worker that did it, its answer, the completed step, and the answer whose handler found
every step completed and is about to delete the row. That last claim survives since `purged` only grows.

*The handlers*, any number of requests, faults and attempts, with one thread as in the run:
`DispatchedOnceAlways`. A step is paid for by a request when the request opens it or a step before it; the
invariant (`Paid`) is that for every step the commands sent, the steps before it that are in progress, and the
one dispatch the calls to come still owe (`Due`) are together no more than the requests. A handler completes
one step before it owes the next, its calls owe a step once (`Fits`, `Leads`), and a redelivery finds
the step completed. With two threads the property is false: two deliveries read the step in progress and both
dispatch.

*The uploads*: `PointerIsNewestAlways`, any number of them. No version is newer than the pointer but one whose
announcement nobody handled yet (`Announced`), since a version is registered together with its announcement and
`UpsertChannelAssetPointer` never goes back.

*The video*: `PlaysAsWrittenAlways`, for scripts, settings and uploads of any number and length, assuming that there
are some and that lengths are whole numbers (`ProducedAssumption`). `PlayKept` follows the words through the
saga. The row's scenes are all silent, or each has the reading of its own words; a command to speak and its
answer, of the current saga, have the row's words (`CommandOf`, `EventOf`), and those of an older saga change
nothing in the row. What is sent to be assembled has narration and cues of the same lines at the same moments,
each with its file in the folder (`Playable`), and a video cut from that plays (`CutPlays`): moments rise
(`SegmentsRise`), and the picture outlasts the last line (`OutlastsLines`). The folder only grows, and a file
says what its name says (`AudioKept`), so what was playable when it was sent still is when it is cut, however
often the folder is reused. `Follows` says which rows may follow a row; every handler is one such step.
`LengthsKept` is what the proof needs of the intro: a pointer always has a length. The loops over lines are
recursive functions, treated as in `MCProjects_proofs` (`Iterated`, `UpTo`).

**SagaHandlers_proofs** carries the handlers over to the saga, for any number of requests, automatic retries and
attempts, with one thread: `ImplementsRenderSagaAlways`, that every step of `SagaHandlers` before the first
fault is a step of `RenderSaga` or none. A handler counts as done once it knows all the calls it will make:
what those will have stored (`Through`) is what `RenderSaga` sees (`Done`), and a success event it has not yet
decided on is still waiting, its step in progress (`UndecidedIs`). The invariant, `Smooth`, says that the
messages are numbered as their commands and those gone were sent (`MessagesKept`), that what will be stored fits
together (`DoneKept`), and of the thread (`JobFits`) that its message is still there, that an event it decides on
has its step completed, that what is dead is what it has in hand, and that a cancel is never sent but as its
next call, so the clock cannot move under it. `CallsRun` and `FirstStored` unroll a list of calls one by one, and
for each handler what its calls store is computed (`OpeningStored`, `FailingStored`, `RendersNext`,
`ValidatedNext`) and compared with the action (`CreatorSeen`, `WorkerSeen`, `DeliverySeen`, `DecideSeen`); `Call`
and `Finish` change nothing `RenderSaga` sees (`CallSeen`, `FinishSeen`). A fault is counted and promises
nothing after it: a handler cut off half way is no action of `RenderSaga`, as the next section says.

**MCCalls_proofs** has two parts. *Draft voice*, for any lines, wordings, voices and overlapping requests: `ReadyInItsWording`, from the
fact that a file in an answer was read from the wording the answer gives (`FilesAreOfAnswer`), and
`NobodyWaitsInVain`, from `PendingAsked` (a line that waits to be claimed has its request) and `RunningSent`
(a claimed one has the command of that very claim, its answer, or a cancel that threw it away).

*Long calls*, for any calls and pages: `RegistryTellsTruth` with no assumption (what the registry runs is what
runs, what it says of an ended call is so and stays, a page that settles shows what its run stored), and
`OperationsTellTruthAlways` with `~Hasty`, which adds that a page follows its own call. `StoredOK` ties the
registry to the row: who asked for a stop was heard before anything was stored, or too late.

**MCDesks_proofs** has two parts. *Research*: `LinkStands`, however checks, edits, pastes and restarts overlap: a link state names
the source it was found for (`Linked`), of every row stored and every row about to be saved. `TableStands`
and `CodesStay`, for requests one at a time (`orderly`): a request that may have changed the table sends an
approved gate back before it ends (`Mends`), any other leaves the table as approved (`Keeps`), and one that
writes questions has numbers above every one ever given (`Counts`). Overlapping requests do break these two,
which is why the properties speak of `orderly`.

*Story*, for any number of overlapping requests: `FreshIsFresh`, `ApprovedStands`,
`FreshStoryStands`. `RowOK` says of a row that what the model wrote in it is from the input the row records
(`Sound`) and that an approved row passed the check as it reads (`Stands`); the invariant says it of the rows
stored and of the rows requests are about to save, and of a copy held during a call to the model only its
shape, since the answer replaces whatever the Creator does not own and is recorded with its own input.

**ScriptLock_proofs**, for any number of overlapping requests: `LockedStands` and `FixedStands`. `JobOK` says
what may still be said of the rows a request read minutes ago: a note was vouched for in the dialogue whose
hash it holds (`NoteOK`), what a review decided as fixed was done (`ReviewPast`), and a lock in its second
half saw everything ready (`SeenReady`). A lock whose two reads differ is excluded by the property (`torn`).

**MCPictures_proofs** has three parts. *Drawings*, for any number of overlapping requests: `ExemplarsStand`, `ApprovedStands`,
`LinksStay`, and with one request at a time `PreviewStands`. `LibOK` and `RowsOK` say that ids are given once
and links and sources exist, `Blessed` that an approved drawing was approved as it is, `CallOK` the same of
the drawings requests are about to save: an edit in flight may save an approved drawing only with code that
was approved. `Orderly` and `FreshCall` say that while requests come one at a time what one read is what is
there.

*Languages*, for any number of overlapping requests, projects and restarts: `LanguagesStandAlways`. A pin that
was read names a version that was stored, of a language that may be gone by now (`ReadPinOK`); the foreign key
refuses it then, so a stored pin never does (`PinsOK`); versions are only added (`VersionsKept`), so what it
stands for stays. *Samples*, any number of samples, pages and kits: `RecordsStand` with no assumption (a rebuild
was promised no newer kit than it draws with), and `SamplesStandAlways` with `~PageWhilePruning`: while the
keeper prunes it holds the list of what is shown (`StillsInv`), which a page rebuilding meanwhile would outdate.

**CodePipeline_proofs**, for any number of shots, chunk size, calls at a time and repair rounds: `CodeStands` and
`ShotsAccounted`. The invariant has a part for the rows (`RowOK`), one for the tasks in flight (`TaskOK`: what
a chunk has written, given up and has still to ask for is all its shots, `Accounts`, however answers are cut
off and split), one for the merge (`MergedOK`: of a segment the run has merged nothing, or what is stored) and
one for the final check (`FinalOK`: its script is the one the segments hold, since only sections under repair
change and their segments are stored again). `LeftHalves` says that splitting a group loses no shot, `OwnerIs`
that a shot has one segment.

**MCProjects_proofs** has four parts, each about the specification of its module, which the run starts side by
side with the others.

- *Settings*, one patch at a time (`~PatchOverlaps`): `SettingsReadAsUsed`, `PinnedVersionStands`,
  `ConfirmedTogether`. `PatchOK` says that a patch on its way was allowed by the row as it still is, and
  `IsStored` that the version a script was checked against is one of its format, with the content it had;
  versions are appended only, so it stays so.
- *Dialogue*: `DialogueTypeCorrect` for any number of threads, `DialogueSpared` and
  `DialogueStaleUntilRewritten` for one (`Threads = {t}`). With one, what a request holds is the row
  there is, so its save changes what the request means to change and nothing else.
- *Rows*, one request at a time (`~Overlaps`), for any number of projects and topics, any call failing:
  `RowsStandAlways`. `RowsBase` is what stands in the rows whatever is under way; `CallShape` and `CallStands`
  say of a create or a fork what is left to do and that what it has read is still so. A fork must have the
  storyboard still to copy when it copies the story (`CallShape`), or a copy would show a storyboard beside
  another story where it breaks off; `CopyStands` is what each stage leaves of a copy, and `FlowFits` that
  this stands no further than the chosen step.
- *Sheet*: `SheetTypeCorrect` and `ContentAlwaysFits` for any number of overlapping requests, any sheet, any
  replies and any length a brief may ask for, `SheetSpared` for one thread. `GoodSheets` says that keys are
  given once and that no length is zero, without which the scaling would divide by zero; `Follows` what a
  request leaves of the beats it read. Under it stands `Balances`, about `BalanceSeconds`: the fixed lengths
  stay, and the total it returns is inside the target. The first loop ends at the upper end or below; the
  second moves lengths up from there and looks at the lower end only, so `GrownKeeps` shows that it passes the
  lower end by less than a step, and a target a tenth either side of a minute is wider than a step. Nothing in the argument depends on how the scaled lengths are rounded. Sums and loops are
  recursive functions: that one exists (`Iterated`) and what it keeps (`UpTo`) is induction over the numbers,
  done with sets of numbers that have a least element (`Least`, from `WellFoundedInduction`).

`~PatchOverlaps`, `~Overlaps`, `~Hasty`, `~PageWhilePruning` and the single threads are those of the runs:
without them the properties fail, as the next section says.

**Only model-checked**: liveness under fairness (`RunningSettles`, `EventsSettle`, `DeleteSettles`, `RunEnds`).
The prover has no liveness under fairness and no `ENABLED`. Whatever else a run checks is also a theorem,
under the assumptions named above.

## Known and not checked

The models reach these; each disagrees with a comment, or is a race the code leaves open. No property
excludes them, and where a checked property would, its comment says so.

- *Stranded after a failed call.* A success event completes its step in a transaction of its own; if a later
  call fails, the redelivery is skipped because the step is completed, and the project stays in flight
  (`handle_step_event.go:426`, against `consumer.go:34`). `NeverStranded` of `SagaHandlers` states it.
- *Handlers that overlap.* A cancel between two calls of a handler is written over (`cancel_step.go:30`);
  two approvals at once both dispatch (`review_outline.go:48`).
- *Lost updates.* Notes the Creator adds during a review are lost with its save (`script_lock_ai.go:156`,
  against `script_review.go:525`); the same with whole-row saves of the sheet, the script and the glossary.
  Line numbers are used again after a rewrite (`script_writer.go:210`, against `script.go:35`).
- *Voice.* After a change of voice a late answer makes a line ready in the new voice with the old file
  (`voice_line_repository.go:81`, against `voice_lines.go:96`).
- *Files after a purge.* A worker that takes several commands at once may write after it purged
  (`delete_project.go:23`).
- *Files of earlier runs.* A render or assembly reports what lies under its name, an older run's or a part
  of one (`render_script.py:42`, `assemble_video.py:40`); a reading cut short by a killed transcode is taken
  as whole; a failed transcode overwrites the file of a channel asset; a retried render is sent without the
  kit, quality and font of the first (`retry_step.go:144`).
- *Captions.* With an intro the caption track is shifted by it although the lead-in already has it, and
  `SubtitlesAreSaid` leaves that track out; the caption file is written under one name and looked for under
  another.
- *Two versions.* Two uploads normalized at once register the same version, both active.
- *Samples.* A still that a page's rebuild records while the keeper prunes is deleted
  (`PageWhilePruning = TRUE` of `LanguageSamples` violates `SamplesStand`).
- *Settings.* A step that begins between a patch's check and its write has read the old value
  (`PatchOverlaps = TRUE` of `ProjectSettings` violates `SettingsStand`); after a failed validation, another
  format is looked for at the old one's version and the default taken; the start of a render writes the row
  from its request over what the wizard stored.
- *Project rows.* A short made for a video saves the video's row from a copy, over a setting changed meanwhile,
  and a fork that reads story and storyboard in two calls may copy two that disagree (`Overlaps = TRUE` of
  `ProjectRows` violates `RowsStand`). A start that names no companion unlinks one
  side only; a fork stores the topic in one service and not in the other; a fork from step 2 stands at the
  brief, which it did not copy.
- *Long calls.* After a restart a page that follows a call it found polls for ever; a stopped call ends as
  failed when its connection closes before the stop arrives, and when it had stored its result, that is not
  loaded; the answer of a stop drops the progress of the call begun since (`Hasty = TRUE` of `Operations`
  violates `OperationsTellTruth`).
- *Publisher.* An upload that times out is tried again and may be there twice (`youtube_publisher.py:54`).
- *Hashes after the reply.* The story and beat hashes stored with a reply are read after it came.

## What is not modelled

- `parse_script` and `qc_video`: names and statuses remain, nothing dispatches them.
- Archetypes and prompt templates, and the export and import of illustrations: rows that one request reads or
  replaces whole, and texts.
- The HTTP routers, except the guards that the use cases rely on.
- `api-gateway` (a proxy; server-sent events nothing depends on) and `web-gui` but for the hooks in
  `Operations` (its requests are the Creator's actions of every module).
- The inside of the model providers and of the publisher: a call or a command has any of the outcomes its
  caller distinguishes.
- Wording, layout, timing of progress messages, and other projects.

## The plan

1. Saga, handlers, delete, draft voice, files, the desks, the pipeline, languages, settings, project rows and
   long calls modelled and checked; the proofs above: done.
2. Open: nothing of the plan. What is left out is listed above; the races under *Known and not checked* stand
   until the code closes them.
