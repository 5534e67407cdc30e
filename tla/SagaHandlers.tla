---------------------------- MODULE SagaHandlers ----------------------------
(***************************************************************************)
(* RenderSaga with every handler and endpoint split into its calls: each   *)
(* call to the repository or the outbox is a transaction of its own, every *)
(* delivery and every request runs on a goroutine of its own, a call may   *)
(* fail and the orchestrator may crash between two calls.  Save writes the *)
(* whole projects row from the copy its goroutine has read.                *)
(***************************************************************************)
EXTENDS Naturals, FiniteSets, SagaSteps, Sequences

CONSTANTS
    Threads,           \* goroutines that may be at work at one time
    MaxMoves,          \* bound: requests of the Creator, crashes and failed calls
    SynthesisRetries,  \* len(synthesisAutoRetryBackoff)
    maxEventAttempts

ThreadsAssumption == IsFiniteSet(Threads) /\ Threads # {}
CountsAssumption ==
    /\ MaxMoves \in Nat
    /\ SynthesisRetries \in Nat /\ maxEventAttempts \in Nat \ {0}

VARIABLES
    shared,    \* the projects row, the saga_steps rows, the outbox, the last cancel
    disposed,  \* ids of the commands the workers are done with
    dead,      \* ids of the messages in the dead letter queues
    events,    \* events not acknowledged yet, with their failed attempts
    tries,     \* synthesisRetries, in memory
    job,       \* thread |-> what it is doing
    sagas,     \* saga ids generated so far
    now,       \* the clock, in seconds
    requests,
    faults

vars == <<shared, disposed, dead, events, tries, job, sagas, now, requests, faults>>

Sagas == 1 .. MaxMoves

NoStamp == 0

project == shared.project

Outstanding == {c \in shared.outbox : c.id \notin disposed}

-----------------------------------------------------------------------------
(* The calls, and what each does in its transaction.                       *)

UpdateStep(g, s, to) == [op |-> "UpdateStep", saga |-> g, step |-> s, to |-> to]

UpdateStatus(to) == [op |-> "UpdateStatus", to |-> to]

Save(p) == [op |-> "Save", project |-> p]

PublishCommand(g, s, text, stamp) ==
    [op |-> "PublishCommand", saga |-> g, step |-> s, script |-> text, stamp |-> stamp]

PublishCancel(at) == [op |-> "PublishCancel", at |-> at]

Do(d, c) ==
    CASE c.op = "UpdateStep"     -> [d EXCEPT !.step[c.saga][c.step] = c.to]
      [] c.op = "UpdateStatus"   -> [d EXCEPT !.project.status = c.to]
      [] c.op = "Save"           -> [d EXCEPT !.project = c.project]
      [] c.op = "PublishCommand" ->
            [d EXCEPT !.outbox = @ \cup
                {[id |-> Cardinality(@) + 1, saga |-> c.saga, step |-> c.step,
                  script |-> c.script, stamp |-> c.stamp]}]
      [] c.op = "PublishCancel"  ->
            [d EXCEPT !.cancel = [second |-> c.at, sent |-> Cardinality(d.outbox)]]

-----------------------------------------------------------------------------
(* The calls a handler makes, from the row p it has read.                  *)

Opening(g, s, p) ==
    <<UpdateStep(g, s, "in_progress"), PublishCommand(g, s, p.script, now),
      UpdateStatus(stepInProgressStatus[s])>>

Failing(g, s) ==
    <<UpdateStep(g, s, "failed"), UpdateStatus(FailedStatusForStep[s])>>

startRenderScenes(g, p) ==
    {Opening(g, "render_scenes", p),
     <<UpdateStep(g, "render_scenes", "in_progress")>> \o Failing(g, "render_scenes")}

AfterValidation(g, p) ==
    IF p.config.tts
    THEN {Opening(g, "synthesize_speech", p)}
    ELSE {<<Save(p), UpdateStep(g, "synthesize_speech", "completed")>> \o rest :
              rest \in startRenderScenes(g, p)}

\* Mutant: the row is saved once more after its status was moved.
onScriptValidatedSavedLast(e, p) ==
    LET read == [p EXCEPT !.outline = e.script]
    IN  {<<Save(read)>> \o Failing(e.saga, "validate_script")}
        \cup {<<Save(read)>> \o rest \o <<Save(read)>> :
                 rest \in IF p.config.review THEN {<<UpdateStatus("awaiting_review")>>}
                                             ELSE AfterValidation(e.saga, read)}

onScriptValidated(e, p) ==
    LET read == [p EXCEPT !.outline = e.script]
    IN  {<<Save(read)>> \o Failing(e.saga, "validate_script")}
        \cup {<<Save(read), Save(read)>> \o rest :
                 rest \in IF p.config.review THEN {<<UpdateStatus("awaiting_review")>>}
                                             ELSE AfterValidation(e.saga, read)}

onSpeechSynthesized(e, p) ==
    {Failing(e.saga, "render_scenes")}
    \cup {<<Save(p)>> \o rest : rest \in startRenderScenes(e.saga, p)}

onRenderingCompleted(e, p) ==
    {Failing(e.saga, "render_scenes"),
     <<Save(p)>> \o Opening(e.saga, "assemble_video", p)}

\* What a success event goes on to, once its step is completed and p is read.
handleSuccess(e, p) ==
    CASE e.step = "validate_script"   -> onScriptValidated(e, p)
      [] e.step = "synthesize_speech" -> onSpeechSynthesized(e, p)
      [] e.step = "render_scenes"     -> onRenderingCompleted(e, p)
      [] e.step = "assemble_video"    -> {<<Save(p), UpdateStatus("ready_to_publish")>>}
      [] e.step = "publish_video"     -> {<<Save(p), UpdateStatus("published")>>}

-----------------------------------------------------------------------------
NoMessage == [id |-> 0]

\* What a thread is doing: for whom, for which message, the calls it has still
\* to make, and whether it reads the row after them to decide on more.
Idle == [for |-> "nobody", msg |-> NoMessage, todo |-> <<>>, deciding |-> FALSE]

Init ==
    /\ shared = [project |-> [status |-> "draft", saga |-> 0, script |-> 0, outline |-> 0,
                              config |-> [review |-> TRUE, tts |-> TRUE]],
                 step    |-> [g \in Sagas |-> [s \in Steps |-> "none"]],
                 outbox  |-> {},
                 cancel  |-> [second |-> NoStamp, sent |-> 0]]
    /\ disposed = {} /\ dead = {} /\ events = {}
    /\ tries = [g \in Sagas |-> 0]
    /\ job = [t \in Threads |-> Idle]
    /\ sagas = 0 /\ now = 1 /\ requests = 0 /\ faults = 0

Works(t, who, msg, calls, deciding) ==
    /\ job[t] = Idle
    /\ job' = [job EXCEPT ![t] = [for |-> who, msg |-> msg, todo |-> calls,
                                  deciding |-> deciding]]

-----------------------------------------------------------------------------
(* Requests: the row is read, the status looked at, and the calls follow.  *)

Request(t, calls) ==
    /\ requests + faults < MaxMoves
    /\ requests' = requests + 1
    /\ Works(t, "request", NoMessage, calls, FALSE)
    /\ UNCHANGED <<shared, disposed, dead, events, now, faults>>

Paced == now > shared.cancel.second

StartRender(t) ==
    /\ Paced /\ project.status \notin InFlight
    /\ sagas' = sagas + 1
    /\ \E config \in [review : BOOLEAN, tts : BOOLEAN] :
          LET p == [status |-> "draft", saga |-> sagas + 1, script |-> project.script + 1,
                    outline |-> 0, config |-> config]
          IN  Request(t, <<Save(p)>> \o Opening(p.saga, "validate_script", p))
    /\ UNCHANGED tries

StartPublish(t) ==
    /\ project.status = "ready_to_publish"
    /\ sagas' = sagas + 1
    /\ LET p == [project EXCEPT !.saga = sagas + 1]
       IN  Request(t, <<Save(p)>> \o Opening(p.saga, "publish_video", p))
    /\ UNCHANGED tries

RetryStep(t, s) ==
    /\ Paced /\ project.status = FailedStatusForStep[s]
    /\ Request(t, Opening(project.saga, s, project))
    /\ tries' = IF s = "synthesize_speech" THEN [tries EXCEPT ![project.saga] = 0]
                                           ELSE tries
    /\ UNCHANGED sagas

CancelStep(t, s) ==
    /\ s \in Cancellable /\ project.status = stepInProgressStatus[s]
    /\ Request(t, <<PublishCancel(now)>> \o Failing(project.saga, s))
    /\ UNCHANGED <<tries, sagas>>

Approve(t) ==
    /\ project.status = "awaiting_review"
    /\ \E calls \in AfterValidation(project.saga, project) : Request(t, calls)
    /\ tries' = IF project.config.tts THEN [tries EXCEPT ![project.saga] = 0] ELSE tries
    /\ UNCHANGED sagas

EditNarration(t) ==
    /\ project.status = "awaiting_review"
    /\ LET p == [project EXCEPT !.script = @ + 1]
       IN  Request(t, <<Save(p), UpdateStep(p.saga, "validate_script", "in_progress"),
                        UpdateStatus("validating_script"),
                        PublishCommand(p.saga, "validate_script", p.script, NoStamp)>>)
    /\ UNCHANGED <<tries, sagas>>

Reject(t) ==
    /\ project.status = "awaiting_review"
    /\ Request(t, <<UpdateStatus("draft")>>)
    /\ UNCHANGED <<tries, sagas>>

-----------------------------------------------------------------------------
(* Workers, as in RenderSaga.                                              *)

IsCancelled(c) == c.stamp # NoStamp /\ c.stamp <= shared.cancel.second

Held(m) == \E t \in Threads : job[t].msg = m

InQueue(m) == ~Held(m) /\ m.id \notin dead

Answer(c) ==
    /\ InQueue(c)
    /\ disposed' = disposed \cup {c.id}
    /\ \E k \in IF c.step = "synthesize_speech" THEN {"ok", "failed", "engine_failure"}
                                                ELSE {"ok", "failed"} :
          events' = events \cup {[id |-> c.id, saga |-> c.saga, step |-> c.step,
                                  script |-> c.script, kind |-> k, attempts |-> 0]}
    /\ UNCHANGED <<shared, dead, tries, job, sagas, now, requests, faults>>

DropCancelled(c) ==
    /\ InQueue(c)
    /\ c.step # "publish_video" /\ IsCancelled(c)
    /\ disposed' = disposed \cup {c.id}
    /\ UNCHANGED <<shared, dead, events, tries, job, sagas, now, requests, faults>>

-----------------------------------------------------------------------------
(* Deliveries.                                                             *)

\* Mutant: only an event for a failed step is dropped.
CurrentUnlessFailed(m) == shared.step[m.saga][m.step] # "failed"

Current(m) == shared.step[m.saga][m.step] = "in_progress"

Delivered(t, m, calls, deciding) ==
    /\ InQueue(m)
    /\ Works(t, "event", m, calls, deciding)
    /\ UNCHANGED <<shared, disposed, dead, events, sagas, now, requests, faults>>

\* A message is dead-lettered while its step is in progress (RenderSaga has the
\* other case), and from then on only its dead letter is delivered.
DeadLetter(t, who, m) ==
    /\ Current(m) \/ m.id \in dead
    /\ ~Held(m)
    /\ dead' = dead \cup {m.id}
    /\ Works(t, who, m, Failing(m.saga, m.step), FALSE)
    /\ UNCHANGED <<shared, disposed, events, tries, sagas, now, requests, faults>>

handleDLQDelivery(t, c) == DeadLetter(t, "dead_letter", c)

handleEventsDLQDelivery(t, e) == DeadLetter(t, "expired", e)

\* Mutant: an event nobody waits for is an error, and returned to its queue.
SkipWithError(t, e) ==
    /\ InQueue(e) /\ job[t] = Idle
    /\ ~Current(e)
    /\ events' = (events \ {e}) \cup {[e EXCEPT !.attempts = (@ + 1) % maxEventAttempts]}
    /\ UNCHANGED <<shared, disposed, dead, tries, job, sagas, now, requests, faults>>

SkipEvent(t, e) ==
    /\ InQueue(e) /\ job[t] = Idle
    /\ ~Current(e)
    /\ events' = events \ {e}
    /\ UNCHANGED <<shared, disposed, dead, tries, job, sagas, now, requests, faults>>

handleFailure(t, e) ==
    /\ Current(e)
    /\ \/ e.kind = "failed" /\ UNCHANGED tries
       \/ /\ e.kind = "engine_failure" /\ tries[e.saga] >= SynthesisRetries
          /\ tries' = [tries EXCEPT ![e.saga] = 0]
    /\ Delivered(t, e, Failing(e.saga, e.step), FALSE)

\* The wait comes before the one call: what it sends, it reads only then, and no
\* property depends on it.
retryTransientSynthesisFailure(t, e) ==
    /\ Current(e)
    /\ e.kind = "engine_failure" /\ tries[e.saga] < SynthesisRetries
    /\ tries' = [tries EXCEPT ![e.saga] = @ + 1]
    /\ Delivered(t, e,
                 <<PublishCommand(e.saga, e.step, project.script, now)>>, FALSE)

CompleteStep(t, e) ==
    /\ Current(e) /\ e.kind = "ok"
    /\ Delivered(t, e, <<UpdateStep(e.saga, e.step, "completed")>>, TRUE)
    /\ UNCHANGED tries

-----------------------------------------------------------------------------
(* A thread at work.                                                       *)

Call(t) ==
    /\ job[t].todo # <<>>
    /\ shared' = Do(shared, Head(job[t].todo))
    /\ job' = [job EXCEPT ![t].todo = Tail(@)]
    /\ UNCHANGED <<disposed, dead, events, tries, sagas, now, requests, faults>>

Dispatches(calls, s) ==
    \E i \in DOMAIN calls : calls[i].op = "PublishCommand" /\ calls[i].step = s

\* The row is read, and the rest of the handler's calls follow from it.  Synthesis
\* that is dispatched, or done, has its budget of automatic retries again.
Decide(t) ==
    LET e == job[t].msg IN
    /\ job[t].deciding /\ job[t].todo = <<>>
    /\ \E calls \in handleSuccess(e, project) :
          /\ job' = [job EXCEPT ![t].todo = calls, ![t].deciding = FALSE]
          /\ tries' = IF e.step = "synthesize_speech" \/ Dispatches(calls, "synthesize_speech")
                      THEN [tries EXCEPT ![e.saga] = 0] ELSE tries
    /\ UNCHANGED <<shared, disposed, dead, events, sagas, now, requests, faults>>

\* The message is marked in the inbox and acknowledged, the request answered.
Finish(t) ==
    /\ job[t].for # "nobody" /\ ~job[t].deciding /\ job[t].todo = <<>>
    /\ job' = [job EXCEPT ![t] = Idle]
    /\ events' = events \ {job[t].msg}
    /\ disposed' = IF job[t].for = "dead_letter" THEN disposed \cup {job[t].msg.id}
                                                 ELSE disposed
    /\ UNCHANGED <<shared, dead, tries, sagas, now, requests, faults>>

Fault == requests + faults < MaxMoves /\ faults' = faults + 1

\* A call returns an error, the progress message or the acknowledgement at the end
\* included.  A request is over; a message goes back to its queue, unless it is an
\* event that has failed too often, whose step is failed.
CallFails(t) ==
    LET e == job[t].msg IN
    /\ Fault /\ job[t] # Idle
    /\ IF job[t].for = "event"
       THEN /\ events' = (events \ {e}) \cup {[e EXCEPT !.attempts = @ + 1]}
            /\ IF e.attempts + 1 >= maxEventAttempts
               THEN job' = [job EXCEPT ![t] =
                               [for |-> "expired", msg |-> [e EXCEPT !.attempts = @ + 1],
                                todo |-> Failing(e.saga, e.step), deciding |-> FALSE]]
               ELSE job' = [job EXCEPT ![t] = Idle]
       ELSE job' = [job EXCEPT ![t] = Idle] /\ UNCHANGED events
    /\ UNCHANGED <<shared, disposed, dead, tries, sagas, now, requests>>

\* What was in memory is gone, and what was not acknowledged comes again.
Crash ==
    /\ Fault
    /\ job' = [t \in Threads |-> Idle]
    /\ tries' = [g \in Sagas |-> 0]
    /\ events' = {[e EXCEPT !.attempts = 0] : e \in events}
    /\ UNCHANGED <<shared, disposed, dead, sagas, now, requests>>

AtRest == \A t \in Threads : job[t] = Idle

\* A handler takes well under a second.
Tick ==
    /\ now = shared.cancel.second /\ AtRest
    /\ now' = now + 1
    /\ UNCHANGED <<shared, disposed, dead, events, tries, job, sagas, requests, faults>>

-----------------------------------------------------------------------------
Creator(t) ==
    \/ StartRender(t) \/ StartPublish(t) \/ Approve(t) \/ EditNarration(t) \/ Reject(t)
    \/ \E s \in Steps : RetryStep(t, s) \/ CancelStep(t, s)

Worker == \E c \in Outstanding : Answer(c) \/ DropCancelled(c)

Delivery(t) ==
    \/ \E c \in Outstanding : handleDLQDelivery(t, c)
    \/ \E e \in events :
          \/ SkipEvent(t, e) \/ handleEventsDLQDelivery(t, e)
          \/ handleFailure(t, e) \/ retryTransientSynthesisFailure(t, e)
          \/ CompleteStep(t, e)

AtWork(t) == Call(t) \/ Decide(t) \/ Finish(t)

Next ==
    \/ \E t \in Threads : Creator(t) \/ Delivery(t) \/ AtWork(t) \/ CallFails(t)
    \/ Worker \/ Crash \/ Tick

Spec == Init /\ [][Next]_vars

\* Deliveries are handled, and handlers run on, for as long as the orchestrator is
\* up; it is restarted after a crash.
Fairness == \A t \in Threads : WF_vars(Delivery(t)) /\ WF_vars(AtWork(t))

-----------------------------------------------------------------------------
Calls ==
    [op : {"UpdateStep"}, saga : Sagas, step : Steps, to : StepStatuses]
    \cup [op : {"UpdateStatus"}, to : Statuses]
    \cup [op : {"Save"}, project : [status : Statuses, saga : 0 .. sagas, script : Nat,
                                   outline : Nat, config : [review : BOOLEAN, tts : BOOLEAN]]]
    \cup [op : {"PublishCommand"}, saga : Sagas, step : Steps, script : Nat, stamp : Nat]
    \cup [op : {"PublishCancel"}, at : Nat]

TypeOK ==
    /\ project.status \in Statuses /\ project.saga \in 0 .. sagas
    /\ sagas \in 0 .. requests
    /\ shared.step \in [Sagas -> [Steps -> StepStatuses]]
    /\ \A m \in shared.outbox \cup events : m.saga \in 1 .. sagas /\ m.step \in Steps
    /\ disposed \cup dead \subseteq {c.id : c \in shared.outbox}
    /\ \A e \in events : e.id \in disposed /\ e.attempts \in Nat
    /\ tries \in [Sagas -> 0 .. SynthesisRetries]
    /\ \A t \in Threads :
          /\ \A i \in DOMAIN job[t].todo : job[t].todo[i] \in Calls
          /\ job[t].for \in {"event", "expired"} => job[t].msg \in events
          /\ job[t].for = "dead_letter" => job[t].msg \in Outstanding
    /\ faults \in 0 .. MaxMoves

\* However often a delivery is repeated and wherever a handler breaks off, a step
\* of a saga is dispatched at most once for each request of the Creator: the status
\* of the step makes every event count once.  Only synthesis, which is retried by a
\* count in memory that a crash forgets, may be sent again without being asked.
DispatchedOncePerRequest ==
    \A g \in Sagas, s \in Steps :
        \/ s = "synthesize_speech" /\ SynthesisRetries > 0
        \/ Cardinality({c \in shared.outbox : c.saga = g /\ c.step = s}) <= requests

\* No event is redelivered for ever: the queue is drained again and again, every
\* event being handled, dropped because nothing will ever come of it, or given up
\* (handle_step_event.go, Execute, on the redelivery loop that was once seen).
EventsSettle == []<>(events = {})

\* A project in flight has a command or an event outstanding, or a handler at
\* work, that will bring it on; a handler that breaks off is retried, and a few
\* short retries cover what made it break off (amqp/consumer.go,
\* maxEventAttempts).
NeverStranded ==
    project.status \in InFlight /\ AtRest => events # {} \/ Outstanding # {}

-----------------------------------------------------------------------------
(* One thread, until the first fault: RenderSaga.                          *)

Thread == CHOOSE t \in Threads : TRUE

\* What is stored once the calls are made as well.
Through(d, calls) ==
    LET stored[i \in 0 .. Len(calls)] ==
            IF i = 0 THEN d ELSE Do(stored[i - 1], calls[i])
    IN  stored[Len(calls)]

\* A handler happens, for RenderSaga, once it knows what calls it will make: from
\* then on all of them are done, and before that none.
Undecided == job[Thread].deciding

Done ==
    IF Undecided
    THEN [shared EXCEPT !.step[job[Thread].msg.saga][job[Thread].msg.step] = "in_progress"]
    ELSE Through(shared, job[Thread].todo)

Heard == {e \in events : e = job[Thread].msg /\ ~Undecided}

Gone == disposed \cup (IF job[Thread].for = "dead_letter" THEN {job[Thread].msg.id} ELSE {})

Saga == INSTANCE RenderSaga WITH
    MaxRequests <- MaxMoves, HumanPace <- TRUE, StartWhileRunning <- FALSE, StaleDeadLetters <- FALSE,
    status <- Done.project.status, saga <- Done.project.saga,
    config <- Done.project.config, script <- Done.project.script,
    outline <- Done.project.outline, step <- Done.step, cancel <- Done.cancel,
    cmds <- {c \in Done.outbox : c.id \notin Gone},
    events <- {[id |-> e.id, saga |-> e.saga, step |-> e.step, script |-> e.script,
                kind |-> e.kind] : e \in events \ Heard},
    sent <- Cardinality(Done.outbox)

\* As long as handlers do not overlap and nothing has failed yet, what they do call
\* by call amounts to the actions of RenderSaga, whatever workers answer in between.
ImplementsRenderSaga ==
    /\ Saga!Init
    /\ [][faults' = 0 => Saga!Next]_(Saga!vars)
=============================================================================
