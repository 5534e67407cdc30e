------------------------------ MODULE DeleteSaga ------------------------------
(***************************************************************************)
(* Deleting a project (orchestrator, delete_project.go, handlePurgeEvent,  *)
(* the outbox and its relay; purge.py and cancellation.py of the workers). *)
(* The row is marked, every owner of files is told to remove its own, and  *)
(* the row goes when all have answered.  Each call is a transaction of its *)
(* own, events are handled concurrently, workers and orchestrator restart. *)
(* The render saga (RenderSaga) is here one command to one worker, which a *)
(* Start sends and a Cancel ends.  Owners of one prefetch take one command *)
(* at a time; dispatchers look at the cancels before every command and     *)
(* dead-letter one whose transaction fails, the others do neither.         *)
(***************************************************************************)
EXTENDS Integers, Sequences, FiniteSets

CONSTANTS
    PurgeTargets,   \* the workers that own files of a project
    Serial,         \* those that take one command at a time
    Dispatchers,    \* those whose dispatcher drops cancelled commands
    MaxMoves,       \* bound: DELETEs, renders started and faults, taken together
    MaxNow          \* bound: the clock, in seconds

TargetsAssumption ==
    IsFiniteSet(PurgeTargets) /\ Serial \cup Dispatchers \subseteq PurgeTargets
BoundsAssumption == {MaxMoves, MaxNow} \subseteq Nat

VARIABLES
    project,    \* the projects row: its status, "gone" without one, its saga id, and
                \* the number of ids generated
    step,       \* saga |-> worker |-> the status of its purge step
    request,    \* the DELETE being served
    outbox,     \* the commands of the project not marked as published
    published,  \* the command the relay has sent and not marked, NoCommand if none
    queue,      \* worker |-> the commands waiting for it
    held,       \* worker |-> the commands it is at, with how far it has got
    inbox,      \* worker |-> ids of the commands it has answered
    files,      \* worker |-> it has files of the project
    cutoff,     \* worker |-> the second of the last cancel it heard, in memory
    events,     \* answers not acknowledged yet, with how far their handler has got
    now,
    sent,       \* number of commands so far
    moves,
    purged,     \* history: saga |-> workers that removed their files for it
    broken      \* history: a purge command was lost since the last DELETE

bounds == <<now, moves>>
worker == <<queue, held, inbox, files, cutoff>>
vars == <<project, step, request, outbox, published, worker, events, bounds, sent, purged, broken>>

Sagas == 1 .. MaxMoves

NoRequest == [saga |-> 0, todo |-> {}, stepped |-> {}]

NoCommand == [id |-> 0]

IsInFlight == project.status = "rendering"

Init ==
    /\ project = [status |-> "draft", saga |-> 0, sagas |-> 0]
    /\ step = [g \in Sagas |-> [w \in PurgeTargets |-> "none"]]
    /\ request = NoRequest
    /\ outbox = {} /\ published = NoCommand
    /\ queue = [w \in PurgeTargets |-> <<>>]
    /\ held = [w \in PurgeTargets |-> {}]
    /\ inbox = [w \in PurgeTargets |-> {}]
    /\ files = [w \in PurgeTargets |-> FALSE]
    /\ cutoff = [w \in PurgeTargets |-> 0]
    /\ events = {}
    /\ now = 1 /\ moves = 0 /\ sent = 0
    /\ purged = [g \in Sagas |-> {}] /\ broken = FALSE

Moves == moves < MaxMoves /\ moves' = moves + 1

PublishCommand(kind, w, g) ==
    /\ outbox' = outbox \cup {[id |-> sent + 1, kind |-> kind, to |-> w, saga |-> g, at |-> now]}
    /\ sent' = sent + 1

Tick ==
    /\ now < MaxNow /\ now' = now + 1
    /\ UNCHANGED <<project, step, request, outbox, published, worker, events, moves, sent, purged, broken>>

-----------------------------------------------------------------------------
(* The render saga, as far as it meets a delete.                           *)

\* Start takes any project whose step is not running.
StartRender(w) ==
    /\ Moves
    /\ project.status # "gone" /\ ~IsInFlight
    /\ project' = [status |-> "rendering", saga |-> project.sagas + 1, sagas |-> project.sagas + 1]
    /\ PublishCommand("work", w, project'.saga)
    /\ UNCHANGED <<step, request, published, worker, events, now, purged, broken>>

\* The step fails and the cancel goes to every worker at once.
Cancel ==
    /\ IsInFlight
    /\ project' = [project EXCEPT !.status = "failed"]
    /\ cutoff' = [w \in PurgeTargets |-> now]
    /\ UNCHANGED <<step, request, outbox, published, queue, held, inbox, files, events, bounds,
                   sent, purged, broken>>

-----------------------------------------------------------------------------
(* DELETE: BeginDelete, then per worker the step and the command.          *)

BeginDelete ==
    /\ request = NoRequest /\ Moves
    /\ project.status # "gone" /\ ~IsInFlight
    /\ LET fresh == IF project.saga = 0 THEN project.sagas + 1 ELSE project.saga
       IN  /\ project' = [status |-> "deleting", saga |-> fresh,
                          sagas |-> IF fresh > project.sagas THEN fresh ELSE project.sagas]
           /\ request' = [saga |-> fresh, todo |-> PurgeTargets, stepped |-> {}]
    /\ broken' = FALSE
    /\ UNCHANGED <<step, outbox, published, worker, events, now, sent, purged>>

\* The workers are taken in an order that does not change.
UpdatePurgeStep ==
    /\ request.todo # {} /\ request.stepped = {}
    /\ LET w == CHOOSE x \in request.todo : TRUE
       IN  /\ step' = [step EXCEPT ![request.saga][w] = "in_progress"]
           /\ request' = [request EXCEPT !.stepped = {w}]
    /\ UNCHANGED <<project, outbox, published, worker, events, bounds, sent, purged, broken>>

PublishPurge ==
    \E w \in request.stepped :
        /\ PublishCommand("purge", w, request.saga)
        /\ request' = IF request.todo = {w} THEN NoRequest
                      ELSE [request EXCEPT !.todo = @ \ {w}, !.stepped = {}]
        /\ UNCHANGED <<project, step, published, worker, events, bounds, purged, broken>>

-----------------------------------------------------------------------------
(* The relay: a command is sent, then marked.                              *)

Publish(c) ==
    /\ published = NoCommand /\ c \in outbox
    /\ \A d \in outbox : c.id <= d.id
    /\ queue' = [queue EXCEPT ![c.to] = Append(@, c)]
    /\ published' = c
    /\ UNCHANGED <<project, step, request, outbox, held, inbox, files, cutoff, events, bounds,
                   sent, purged, broken>>

MarkPublished ==
    /\ published # NoCommand
    /\ outbox' = outbox \ {published} /\ published' = NoCommand
    /\ UNCHANGED <<project, step, request, worker, events, bounds, sent, purged, broken>>

-----------------------------------------------------------------------------
(* The workers.                                                            *)

Cancelled(w, c) == c.at <= cutoff[w]

Answered(w, c) == c.id \in inbox[w]

Take(w) ==
    /\ queue[w] # <<>> /\ (w \in Serial => held[w] = {})
    /\ LET c == Head(queue[w])
           cancelled == Cancelled(w, c) /\ (w \in Dispatchers \/ c.kind = "work")
       IN  /\ queue' = [queue EXCEPT ![w] = Tail(@)]
           /\ held' = IF cancelled \/ Answered(w, c) THEN held
                      ELSE [held EXCEPT ![w] = @ \cup {[cmd |-> c, at |-> "begun"]}]
           /\ broken' = (broken \/ (c.kind = "purge" /\ cancelled))
    /\ UNCHANGED <<project, step, request, outbox, published, inbox, files, cutoff, events,
                   bounds, sent, purged>>

Get(w, h, at) == held' = [held EXCEPT ![w] = (@ \ {h}) \cup {[h EXCEPT !.at = at]}]

\* The files are removed, or some cannot be.
Purge(w) ==
    \E h \in held[w] :
        /\ h.cmd.kind = "purge" /\ h.at = "begun"
        /\ \/ /\ Get(w, h, "purged")
              /\ files' = [files EXCEPT ![w] = FALSE]
              /\ purged' = [purged EXCEPT ![h.cmd.saga] = @ \cup {w}]
           \/ /\ Get(w, h, "unable")
              /\ UNCHANGED <<files, purged>>
        /\ UNCHANGED <<project, step, request, outbox, published, queue, inbox, cutoff, events,
                       bounds, sent, broken>>

\* The answer and the mark are one transaction; the relay of the worker passes
\* the answer on.
Answer(w) ==
    \E h \in held[w] :
        /\ h.cmd.kind = "purge" /\ h.at \in {"purged", "unable"}
        /\ held' = [held EXCEPT ![w] = @ \ {h}]
        /\ inbox' = [inbox EXCEPT ![w] = @ \cup {h.cmd.id}]
        /\ events' = IF h.cmd.id \in inbox[w] THEN events
                     ELSE events \cup {[id |-> h.cmd.id, from |-> w, saga |-> h.cmd.saga,
                                        ok |-> h.at = "purged", at |-> "new"]}
        /\ UNCHANGED <<project, step, request, outbox, published, queue, files, cutoff, bounds,
                       sent, purged, broken>>

\* A file of the step is written; a cancel is seen only before the next one.
Write(w) ==
    \E h \in held[w] :
        /\ h.cmd.kind = "work" /\ h.at = "begun"
        /\ files' = [files EXCEPT ![w] = TRUE]
        /\ Get(w, h, "written")
        /\ UNCHANGED <<project, step, request, outbox, published, queue, inbox, cutoff, events,
                       bounds, sent, purged, broken>>

\* The step is done and the saga waits for the Creator, or it was cancelled and
\* no one is told.
EndWork(w) ==
    \E h \in held[w] :
        /\ h.cmd.kind = "work" /\ (h.at = "written" \/ Cancelled(w, h.cmd))
        /\ held' = [held EXCEPT ![w] = @ \ {h}]
        /\ inbox' = [inbox EXCEPT ![w] = @ \cup {h.cmd.id}]
        /\ project' = IF ~Cancelled(w, h.cmd) /\ IsInFlight /\ project.saga = h.cmd.saga
                      THEN [project EXCEPT !.status = "ready"] ELSE project
        /\ UNCHANGED <<step, request, outbox, published, queue, files, cutoff, events, bounds,
                       sent, purged, broken>>

-----------------------------------------------------------------------------
(* The answers: the step is completed, all steps are looked at, the rows   *)
(* go.                                                                     *)

Reached(e, at) == events' = (events \ {e}) \cup {[e EXCEPT !.at = at]}

Acked(e) == events' = events \ {e}

SetStep(e, status) == step' = [step EXCEPT ![e.saga][e.from] = status]

PurgeFailed(e) == SetStep(e, "failed") /\ Acked(e)

\* Mutant: the steps are looked at before the worker's own is written.
CheckedFirst(e) ==
    /\ e.at = "new"
    /\ SetStep(e, IF e.ok THEN "completed" ELSE "failed")
    /\ IF \A w \in PurgeTargets : step[e.saga][w] = "completed"
       THEN Reached(e, "deleting") ELSE Acked(e)
    /\ UNCHANGED <<project, request, outbox, published, worker, bounds, sent, purged, broken>>

RecordAnswer(e) ==
    /\ e.at = "new"
    /\ IF e.ok THEN SetStep(e, "completed") /\ Reached(e, "recorded") ELSE PurgeFailed(e)
    /\ UNCHANGED <<project, request, outbox, published, worker, bounds, sent, purged, broken>>

\* Mutant: the worker's own step is not looked at with the others.
SomeCompleted(g) == \E w \in PurgeTargets : step[g][w] = "completed"

AllCompleted(g) == \A w \in PurgeTargets : step[g][w] = "completed"

\* A step without a row: the project went with another answer.
CheckSteps(e) ==
    /\ e.at = "recorded"
    /\ IF AllCompleted(e.saga) THEN Reached(e, "deleting") ELSE Acked(e)
    /\ UNCHANGED <<project, step, request, outbox, published, worker, bounds, sent, purged, broken>>

\* Delete: the row, the steps of its saga and its commands, unless a step runs;
\* then the answer is tried again until its attempts are used up.
Delete(e) ==
    /\ e.at = "deleting"
    /\ \/ /\ project.status = "gone" /\ Acked(e)
          /\ UNCHANGED <<project, step, outbox>>
       \/ /\ IsInFlight /\ (Acked(e) \/ Reached(e, "new"))
          /\ UNCHANGED <<project, step, outbox>>
       \/ /\ project.status # "gone" /\ ~IsInFlight /\ Acked(e)
          /\ project' = [project EXCEPT !.status = "gone"]
          /\ step' = [step EXCEPT ![project.saga] = [w \in PurgeTargets |-> "none"]]
          /\ outbox' = {}
    /\ UNCHANGED <<request, published, worker, bounds, sent, purged, broken>>

HandlePurgeEvent(e) == RecordAnswer(e) \/ CheckSteps(e) \/ Delete(e)

-----------------------------------------------------------------------------
(* What goes wrong.                                                        *)

\* The transaction of a dispatcher's command fails and the command dead-letters:
\* the orchestrator writes a step of no worker and a status of no step.
DeadLetter(w) ==
    /\ Moves /\ w \in Dispatchers
    /\ \E h \in held[w] :
          /\ h.cmd.kind = "purge"
          /\ held' = [held EXCEPT ![w] = @ \ {h}]
    /\ project' = IF project.status = "gone" THEN project ELSE [project EXCEPT !.status = ""]
    /\ broken' = TRUE
    /\ UNCHANGED <<step, request, outbox, published, queue, inbox, files, cutoff, events, now,
                   sent, purged>>

\* What the worker held is delivered again, first; the cancels are forgotten.
RestartWorker(w) ==
    /\ Moves
    /\ held' = [held EXCEPT ![w] = {}]
    /\ \E back \in [1 .. Cardinality(held[w]) -> {h.cmd : h \in held[w]}] :
          /\ \A i, j \in DOMAIN back : i < j => back[i].id < back[j].id
          /\ queue' = [queue EXCEPT ![w] = back \o @]
    /\ cutoff' = [cutoff EXCEPT ![w] = 0]
    /\ UNCHANGED <<project, step, request, outbox, published, inbox, files, events, now, sent,
                   purged, broken>>

\* The request is not taken up again, the relay sends what it had not marked, the
\* answers are delivered again.
RestartOrchestrator ==
    /\ Moves
    /\ request' = NoRequest /\ broken' = (broken \/ request # NoRequest)
    /\ published' = NoCommand
    /\ events' = {[e EXCEPT !.at = "new"] : e \in events}
    /\ UNCHANGED <<project, step, outbox, worker, now, sent, purged>>

Execute == UpdatePurgeStep \/ PublishPurge

Relay == MarkPublished \/ \E c \in outbox : Publish(c)

Work(w) == Take(w) \/ Purge(w) \/ Answer(w) \/ Write(w) \/ EndWork(w)

Next ==
    \/ Tick \/ Cancel \/ BeginDelete \/ Execute \/ Relay \/ RestartOrchestrator
    \/ \E w \in PurgeTargets : StartRender(w) \/ Work(w) \/ DeadLetter(w) \/ RestartWorker(w)
    \/ \E e \in events : HandlePurgeEvent(e)

Spec == Init /\ [][Next]_vars

\* A request goes on, the relay polls, a worker goes on with what it holds and
\* takes the next, the broker delivers every answer.
Fairness ==
    /\ WF_vars(Execute) /\ WF_vars(Relay)
    /\ \A w \in PurgeTargets :
          WF_vars(Take(w)) /\ WF_vars(Purge(w) \/ Answer(w)) /\ WF_vars(Write(w) \/ EndWork(w))
    /\ WF_vars(\E e \in events : HandlePurgeEvent(e))

-----------------------------------------------------------------------------
Statuses == {"draft", "rendering", "failed", "ready", "deleting", "", "gone"}

\* Rows and messages have their shape; a worker of one prefetch holds one command,
\* and no command is held twice (set_qos, MessageID).
TypeOK ==
    /\ project.status \in Statuses /\ project.saga \in 0 .. project.sagas
    /\ project.sagas <= MaxMoves
    /\ step \in [Sagas -> [PurgeTargets -> {"none", "in_progress", "completed", "failed"}]]
    /\ request.todo \subseteq PurgeTargets /\ request.stepped \subseteq request.todo
    /\ \A c \in outbox : c.id \in 1 .. sent /\ c.to \in PurgeTargets
    /\ \A w \in Serial : Cardinality(held[w]) <= 1
    /\ \A w \in PurgeTargets : \A h \in held[w] : h.cmd.to = w
    /\ \A e \in events : e.id \in inbox[e.from] /\ e.saga \in Sagas

\* The row goes only when every worker has removed its files for one and the same
\* delete: an answer of another delete, an answer given twice, one that is late or
\* a restart between two calls does not remove it early (handlePurgeEvent,
\* BeginDelete).
GoneAfterPurges ==
    [][project.status # "gone" /\ project'.status = "gone"
           => \E g \in Sagas : purged[g] = PurgeTargets]_vars

\* A delete comes to an end the Creator sees: the project goes, a worker says why
\* not, a new render or DELETE takes over; unless one of its commands was dropped
\* or dead-lettered or its request did not get to send them all (Execute, the
\* relay, handlePurgeEvent).
DeleteSettles ==
    project.status = "deleting" /\ request = NoRequest
        ~> \/ project.status # "deleting" \/ request # NoRequest \/ broken
           \/ \E w \in PurgeTargets : step[project.saga][w] = "failed"

=============================================================================
