------------------------------ MODULE DraftVoice ------------------------------
(***************************************************************************)
(* Reading script lines aloud outside a render.  authoring-service keeps   *)
(* one row per line (script_writer.go Speak, voice_lines.go), the          *)
(* orchestrator claims the waiting rows and sends them to tts in one       *)
(* command (draft_voice.go), tts reads each line (synthesize_lines.py) and *)
(* the answer comes back through the orchestrator's event consumer.  The   *)
(* Creator may reword a line, change the voice or cancel a render of the   *)
(* project while lines are being read.                                     *)
(***************************************************************************)
EXTENDS Integers, FiniteSets

CONSTANTS
    Lines,
    Texts,         \* wordings a line may have
    Voices,        \* voices the project may have
    Threads,       \* requests to listen that are served at one time
    MaxSpeaks,     \* bound: requests to listen
    MaxChanges,    \* bound: lines reworded and voices changed
    MaxLates,      \* bound: readings that stay unanswered for voiceRetryAfter
    MaxCancels,    \* bound: cancels of a render of the project
    MaxFaults      \* bound: failed calls, undelivered and redelivered messages

ASSUME SetsAssumption ==
    Lines # {} /\ Texts # {} /\ Voices # {} /\ IsFiniteSet(Lines) /\ IsFiniteSet(Threads)
ASSUME BoundsAssumption ==
    {MaxSpeaks, MaxChanges, MaxLates, MaxCancels, MaxFaults} \subseteq Nat

VARIABLES
    text,      \* line |-> its wording in the stored script
    voice,     \* the voice of the project
    row,       \* line |-> its row in voice_lines, NoRow before the first request
    speak,     \* thread |-> the request to listen it serves
    commands,  \* synthesize_lines commands tts has not answered
    answers,   \* answers of tts the orchestrator has not acked
    sent,      \* commands sent so far
    used,      \* how much of each bound is used
    dropped    \* history: the requests whose command a cancel threw away

vars == <<text, voice, row, speak, commands, answers, sent, used, dropped>>

-----------------------------------------------------------------------------
NoRow == [status |-> "none"]
NoFile == [read |-> FALSE]

Statuses == {"pending", "running", "ready", "failed"}
Waiting == {"pending", "running"}

\* What a file was read from.
Reading == [text : Texts, voice : Voices]
Row == [text : Texts, voice : Voices, status : Statuses, file : Reading \cup {NoFile},
        late : BOOLEAN, ask : Nat]

Idle == [at |-> "idle"]

Bounds == {"speaks", "changes", "lates", "cancels", "faults"}
Bound(b) == CASE b = "speaks" -> MaxSpeaks [] b = "changes" -> MaxChanges
              [] b = "lates" -> MaxLates [] b = "cancels" -> MaxCancels
              [] b = "faults" -> MaxFaults
Use(b) == used[b] < Bound(b) /\ used' = [used EXCEPT ![b] = @ + 1]

\* The row was asked for in the wording and voice given.
audioIsCurrent(r, words, v) == r # NoRow /\ r.text = words /\ r.voice = v

Init ==
    /\ text = [l \in Lines |-> CHOOSE words \in Texts : TRUE]
    /\ voice = CHOOSE v \in Voices : TRUE
    /\ row = [l \in Lines |-> NoRow]
    /\ speak = [t \in Threads |-> Idle]
    /\ commands = {} /\ answers = {} /\ sent = 0
    /\ used = [b \in Bounds |-> 0]
    /\ dropped = {}

-----------------------------------------------------------------------------
(* The Creator and the clock.                                              *)

Reword(l) ==
    /\ Use("changes")
    /\ \E words \in Texts \ {text[l]} : text' = [text EXCEPT ![l] = words]
    /\ UNCHANGED <<voice, row, speak, commands, answers, sent, dropped>>

ChangeVoice ==
    /\ Use("changes")
    /\ voice' \in Voices \ {voice}
    /\ UNCHANGED <<text, row, speak, commands, answers, sent, dropped>>

\* A reading has been without an answer for voiceRetryAfter.
TimePasses(l) ==
    /\ Use("lates")
    /\ row[l].status = "running" /\ ~row[l].late
    /\ row' = [row EXCEPT ![l].late = TRUE]
    /\ UNCHANGED <<text, voice, speak, commands, answers, sent, dropped>>

\* A cancel of a render of the project reaches tts, whose registry of cancels
\* knows projects, not sagas: every command sent before it is cancelled.
Cancel ==
    /\ Use("cancels")
    /\ commands' = {[c EXCEPT !.cancelled = TRUE] : c \in commands}
    /\ UNCHANGED <<text, voice, row, speak, answers, sent, dropped>>

-----------------------------------------------------------------------------
(* authoring-service: Speak.  The script, the voice and the rows are read  *)
(* first; then every line asked for is written in a statement of its own.  *)

\* A line that has its file, or was sent a moment ago, is left alone.
AlreadyRead(l) ==
    /\ audioIsCurrent(row[l], text[l], voice)
    /\ row[l].status = "ready" \/ (row[l].status = "running" /\ ~row[l].late)

Speak(t, lines) ==
    /\ speak[t] = Idle
    /\ Use("speaks")
    /\ LET todo == {l \in lines : ~AlreadyRead(l)}
       IN  speak' = [speak EXCEPT ![t] =
                        IF todo = {} THEN Idle
                        ELSE [at |-> "asking", todo |-> todo, asked |-> {},
                              text |-> text, voice |-> voice]]
    /\ UNCHANGED <<text, voice, row, commands, answers, sent, dropped>>

\* A request that has written one more of its lines.
Asked(request, l) ==
    [at |-> IF request.todo = {l} THEN "claiming" ELSE "asking",
     todo |-> request.todo \ {l}, asked |-> request.asked \cup {l},
     text |-> request.text, voice |-> request.voice]

RequestVoiceLine(t) ==
    /\ speak[t].at = "asking"
    /\ \E l \in speak[t].todo :
          /\ row' = [row EXCEPT ![l] =
                        [text |-> speak[t].text[l], voice |-> speak[t].voice,
                         status |-> "pending", file |-> NoFile, late |-> FALSE,
                         ask |-> IF @ = NoRow THEN 0 ELSE @.ask + 1]]
          /\ speak' = [speak EXCEPT ![t] = Asked(@, l)]
    /\ UNCHANGED <<text, voice, commands, answers, sent, used, dropped>>

\* FailVoiceLines of the given lines.
Failed(lines) ==
    [l \in Lines |-> IF l \in lines /\ row[l] # NoRow
                     THEN [row[l] EXCEPT !.status = "failed"] ELSE row[l]]

\* FailAll: the lines sent and not answered, of whatever command.
Running == {l \in Lines : row[l].status = "running"}

-----------------------------------------------------------------------------
(* orchestrator: Dispatch, called by Speak.                                *)

\* A claimed row; one that was late counts as asked again.
Claimed(l) ==
    [row[l] EXCEPT !.status = "running", !.late = FALSE,
                   !.ask = IF row[l].late THEN @ + 1 ELSE @]

\* Every line that waits, whoever asked for it, and every late one.
Claimable ==
    {l \in Lines : row[l].status = "pending" \/ (row[l].status = "running" /\ row[l].late)}

ClaimVoiceLines(t) ==
    /\ speak[t].at = "claiming"
    /\ row' = [l \in Lines |-> IF l \in Claimable THEN Claimed(l) ELSE row[l]]
    /\ speak' = [speak EXCEPT ![t] =
                    IF Claimable = {} THEN Idle
                    ELSE [at |-> "sending", asked |-> speak[t].asked,
                          lines |-> [l \in Claimable |->
                             [text |-> row[l].text, voice |-> row[l].voice,
                              ask |-> Claimed(l).ask]]]]
    /\ UNCHANGED <<text, voice, commands, answers, sent, used, dropped>>

\* Mutant: only the lines of this request are put into the command.
SentOnlyAsked(t) == [l \in DOMAIN speak[t].lines \cap speak[t].asked |-> speak[t].lines[l]]

SentLines(t) == speak[t].lines

PublishCommand(t) ==
    /\ speak[t].at = "sending"
    /\ commands' = commands \cup {[id |-> sent + 1, lines |-> SentLines(t), cancelled |-> FALSE]}
    /\ sent' = sent + 1
    /\ speak' = [speak EXCEPT ![t] = Idle]
    /\ UNCHANGED <<text, voice, row, answers, used, dropped>>

\* The claim fails before it reached the rows: Speak marks its lines failed.
ClaimFails(t) ==
    /\ speak[t].at = "claiming" /\ Use("faults")
    /\ row' = Failed(speak[t].asked)
    /\ speak' = [speak EXCEPT ![t] = Idle]
    /\ UNCHANGED <<text, voice, commands, answers, sent, dropped>>

\* The command cannot be queued: the orchestrator has every running line failed
\* and Speak marks its own.
PublishFails(t) ==
    /\ speak[t].at = "sending" /\ Use("faults")
    /\ row' = Failed(Running)
    /\ speak' = [speak EXCEPT ![t].at = "failing"]
    /\ UNCHANGED <<text, voice, commands, answers, sent, dropped>>

SpeakFails(t) ==
    /\ speak[t].at = "failing"
    /\ row' = Failed(speak[t].asked)
    /\ speak' = [speak EXCEPT ![t] = Idle]
    /\ UNCHANGED <<text, voice, commands, answers, sent, used, dropped>>

-----------------------------------------------------------------------------
(* tts: SynthesizeLinesCommandHandler.  Each line has a file or a reason   *)
(* of its own; only an unexpected failure answers for the whole command.   *)
(* The inbox lets a command be answered once.                              *)

Answer(c) ==
    /\ ~c.cancelled
    /\ commands' = commands \ {c}
    /\ \/ \E unread \in SUBSET DOMAIN c.lines :
             answers' = answers \cup
                {[id |-> c.id, read |-> TRUE,
                  lines |-> [l \in DOMAIN c.lines |->
                     [text |-> c.lines[l].text, ask |-> c.lines[l].ask,
                      file |-> IF l \in unread THEN NoFile
                               ELSE [text |-> c.lines[l].text, voice |-> c.lines[l].voice]]]]}
       \/ answers' = answers \cup {[id |-> c.id, read |-> FALSE, lines |-> c.lines]}
    /\ UNCHANGED <<text, voice, row, speak, sent, used, dropped>>

\* A cancelled command is acked and dropped; one cancelled while it is read
\* stops, and its answer is dropped by CancelAwareOutbox.
DropCancelled(c) ==
    /\ c.cancelled
    /\ commands' = commands \ {c}
    /\ dropped' = dropped \cup {<<l, c.lines[l].ask>> : l \in DOMAIN c.lines}
    /\ UNCHANGED <<text, voice, row, speak, answers, sent, used>>

\* No worker takes the command up: its dead letter has the running lines failed.
FailUndelivered(c) ==
    /\ Use("faults")
    /\ commands' = commands \ {c}
    /\ row' = Failed(Running)
    /\ UNCHANGED <<text, voice, speak, answers, sent, dropped>>

-----------------------------------------------------------------------------
(* orchestrator: HandleEvent, and authoring-service: SaveVoiceResults.     *)

\* Mutant: the result is stored whatever wording the line has by now.
AcceptedOfAnyWording(r, result) == r # NoRow

\* A result is for the row while the row has the wording it was sent with.
Accepted(r, result) == r # NoRow /\ r.text = result.text

Saved(e) ==
    [l \in Lines |->
        IF l \in DOMAIN e.lines /\ Accepted(row[l], e.lines[l])
        THEN [row[l] EXCEPT !.file = e.lines[l].file,
                            !.status = IF e.lines[l].file = NoFile THEN "failed" ELSE "ready"]
        ELSE row[l]]

HandleEvent(e) ==
    /\ row' = IF e.read THEN Saved(e) ELSE Failed(Running)
    /\ \/ answers' = answers \ {e} /\ UNCHANGED used
       \/ answers' = answers /\ Use("faults")      \* not marked, delivered again
    /\ UNCHANGED <<text, voice, speak, commands, sent, dropped>>

\* The answer could not be handed on maxEventAttempts times.
GiveUp(e) ==
    /\ Use("faults")
    /\ row' = Failed(Running)
    /\ answers' = answers \ {e}
    /\ UNCHANGED <<text, voice, speak, commands, sent, dropped>>

-----------------------------------------------------------------------------
Serve(t) ==
    \/ RequestVoiceLine(t) \/ ClaimVoiceLines(t) \/ PublishCommand(t)
    \/ ClaimFails(t) \/ PublishFails(t) \/ SpeakFails(t)

Tts == \E c \in commands : Answer(c) \/ DropCancelled(c) \/ FailUndelivered(c)

Consume == \E e \in answers : HandleEvent(e) \/ GiveUp(e)

Next ==
    \/ ChangeVoice \/ Cancel
    \/ \E l \in Lines : Reword(l) \/ TimePasses(l)
    \/ \E t \in Threads : Serve(t) \/ \E lines \in (SUBSET Lines) \ {{}} : Speak(t, lines)
    \/ Tts \/ Consume

Spec == Init /\ [][Next]_vars

-----------------------------------------------------------------------------
\* What a command says of a line, and what an answer does.
SentLine == [text : Texts, voice : Voices, ask : Nat]
ReadLine == [text : Texts, ask : Nat, file : Reading \cup {NoFile}]

\* Requests, commands and answers of some lines.
Asking == [at : {"asking", "claiming"}, todo : SUBSET Lines, asked : SUBSET Lines,
           text : [Lines -> Texts], voice : Voices]
Speaking(lines) ==
    {Idle} \cup Asking
    \cup [at : {"sending", "failing"}, asked : SUBSET Lines, lines : [lines -> SentLine]]
Command(lines) == [id : Nat, lines : [lines -> SentLine], cancelled : BOOLEAN]
AnswerOf(lines) ==
    [id : Nat, read : {TRUE}, lines : [lines -> ReadLine]]
    \cup [id : Nat, read : {FALSE}, lines : [lines -> SentLine]]

\* Rows, requests, commands and answers have the shape of their tables and
\* messages.
TypeOK ==
    /\ text \in [Lines -> Texts] /\ voice \in Voices
    /\ row \in [Lines -> Row \cup {NoRow}]
    /\ speak = [t \in Threads |-> speak[t]]
    /\ \A t \in Threads : \E lines \in SUBSET Lines : speak[t] \in Speaking(lines)
    /\ \A c \in commands : \E lines \in SUBSET Lines : c \in Command(lines)
    /\ \A e \in answers : \E lines \in SUBSET Lines : e \in AnswerOf(lines)
    /\ sent \in Nat
    /\ used \in [Bounds -> Nat] /\ \A b \in Bounds : used[b] <= Bound(b)
    /\ dropped \subseteq Lines \X Nat

\* A line reads as ready in wording it was reworded to only with a file of that
\* wording, though answers of older readings keep arriving (SaveVoiceResults,
\* Speak).
ReadyFileIsOfWording ==
    \A l \in Lines : row[l] # NoRow /\ row[l].status = "ready" => row[l].file.text = row[l].text

\* The request that made the row wait, or the command or answer that reads it.
Outstanding(l) ==
    \/ \E t \in Threads :
          \/ speak[t].at = "asking" /\ l \in speak[t].asked
          \/ speak[t].at = "claiming"
          \/ speak[t].at = "sending" /\ l \in DOMAIN speak[t].lines
          \/ speak[t].at = "failing" /\ l \in speak[t].asked
    \/ \E m \in commands \cup answers : l \in DOMAIN m.lines /\ m.lines[l].text = row[l].text

ThrownAway(l) == <<l, row[l].ask>> \in dropped

\* Nothing but a cancel leaves a line waiting for a reading that nobody will
\* bring: one that is pending or running has the request, the command or the
\* answer for its wording under way (Speak, Dispatch, ClaimVoiceLines,
\* FailVoiceLines).
NoLineStranded ==
    \A l \in Lines : row[l].status \in Waiting => Outstanding(l) \/ ThrownAway(l)
=============================================================================
