---------------------------- MODULE MCCalls_proofs ----------------------------
(***************************************************************************)
(* Theorems about DraftVoice, for any number of lines, wordings, voices    *)
(* and requests, and about Operations, for any number of calls and pages   *)
(* and any bounds, with their proofs; and that a run of the two side by    *)
(* side is a behaviour of each.                                            *)
(***************************************************************************)
EXTENDS MCCalls, FiniteSetTheorems, TLAPS, WellFoundedInduction

-----------------------------------------------------------------------------
(* The invariants.                                                         *)

\* A row that waits to be claimed has its request under way.
PendingAsked ==
    \A l \in Lines : row[l].status = "pending" =>
        \E t \in Threads : speak[t].at \in {"asking", "claiming"} /\ l \in speak[t].asked

\* This command line asks for the reading the row waits for.
Matches(line, r) == line.text = r.text /\ line.ask = r.ask

\* A row that was claimed has the command of that very claim, its answer or a
\* cancel that threw it away.
AsksFor(lines, l) == l \in DOMAIN lines /\ Matches(lines[l], row[l])
Sent(l) ==
    \/ \E t \in Threads : speak[t].at = "sending" /\ AsksFor(speak[t].lines, l)
    \/ \E m \in commands \cup answers : AsksFor(m.lines, l)
    \/ ThrownAway(l)
RunningSent == \A l \in Lines : row[l].status = "running" => Sent(l)

\* A file in an answer was read from the wording the answer gives.
FilesAreOfAnswer ==
    \A e \in answers : e.read =>
        \A l \in DOMAIN e.lines :
            e.lines[l].file # NoFile => e.lines[l].file.text = e.lines[l].text

Wording == FilesAreOfAnswer /\ ReadyFileIsOfWording
Waited == PendingAsked /\ RunningSent

-----------------------------------------------------------------------------
(* Types.                                                                  *)

\* Failing lines keeps the type of the rows, and touches only the status.
LEMMA FailedRows ==
    ASSUME TypeOK, NEW lines
    PROVE  /\ Failed(lines) \in [Lines -> Row \cup {NoRow}]
           /\ \A l \in Lines :
                 /\ Failed(lines)[l] = NoRow <=> row[l] = NoRow
                 /\ l \notin lines => Failed(lines)[l] = row[l]
                 /\ l \in lines /\ row[l] # NoRow => Failed(lines)[l].status = "failed"
<1>1. ASSUME NEW l \in Lines
      PROVE  /\ Failed(lines)[l] \in Row \cup {NoRow}
             /\ Failed(lines)[l] = NoRow <=> row[l] = NoRow
             /\ l \notin lines => Failed(lines)[l] = row[l]
             /\ l \in lines /\ row[l] # NoRow => Failed(lines)[l].status = "failed"
  <2>1. row[l] \in Row \cup {NoRow}
    BY DEF TypeOK
  <2>2. CASE l \in lines /\ row[l] # NoRow
    <3>1. Failed(lines)[l] = [row[l] EXCEPT !.status = "failed"]
      BY <2>2 DEF Failed
    <3> QED  BY <3>1, <2>1, <2>2 DEF Row, Statuses, NoRow
  <2>3. CASE ~(l \in lines /\ row[l] # NoRow)
    <3>1. Failed(lines)[l] = row[l]
      BY <2>3 DEF Failed
    <3> QED  BY <3>1, <2>1, <2>3
  <2> QED  BY <2>2, <2>3
<1> QED  BY <1>1 DEF Failed

\* Spending a bound keeps the type of what is spent.
LEMMA UseType ==
    ASSUME TypeOK, NEW b \in Bounds, Use(b)
    PROVE  used' \in [Bounds -> Nat] /\ \A a \in Bounds : used'[a] <= Bound(a)
<1>1. \A a \in Bounds : Bound(a) \in Nat
  BY BoundsAssumption DEF Bounds, Bound
<1> QED  BY <1>1 DEF TypeOK, Use

\* What a claim makes of a row.
LEMMA MarkClaimed ==
    ASSUME NEW r \in Row, NEW ask \in Nat
    PROVE  LET claimed == [r EXCEPT !.status = "running", !.late = FALSE, !.ask = ask]
           IN  /\ claimed \in Row
               /\ claimed.status = "running" /\ claimed.text = r.text /\ claimed.ask = ask
BY DEF Row, Statuses

\* A row a claim takes, and its line in the command.
LEMMA ClaimedRow ==
    ASSUME TypeOK, NEW l \in Claimable
    PROVE  /\ l \in Lines /\ row[l] \in Row
           /\ Claimed(l) \in Row
           /\ Claimed(l).status = "running"
           /\ Claimed(l).text = row[l].text
           /\ [text |-> row[l].text, voice |-> row[l].voice, ask |-> Claimed(l).ask] \in SentLine
<1>1. l \in Lines /\ row[l] \in Row
  BY DEF TypeOK, Claimable, NoRow
<1>2. (IF row[l].late THEN row[l].ask + 1 ELSE row[l].ask) \in Nat
  BY <1>1 DEF Row
<1>3. /\ Claimed(l) \in Row
      /\ Claimed(l).status = "running"
      /\ Claimed(l).text = row[l].text
  BY <1>1, <1>2, MarkClaimed DEF Claimed
<1> QED  BY <1>1, <1>3 DEF Row, SentLine

\* A row with the result of a reading.
Stored(r, file, status) == [r EXCEPT !.file = file, !.status = status]

\* Storing a result keeps the row and its wording.
LEMMA StoredRow ==
    ASSUME NEW r \in Row, NEW file \in Reading \cup {NoFile}, NEW status \in Statuses
    PROVE  /\ Stored(r, file, status) \in Row
           /\ Stored(r, file, status).text = r.text
           /\ Stored(r, file, status).file = file
           /\ Stored(r, file, status).status = status
BY DEF Stored, Row

\* What the results of a command leave of the rows: those it is not for stay, the
\* others have their file or have failed.
LEMMA SavedRows ==
    ASSUME TypeOK, NEW e \in answers, e.read
    PROVE  /\ Saved(e) \in [Lines -> Row \cup {NoRow}]
           /\ \A l \in Lines :
                 \/ Saved(e)[l] = row[l] /\ ~(l \in DOMAIN e.lines /\ Accepted(row[l], e.lines[l]))
                 \/ /\ l \in DOMAIN e.lines /\ row[l] \in Row
                    /\ Saved(e)[l].text = row[l].text /\ row[l].text = e.lines[l].text
                    /\ Saved(e)[l].file = e.lines[l].file
                    /\ Saved(e)[l].status = IF e.lines[l].file = NoFile THEN "failed" ELSE "ready"
<1>1. PICK lines \in SUBSET Lines : e.lines \in [lines -> ReadLine]
  BY DEF TypeOK, AnswerOf
<1>2. ASSUME NEW l \in Lines
      PROVE  /\ Saved(e)[l] \in Row \cup {NoRow}
             /\ \/ Saved(e)[l] = row[l] /\ ~(l \in DOMAIN e.lines /\ Accepted(row[l], e.lines[l]))
                \/ /\ l \in DOMAIN e.lines /\ row[l] \in Row
                   /\ Saved(e)[l].text = row[l].text /\ row[l].text = e.lines[l].text
                   /\ Saved(e)[l].file = e.lines[l].file
                   /\ Saved(e)[l].status = IF e.lines[l].file = NoFile THEN "failed" ELSE "ready"
  <2>1. CASE l \in DOMAIN e.lines /\ Accepted(row[l], e.lines[l])
    <3> DEFINE status == IF e.lines[l].file = NoFile THEN "failed" ELSE "ready"
    <3>1. row[l] \in Row /\ row[l].text = e.lines[l].text
      BY <2>1 DEF Accepted, TypeOK
    <3>2. e.lines[l].file \in Reading \cup {NoFile} /\ status \in Statuses
      BY <1>1, <2>1 DEF ReadLine, Statuses
    <3>3. Saved(e)[l] = Stored(row[l], e.lines[l].file, status)
      BY <2>1 DEF Saved, Stored
    <3> HIDE DEF status
    <3>4. /\ Saved(e)[l] \in Row
          /\ Saved(e)[l].text = row[l].text /\ Saved(e)[l].file = e.lines[l].file
          /\ Saved(e)[l].status = status
      BY StoredRow, <3>1, <3>2, <3>3
    <3> QED  BY <2>1, <3>1, <3>4 DEF status
  <2>2. CASE ~(l \in DOMAIN e.lines /\ Accepted(row[l], e.lines[l]))
    BY <2>2 DEF Saved, TypeOK
  <2> QED  BY <2>1, <2>2
<1> QED  BY <1>2 DEF Saved

\* A request that has written one more of its lines is still one.
LEMMA AskedType ==
    ASSUME NEW r \in Asking, NEW l \in Lines
    PROVE  /\ Asked(r, l) \in Asking
           /\ Asked(r, l).asked = r.asked \cup {l}
BY DEF Asked, Asking

\* The first step of every request asks for lines in the wording of now.
LEMMA SpeakType ==
    ASSUME TypeOK, NEW t \in Threads, NEW s, speak' = [speak EXCEPT ![t] = s],
           NEW lines \in SUBSET Lines, s \in Speaking(lines)
    PROVE  /\ speak' = [u \in Threads |-> speak'[u]]
           /\ \A u \in Threads : \E ls \in SUBSET Lines : speak'[u] \in Speaking(ls)
<1>1. ASSUME NEW u \in Threads  PROVE \E ls \in SUBSET Lines : speak'[u] \in Speaking(ls)
  BY DEF TypeOK
<1> QED  BY <1>1 DEF TypeOK

\* Every step keeps the types.
LEMMA TypeStep ==
    ASSUME TypeOK, [Next]_vars
    PROVE  TypeOK'
<1> DEFINE SpeakOK == /\ speak' = [u \in Threads |-> speak'[u]]
                      /\ \A u \in Threads : \E ls \in SUBSET Lines : speak'[u] \in Speaking(ls)
           UsedOK == used' \in [Bounds -> Nat] /\ \A a \in Bounds : used'[a] <= Bound(a)
<1>u. ASSUME NEW b \in Bounds, Use(b)  PROVE UsedOK
  BY <1>u, UseType
<1>s. ASSUME NEW t \in Threads, NEW s, speak' = [speak EXCEPT ![t] = s],
             NEW lines \in SUBSET Lines, s \in Speaking(lines)
      PROVE  SpeakOK
  BY <1>s, SpeakType
<1>b. /\ "speaks" \in Bounds /\ "changes" \in Bounds /\ "lates" \in Bounds
      /\ "cancels" \in Bounds /\ "faults" \in Bounds
  BY DEF Bounds
<1>i. ASSUME NEW lines PROVE Idle \in Speaking(lines)
  BY DEF Speaking
<1> HIDE DEF SpeakOK, UsedOK
<1>q. ASSUME text' \in [Lines -> Texts], voice' \in Voices, row' \in [Lines -> Row \cup {NoRow}],
             speak' = speak \/ SpeakOK, used' = used \/ UsedOK,
             \A c \in commands' : \E lines \in SUBSET Lines : c \in Command(lines),
             \A e \in answers' : \E lines \in SUBSET Lines : e \in AnswerOf(lines),
             sent' \in Nat, dropped' \subseteq Lines \X Nat
      PROVE  TypeOK'
  BY <1>q DEF TypeOK, SpeakOK, UsedOK
<1>1. CASE ChangeVoice
  BY <1>1, <1>u, <1>b, <1>q DEF ChangeVoice, TypeOK
<1>2. CASE Cancel
  <2>1. ASSUME NEW c \in commands'
        PROVE \E lines \in SUBSET Lines : c \in Command(lines)
    <3>1. PICK d \in commands : c = [d EXCEPT !.cancelled = TRUE]
      BY <1>2 DEF Cancel
    <3>2. PICK lines \in SUBSET Lines : d \in Command(lines)
      BY DEF TypeOK
    <3>3. c \in Command(lines)
      BY <3>1, <3>2 DEF Command
    <3> QED  BY <3>3
  <2> QED  BY <1>2, <2>1, <1>u, <1>b, <1>q DEF Cancel, TypeOK
<1>3. ASSUME NEW l \in Lines, Reword(l)  PROVE TypeOK'
  BY <1>3, <1>u, <1>b, <1>q DEF Reword, TypeOK
<1>4. ASSUME NEW l \in Lines, TimePasses(l)  PROVE TypeOK'
  <2>1. row[l] \in Row
    BY <1>4 DEF TimePasses, NoRow, TypeOK
  <2>2. [row[l] EXCEPT !.late = TRUE] \in Row
    BY <2>1 DEF Row
  <2>3. row' \in [Lines -> Row \cup {NoRow}]
    BY <1>4, <2>2 DEF TimePasses, TypeOK
  <2> QED  BY <1>4, <2>3, <1>u, <1>b, <1>q DEF TimePasses, TypeOK
<1>5. ASSUME NEW t \in Threads, NEW lines \in SUBSET Lines, Speak(t, lines)  PROVE TypeOK'
  <2> DEFINE todo == {l \in lines : ~AlreadyRead(l)}
             s == IF todo = {} THEN Idle
                  ELSE [at |-> "asking", todo |-> todo, asked |-> {}, text |-> text, voice |-> voice]
  <2>1. s \in Speaking({})
    BY DEF Speaking, Asking, TypeOK
  <2>2. speak' = [speak EXCEPT ![t] = s]
    BY <1>5 DEF Speak
  <2> HIDE DEF s
  <2>3. SpeakOK
    BY <2>1, <2>2, <1>s
  <2> QED  BY <1>5, <2>3, <1>u, <1>b, <1>q DEF Speak, TypeOK
<1>6. ASSUME NEW t \in Threads, RequestVoiceLine(t)  PROVE TypeOK'
  <2>1. speak[t] \in Asking
    BY <1>6 DEF RequestVoiceLine, Speaking, Asking, Idle, TypeOK
  <2>2. PICK l \in speak[t].todo :
          /\ row' = [row EXCEPT ![l] =
                        [text |-> speak[t].text[l], voice |-> speak[t].voice,
                         status |-> "pending", file |-> NoFile, late |-> FALSE,
                         ask |-> IF @ = NoRow THEN 0 ELSE @.ask + 1]]
          /\ speak' = [speak EXCEPT ![t] = Asked(@, l)]
    BY <1>6 DEF RequestVoiceLine
  <2>3. row' \in [Lines -> Row \cup {NoRow}]
    BY <2>1, <2>2 DEF Asking, Row, Statuses, TypeOK
  <2>4. l \in Lines
    BY <2>1 DEF Asking
  <2>5. speak' = [speak EXCEPT ![t] = Asked(speak[t], l)]
    BY <2>2
  <2>6. SpeakOK
    BY <2>1, <2>4, <2>5, AskedType, <1>s DEF Speaking
  <2> QED  BY <1>6, <2>3, <2>6, <1>q DEF RequestVoiceLine, TypeOK
<1>7. ASSUME NEW t \in Threads, ClaimVoiceLines(t)  PROVE TypeOK'
  <2>1. row' \in [Lines -> Row \cup {NoRow}]
    BY <1>7, ClaimedRow DEF ClaimVoiceLines, TypeOK
  <2> DEFINE s == IF Claimable = {} THEN Idle
                  ELSE [at |-> "sending", asked |-> speak[t].asked,
                        lines |-> [l \in Claimable |->
                           [text |-> row[l].text, voice |-> row[l].voice,
                            ask |-> Claimed(l).ask]]]
  <2>2. speak[t].asked \in SUBSET Lines
    BY <1>7 DEF ClaimVoiceLines, TypeOK, Speaking, Asking, Idle
  <2>3. Claimable \in SUBSET Lines
    BY DEF Claimable
  <2>4. s \in Speaking(Claimable)
    BY <2>2, ClaimedRow DEF Speaking
  <2>5. speak' = [speak EXCEPT ![t] = s]
    BY <1>7 DEF ClaimVoiceLines
  <2> HIDE DEF s
  <2>6. SpeakOK
    BY <2>3, <2>4, <2>5, <1>s
  <2> QED  BY <1>7, <2>1, <2>6, <1>q DEF ClaimVoiceLines, TypeOK
<1>8. ASSUME NEW t \in Threads, PublishCommand(t)  PROVE TypeOK'
  <2>1. PICK lines \in SUBSET Lines : speak[t].lines \in [lines -> SentLine]
    BY <1>8 DEF PublishCommand, TypeOK, Speaking, Asking, Idle
  <2>2. [id |-> sent + 1, lines |-> speak[t].lines, cancelled |-> FALSE] \in Command(lines)
    BY <2>1 DEF Command, TypeOK
  <2>3. SpeakOK
    BY <1>8, <1>s, <1>i DEF PublishCommand
  <2>4. ASSUME NEW c \in commands'  PROVE \E ls \in SUBSET Lines : c \in Command(ls)
    BY <1>8, <2>2 DEF PublishCommand, SentLines, TypeOK
  <2>5. /\ sent' \in Nat /\ used' = used
        /\ UNCHANGED <<text, voice, row, answers, dropped>>
    BY <1>8 DEF PublishCommand, TypeOK
  <2> QED  BY <2>3, <2>4, <2>5, <1>q DEF TypeOK
<1>9. ASSUME NEW t \in Threads, ClaimFails(t) \/ SpeakFails(t)  PROVE TypeOK'
  <2>1. SpeakOK
    BY <1>9, <1>s, <1>i DEF ClaimFails, SpeakFails
  <2> QED  BY <1>9, <2>1, FailedRows, <1>u, <1>b, <1>q DEF ClaimFails, SpeakFails, TypeOK
<1>10. ASSUME NEW t \in Threads, PublishFails(t)  PROVE TypeOK'
  <2>1. PICK lines \in SUBSET Lines :
           speak[t] \in [at : {"sending", "failing"}, asked : SUBSET Lines, lines : [lines -> SentLine]]
    BY <1>10 DEF PublishFails, TypeOK, Speaking, Asking, Idle
  <2>2. [speak[t] EXCEPT !.at = "failing"] \in Speaking(lines)
    BY <2>1 DEF Speaking
  <2>3. speak' = [speak EXCEPT ![t] = [speak[t] EXCEPT !.at = "failing"]]
    BY <1>10 DEF PublishFails
  <2>4. SpeakOK
    BY <2>2, <2>3, <1>s
  <2> QED  BY <1>10, <2>4, FailedRows, <1>u, <1>b, <1>q DEF PublishFails, TypeOK
<1>11. ASSUME NEW c \in commands, Answer(c)  PROVE TypeOK'
  <2>1. PICK lines \in SUBSET Lines : c \in Command(lines)
    BY DEF TypeOK
  <2>2. ASSUME NEW e \in answers'
        PROVE \E ls \in SUBSET Lines : e \in AnswerOf(ls)
    <3>1. CASE e \in answers
      BY <3>1 DEF TypeOK
    <3>2. CASE e = [id |-> c.id, read |-> FALSE, lines |-> c.lines]
      BY <2>1, <3>2 DEF AnswerOf, Command
    <3>3. ASSUME NEW unread \in SUBSET DOMAIN c.lines,
                 e = [id |-> c.id, read |-> TRUE,
                      lines |-> [l \in DOMAIN c.lines |->
                         [text |-> c.lines[l].text, ask |-> c.lines[l].ask,
                          file |-> IF l \in unread THEN NoFile
                                   ELSE [text |-> c.lines[l].text, voice |-> c.lines[l].voice]]]]
          PROVE e \in AnswerOf(lines)
      <4>1. c.id \in Nat /\ DOMAIN c.lines = lines /\ \A l \in lines : c.lines[l] \in SentLine
        BY <2>1 DEF Command
      <4> QED  BY <3>3, <4>1 DEF AnswerOf, ReadLine, SentLine, Reading
    <3> QED  BY <1>11, <3>1, <3>2, <3>3 DEF Answer
  <2> QED  BY <1>11, <2>2, <1>q DEF Answer, TypeOK
<1>12. ASSUME NEW c \in commands, DropCancelled(c)  PROVE TypeOK'
  <2>1. PICK lines \in SUBSET Lines : c \in Command(lines)
    BY DEF TypeOK
  <2>2. dropped' \subseteq Lines \X Nat
    BY <1>12, <2>1 DEF DropCancelled, Command, SentLine, TypeOK
  <2> QED  BY <1>12, <2>2, <1>q DEF DropCancelled, TypeOK
<1>13. ASSUME NEW c \in commands, FailUndelivered(c)  PROVE TypeOK'
  BY <1>13, FailedRows, <1>u, <1>b, <1>q DEF FailUndelivered, TypeOK
<1>14. ASSUME NEW e \in answers, HandleEvent(e)  PROVE TypeOK'
  <2>1. ASSUME e.read  PROVE Saved(e) \in [Lines -> Row \cup {NoRow}]
    BY <2>1, SavedRows
  <2>2. row' \in [Lines -> Row \cup {NoRow}]
    BY <1>14, <2>1, FailedRows DEF HandleEvent
  <2> QED  BY <1>14, <2>2, <1>u, <1>b, <1>q DEF HandleEvent, TypeOK
<1>15. ASSUME NEW e \in answers, GiveUp(e)  PROVE TypeOK'
  BY <1>15, FailedRows, <1>u, <1>b, <1>q DEF GiveUp, TypeOK
<1>16. CASE UNCHANGED vars
  BY <1>16, <1>q DEF vars, TypeOK
<1> QED
  BY <1>1, <1>2, <1>3, <1>4, <1>5, <1>6, <1>7, <1>8, <1>9, <1>10, <1>11, <1>12, <1>13, <1>14,
     <1>15, <1>16 DEF Next, Serve, Tts, Consume

\* The types hold in every state.
THEOREM TypeCorrect == Spec => []TypeOK
<1>1. Init => TypeOK
  <2>1. (CHOOSE words \in Texts : TRUE) \in Texts /\ (CHOOSE v \in Voices : TRUE) \in Voices
    BY SetsAssumption
  <2>2. \A b \in Bounds : 0 <= Bound(b)
    BY BoundsAssumption DEF Bounds, Bound
  <2> QED  BY <2>1, <2>2 DEF Init, TypeOK, Speaking
<1> QED  BY <1>1, TypeStep, PTL DEF Spec

-----------------------------------------------------------------------------
(* What is ready was read in its wording.                                  *)

\* No step stores a file on a row of another wording.
LEMMA WordingStep ==
    ASSUME TypeOK, Wording, [Next]_vars
    PROVE  Wording'
<1>1. FilesAreOfAnswer'
  <2>1. ASSUME NEW c \in commands, Answer(c)  PROVE FilesAreOfAnswer'
    BY <2>1 DEF Answer, Wording, FilesAreOfAnswer
  <2>2. CASE answers' \subseteq answers
    BY <2>2 DEF Wording, FilesAreOfAnswer
  <2> QED
    BY <2>1, <2>2 DEF Next, vars, ChangeVoice, Cancel, Reword, TimePasses, Serve, RequestVoiceLine,
       ClaimVoiceLines, PublishCommand, ClaimFails, PublishFails, SpeakFails, Speak, Tts,
       DropCancelled, FailUndelivered, Consume, HandleEvent, GiveUp
<1>2. ASSUME NEW l \in Lines, row'[l] # NoRow, row'[l].status = "ready"
      PROVE  row'[l].file.text = row'[l].text
  <2> USE <1>2
  <2>0. row[l] # NoRow /\ row[l].status = "ready" => row[l].file.text = row[l].text
    BY DEF Wording, ReadyFileIsOfWording
  <2>1. CASE row' = row
    BY <2>0, <2>1
  <2>2. ASSUME NEW lines, row' = Failed(lines)  PROVE row'[l].file.text = row'[l].text
    BY <2>0, <2>2, FailedRows
  <2>3. ASSUME NEW m \in Lines, TimePasses(m)  PROVE row'[l].file.text = row'[l].text
    BY <2>0, <2>3 DEF TimePasses, TypeOK, Row, NoRow
  <2>4. ASSUME NEW t \in Threads, RequestVoiceLine(t)  PROVE row'[l].file.text = row'[l].text
    BY <2>0, <2>4 DEF RequestVoiceLine, TypeOK
  <2>5. ASSUME NEW t \in Threads, ClaimVoiceLines(t)  PROVE row'[l].file.text = row'[l].text
    BY <2>0, <2>5, ClaimedRow DEF ClaimVoiceLines
  <2>6. ASSUME NEW e \in answers, HandleEvent(e), e.read  PROVE row'[l].file.text = row'[l].text
    <3>1. row' = Saved(e)
      BY <2>6 DEF HandleEvent
    <3>2. CASE row'[l] = row[l]
      BY <2>0, <3>2
    <3>3. CASE row'[l] # row[l]
      <4>1. /\ l \in DOMAIN e.lines
            /\ row'[l].text = row[l].text /\ row[l].text = e.lines[l].text
            /\ row'[l].file = e.lines[l].file /\ e.lines[l].file # NoFile
        BY <2>6, <3>1, <3>3, SavedRows
      <4> QED  BY <2>6, <4>1 DEF Wording, FilesAreOfAnswer
    <3> QED  BY <3>2, <3>3
  <2> QED
    BY <2>1, <2>2, <2>3, <2>4, <2>5, <2>6 DEF Next, vars, ChangeVoice, Cancel, Reword, Serve, PublishCommand,
       ClaimFails, PublishFails, SpeakFails, Speak, Tts, Answer, DropCancelled, FailUndelivered,
       Consume, HandleEvent, GiveUp
<1> QED  BY <1>1, <1>2 DEF Wording, ReadyFileIsOfWording

\* ReadyFileIsOfWording holds in every state: an answer carries the wording it
\* was read in, and is stored only on a row that still has it.
THEOREM ReadyInItsWording == Spec => []ReadyFileIsOfWording
<1>1. Init => Wording
  BY DEF Init, Wording, FilesAreOfAnswer, ReadyFileIsOfWording, NoRow
<1>2. TypeOK /\ Wording /\ [Next]_vars => Wording'
  BY WordingStep
<1>3. Wording => ReadyFileIsOfWording
  BY DEF Wording
<1> QED  BY <1>1, <1>2, <1>3, TypeCorrect, PTL DEF Spec

-----------------------------------------------------------------------------
(* Whoever waits has a reading under way.                                  *)

\* A row stays pending only while a request that asked for it has not claimed it.
LEMMA PendingStep ==
    ASSUME TypeOK, Waited, [Next]_vars
    PROVE  PendingAsked'
<1>1. SUFFICES ASSUME NEW l \in Lines, row'[l].status = "pending"
               PROVE  \E t \in Threads : speak'[t].at \in {"asking", "claiming"} /\ l \in speak'[t].asked
  BY DEF PendingAsked
<1> DEFINE Goal == \E t \in Threads :
                      speak'[t].at \in {"asking", "claiming"} /\ l \in speak'[t].asked
<1>2. ASSUME row[l].status = "pending"
      PROVE  \E t \in Threads : speak[t].at \in {"asking", "claiming"} /\ l \in speak[t].asked
  BY <1>2 DEF Waited, PendingAsked
<1>3. CASE row' = row /\ speak' = speak
  BY <1>1, <1>2, <1>3
<1>4. ASSUME NEW lines, row' = Failed(lines), speak' = speak  PROVE Goal
  <2>1. row[l].status = "pending"
    BY <1>1, <1>4, FailedRows DEF NoRow
  <2> QED  BY <2>1, <1>2, <1>4
<1>5. ASSUME NEW m \in Lines, TimePasses(m)  PROVE Goal
  <2>1. row[l].status = "pending"
    BY <1>1, <1>5 DEF TimePasses, TypeOK, Row, NoRow
  <2> QED  BY <2>1, <1>2, <1>5 DEF TimePasses
<1>6. ASSUME NEW t \in Threads, NEW lines \in SUBSET Lines, Speak(t, lines)  PROVE Goal
  <2>1. PICK u \in Threads : speak[u].at \in {"asking", "claiming"} /\ l \in speak[u].asked
    BY <1>1, <1>2, <1>6 DEF Speak
  <2>2. u # t
    BY <2>1, <1>6 DEF Speak, Idle
  <2>3. speak'[u] = speak[u]
    BY <2>2, <1>6 DEF Speak, TypeOK
  <2> QED  BY <2>1, <2>3
<1>7. ASSUME NEW t \in Threads, RequestVoiceLine(t)  PROVE Goal
  <2>1. speak[t] \in Asking
    BY <1>7 DEF RequestVoiceLine, TypeOK, Speaking, Idle, Asking
  <2>2. PICK m \in speak[t].todo :
          /\ row' = [row EXCEPT ![m] = row'[m]]
          /\ speak' = [speak EXCEPT ![t] = Asked(@, m)]
    BY <1>7 DEF RequestVoiceLine
  <2>3. m \in Lines
    BY <2>1 DEF Asking
  <2>4. /\ speak'[t] \in Asking /\ speak'[t].asked = speak[t].asked \cup {m}
        /\ \A u \in Threads \ {t} : speak'[u] = speak[u]
    BY <2>1, <2>2, <2>3, AskedType DEF TypeOK
  <2>5. CASE l = m
    BY <2>4, <2>5 DEF Asking
  <2>6. CASE l # m
    <3>1. row[l].status = "pending"
      BY <1>1, <2>2, <2>6 DEF TypeOK
    <3> QED  BY <1>2, <2>4, <3>1 DEF Asking
  <2> QED  BY <2>5, <2>6
<1>8. ASSUME NEW t \in Threads, ClaimVoiceLines(t)  PROVE Goal
  <2>1. l \notin Claimable
    BY <1>1, <1>8, ClaimedRow DEF ClaimVoiceLines
  <2> QED  BY <1>1, <1>8, <2>1 DEF ClaimVoiceLines, Claimable
<1>9. ASSUME NEW t \in Threads, ClaimFails(t)  PROVE Goal
  <2>1. row[l].status = "pending" /\ l \notin speak[t].asked
    BY <1>1, <1>9, FailedRows DEF ClaimFails, NoRow
  <2>2. PICK u \in Threads : speak[u].at \in {"asking", "claiming"} /\ l \in speak[u].asked
    BY <2>1, <1>2
  <2>3. speak'[u] = speak[u]
    BY <2>1, <2>2, <1>9 DEF ClaimFails, TypeOK
  <2> QED  BY <2>2, <2>3
<1>10. ASSUME NEW t \in Threads, PublishCommand(t) \/ PublishFails(t) \/ SpeakFails(t)  PROVE Goal
  <2>1. row[l].status = "pending"
    BY <1>1, <1>10, FailedRows DEF PublishCommand, PublishFails, SpeakFails, NoRow
  <2>2. PICK u \in Threads : speak[u].at \in {"asking", "claiming"} /\ l \in speak[u].asked
    BY <2>1, <1>2
  <2>3. u # t
    BY <2>2, <1>10 DEF PublishCommand, PublishFails, SpeakFails
  <2>4. speak'[u] = speak[u]
    BY <2>3, <1>10 DEF PublishCommand, PublishFails, SpeakFails, TypeOK
  <2> QED  BY <2>2, <2>4
<1>11. ASSUME NEW e \in answers, HandleEvent(e), e.read  PROVE Goal
  <2>1. row[l].status = "pending"
    BY <1>1, <1>11, SavedRows DEF HandleEvent
  <2> QED  BY <2>1, <1>2, <1>11 DEF HandleEvent
<1> QED
  BY <1>3, <1>4, <1>5, <1>6, <1>7, <1>8, <1>9, <1>10, <1>11 DEF Next, vars, ChangeVoice, Cancel,
     Reword, Serve, Tts, Answer, DropCancelled, FailUndelivered, Consume, HandleEvent, GiveUp

\* What was sent for a row stays sent while the row waits for the same reading.
LEMMA SentStays ==
    ASSUME TypeOK, NEW l \in Lines, Sent(l), row'[l].text = row[l].text, row'[l].ask = row[l].ask,
           \A t \in Threads : speak[t].at = "sending" => speak'[t] = speak[t],
           \A m \in commands \cup answers : AsksFor(m.lines, l) =>
              \/ \E n \in commands' \cup answers' :
                    l \in DOMAIN n.lines /\ Matches(n.lines[l], row[l])
              \/ <<l, row[l].ask>> \in dropped',
           dropped \subseteq dropped'
    PROVE  Sent(l)'
<1>1. CASE \E t \in Threads : speak[t].at = "sending" /\ AsksFor(speak[t].lines, l)
  BY <1>1 DEF Sent, AsksFor, Matches
<1>2. CASE \E m \in commands \cup answers : AsksFor(m.lines, l)
  BY <1>2 DEF Sent, AsksFor, Matches, ThrownAway
<1>3. CASE ThrownAway(l)
  BY <1>3 DEF Sent, ThrownAway
<1> QED  BY <1>1, <1>2, <1>3 DEF Sent

\* A claim, its command and its answer hand the row on to one another.
LEMMA RunningStep ==
    ASSUME TypeOK, Waited, [Next]_vars
    PROVE  RunningSent'
<1>1. SUFFICES ASSUME NEW l \in Lines, row'[l].status = "running"
               PROVE  Sent(l)'
  BY DEF RunningSent
<1>2. row[l].status = "running" => Sent(l)
  BY DEF Waited, RunningSent
<1>3. CASE UNCHANGED <<row, speak, commands, answers, dropped>>
  BY <1>1, <1>2, <1>3, SentStays DEF AsksFor
<1>4. ASSUME NEW lines, row' = Failed(lines),
             (\A t \in Threads : speak[t].at = "sending" => speak'[t] = speak[t])
                \/ Running \subseteq lines,
             (UNCHANGED <<commands, answers>>) \/ Running \subseteq lines,
             dropped' = dropped
      PROVE Sent(l)'
  <2>1. row'[l] = row[l] /\ l \notin lines
    BY <1>1, <1>4, FailedRows DEF NoRow
  <2>2. l \in Running
    BY <1>1, <2>1 DEF Running
  <2> QED  BY <1>1, <1>2, <1>4, <2>1, <2>2, SentStays DEF AsksFor
<1>5. CASE Cancel
  <2>1. ASSUME NEW c \in commands, AsksFor(c.lines, l)
        PROVE  \E n \in commands' : l \in DOMAIN n.lines /\ Matches(n.lines[l], row[l])
    <3>1. [c EXCEPT !.cancelled = TRUE] \in commands'
      BY <1>5 DEF Cancel
    <3>2. [c EXCEPT !.cancelled = TRUE].lines = c.lines
      BY DEF TypeOK, Command
    <3> QED  BY <2>1, <3>1, <3>2 DEF AsksFor
  <2>2. UNCHANGED <<row, speak, answers, dropped>>
    BY <1>5 DEF Cancel
  <2> QED  BY <1>1, <1>2, <2>1, <2>2, SentStays DEF AsksFor
<1>6. ASSUME NEW m \in Lines, TimePasses(m)  PROVE Sent(l)'
  <2>1. row[l].status = "running" /\ row'[l].text = row[l].text /\ row'[l].ask = row[l].ask
    BY <1>1, <1>6 DEF TimePasses, TypeOK, Row, NoRow
  <2>2. UNCHANGED <<speak, commands, answers, dropped>>
    BY <1>6 DEF TimePasses
  <2> QED  BY <1>2, <2>1, <2>2, SentStays DEF AsksFor
<1>7. ASSUME NEW t \in Threads, NEW lines \in SUBSET Lines, Speak(t, lines)  PROVE Sent(l)'
  <2>1. UNCHANGED <<row, commands, answers, dropped>>
    BY <1>7 DEF Speak
  <2>2. ASSUME NEW u \in Threads, speak[u].at = "sending"  PROVE speak'[u] = speak[u]
    BY <1>7, <2>2 DEF Speak, Idle, TypeOK
  <2> QED  BY <1>1, <1>2, <2>1, <2>2, SentStays DEF AsksFor
<1>8. ASSUME NEW t \in Threads, RequestVoiceLine(t)  PROVE Sent(l)'
  <2>1. speak[t] \in Asking
    BY <1>8 DEF RequestVoiceLine, TypeOK, Speaking, Idle, Asking
  <2>2. row'[l] = row[l]
    BY <1>1, <1>8, <2>1 DEF RequestVoiceLine, Asking, TypeOK
  <2>3. UNCHANGED <<commands, answers, dropped>>
    BY <1>8 DEF RequestVoiceLine
  <2>4. ASSUME NEW u \in Threads, speak[u].at = "sending"  PROVE speak'[u] = speak[u]
    BY <1>8, <2>1, <2>4 DEF RequestVoiceLine, Asking, TypeOK
  <2> QED  BY <1>1, <1>2, <2>2, <2>3, <2>4, SentStays DEF AsksFor
<1>9. ASSUME NEW t \in Threads, ClaimVoiceLines(t)  PROVE Sent(l)'
  <2>1. UNCHANGED <<commands, answers, dropped>>
    BY <1>9 DEF ClaimVoiceLines
  <2>2. CASE l \in Claimable
    <3>1. row'[l] = Claimed(l)
      BY <1>9, <2>2 DEF ClaimVoiceLines
    <3>2. /\ speak'[t].at = "sending"
          /\ speak'[t].lines = [m \in Claimable |->
                 [text |-> row[m].text, voice |-> row[m].voice, ask |-> Claimed(m).ask]]
      BY <1>9, <2>2 DEF ClaimVoiceLines, TypeOK
    <3>3. l \in DOMAIN speak'[t].lines /\ Matches(speak'[t].lines[l], row'[l])
      BY <2>2, <3>1, <3>2, ClaimedRow DEF Matches
    <3> QED  BY <3>2, <3>3 DEF Sent, AsksFor
  <2>3. CASE l \notin Claimable
    <3>1. row'[l] = row[l]
      BY <1>9, <2>3 DEF ClaimVoiceLines
    <3>2. ASSUME NEW u \in Threads, speak[u].at = "sending"  PROVE speak'[u] = speak[u]
      BY <1>9, <3>2 DEF ClaimVoiceLines, TypeOK
    <3> QED  BY <1>1, <1>2, <2>1, <3>1, <3>2, SentStays DEF AsksFor
  <2> QED  BY <2>2, <2>3
<1>10. ASSUME NEW t \in Threads, PublishCommand(t)  PROVE Sent(l)'
  <2>0. PICK c : c = [id |-> sent + 1, lines |-> speak[t].lines, cancelled |-> FALSE]
    OBVIOUS
  <2>1. /\ UNCHANGED <<row, answers, dropped>>
        /\ speak' = [speak EXCEPT ![t] = Idle]
        /\ commands' = commands \cup {c}
    BY <1>10, <2>0 DEF PublishCommand, SentLines
  <2>2. CASE speak[t].at = "sending" /\ AsksFor(speak[t].lines, l)
    <3>1. c \in commands' /\ AsksFor(c.lines, l)'
      BY <2>0, <2>1, <2>2 DEF AsksFor
    <3> QED  BY <3>1 DEF Sent
  <2>3. ASSUME NEW u \in Threads \ {t}, speak[u].at = "sending", AsksFor(speak[u].lines, l)
        PROVE  Sent(l)'
    <3>1. speak'[u] = speak[u]
      BY <2>1 DEF TypeOK
    <3> QED  BY <2>1, <2>3, <3>1 DEF Sent, AsksFor
  <2>4. ASSUME NEW m \in commands \cup answers, AsksFor(m.lines, l)
        PROVE  Sent(l)'
    BY <2>1, <2>4 DEF Sent, AsksFor
  <2>5. ThrownAway(l) => Sent(l)'
    BY <2>1 DEF Sent, ThrownAway
  <2> QED  BY <1>1, <1>2, <2>1, <2>2, <2>3, <2>4, <2>5 DEF Sent
<1>11. ASSUME NEW t \in Threads, ClaimFails(t) \/ SpeakFails(t)  PROVE Sent(l)'
  <2>1. ASSUME NEW u \in Threads, speak[u].at = "sending"  PROVE speak'[u] = speak[u]
    BY <1>11, <2>1 DEF ClaimFails, SpeakFails, TypeOK
  <2> QED  BY <1>4, <1>11, <2>1 DEF ClaimFails, SpeakFails
<1>12. ASSUME NEW c \in commands, Answer(c)  PROVE Sent(l)'
  <2>1. /\ UNCHANGED <<row, speak, dropped>> /\ commands' = commands \ {c}
        /\ answers \subseteq answers'
    BY <1>12 DEF Answer
  <2> DEFINE Read(unread) ==
               [m \in DOMAIN c.lines |->
                  [text |-> c.lines[m].text, ask |-> c.lines[m].ask,
                   file |-> IF m \in unread THEN NoFile
                            ELSE [text |-> c.lines[m].text, voice |-> c.lines[m].voice]]]
             Same(lines) ==
               /\ DOMAIN lines = DOMAIN c.lines
               /\ \A m \in DOMAIN c.lines : Matches(lines[m], c.lines[m])
  <2>2. \A unread : Same(Read(unread))
    BY DEF Matches
  <2>3. Same(c.lines)
    BY DEF Matches
  <2> HIDE DEF Read, Same
  <2>4. PICK e : /\ answers' = answers \cup {e}
                 /\ \/ e = [id |-> c.id, read |-> FALSE, lines |-> c.lines]
                    \/ \E unread \in SUBSET DOMAIN c.lines :
                          e = [id |-> c.id, read |-> TRUE, lines |-> Read(unread)]
    BY <1>12, Zenon DEF Answer, Read
  <2>5. Same(e.lines)
    BY <2>2, <2>3, <2>4
  <2>6. AsksFor(c.lines, l) => l \in DOMAIN e.lines /\ Matches(e.lines[l], row[l])
    BY <2>5 DEF Same, AsksFor, Matches
  <2> QED  BY <1>1, <1>2, <2>1, <2>4, <2>6, SentStays DEF AsksFor
<1>13. ASSUME NEW c \in commands, DropCancelled(c)  PROVE Sent(l)'
  <2>1. /\ UNCHANGED <<row, speak, answers>> /\ commands' = commands \ {c}
        /\ dropped' = dropped \cup {<<m, c.lines[m].ask>> : m \in DOMAIN c.lines}
    BY <1>13 DEF DropCancelled
  <2>2. AsksFor(c.lines, l) => <<l, row[l].ask>> \in dropped'
    BY <2>1 DEF AsksFor, Matches
  <2> QED  BY <1>1, <1>2, <2>1, <2>2, SentStays DEF AsksFor
<1>14. ASSUME NEW e \in answers, HandleEvent(e), e.read  PROVE Sent(l)'
  <2>1. /\ UNCHANGED <<speak, commands, dropped>> /\ answers \ {e} \subseteq answers'
        /\ row' = Saved(e)
    BY <1>14 DEF HandleEvent
  <2>2. row'[l] = row[l] /\ ~(l \in DOMAIN e.lines /\ Accepted(row[l], e.lines[l]))
    BY <1>1, <1>14, <2>1, SavedRows
  <2>3. ~AsksFor(e.lines, l)
    BY <1>1, <2>2 DEF AsksFor, Matches, Accepted, NoRow
  <2> QED  BY <1>1, <1>2, <2>1, <2>2, <2>3, SentStays DEF AsksFor
<1> QED
  BY <1>3, <1>4, <1>5, <1>6, <1>7, <1>8, <1>9, <1>10, <1>11, <1>12, <1>13, <1>14 DEF Next, vars,
     ChangeVoice, Reword, Serve, PublishFails, Tts, FailUndelivered, Consume, HandleEvent, GiveUp

\* NoLineStranded holds in every state: what a row waits for is the request of
\* its own claim, its command, its answer, or was thrown away.
THEOREM NobodyWaitsInVain == Spec => []NoLineStranded
<1>1. Init => Waited
  BY DEF Init, Waited, PendingAsked, RunningSent, NoRow
<1>2. TypeOK /\ Waited /\ [Next]_vars => Waited'
  BY PendingStep, RunningStep DEF Waited
<1>3. Waited => NoLineStranded
  <2>1. ASSUME Waited, NEW l \in Lines, row[l].status = "pending"  PROVE Outstanding(l)
    BY <2>1 DEF Waited, PendingAsked, Outstanding
  <2>2. ASSUME Waited, NEW l \in Lines, row[l].status = "running"
        PROVE Outstanding(l) \/ ThrownAway(l)
    BY <2>2 DEF Waited, RunningSent, Sent, AsksFor, Matches, Outstanding
  <2> QED  BY <2>1, <2>2 DEF NoLineStranded, Waiting
<1> QED  BY <1>1, <1>2, <1>3, TypeCorrect, PTL DEF Spec

-----------------------------------------------------------------------------
(* The long calls: the invariant.                                          *)

\* An id is registered once its request works, and an entry that is old has ended.
RegistryOK ==
    /\ ops \in [CallIds -> LongCalls!Operation \cup {None}]
    /\ calls \in [CallIds -> LongCalls!Places]
    /\ \A id \in CallIds :
          /\ calls[id] \in {"unused", "sent"} => ops[id] = None
          /\ ops[id] # None /\ ops[id].old => ops[id].status # "running"
    /\ LongCalls!RunningIsOpen

\* What is stored, and who was asked to stop before anything was.
StoredOK ==
    /\ stored \subseteq CallIds
    /\ \A id \in CallIds :
          /\ calls[id] \in {"saved", "done"} => id \in stored
          /\ calls[id] \in {"unused", "sent", "working", "failed"} => id \notin stored
          /\ id \in posts \/ (ops[id] # None /\ ops[id].asked)
                => id \in stopped \/ calls[id] \notin {"unused", "sent", "working"}
    /\ LongCalls!StatusTellsTruth

\* A page names only calls that were begun, and one that is closed follows nothing.
PageNames(page) ==
    /\ page \in LongCalls!Page
    /\ page.id # None => calls[page.id] # "unused"
    /\ page.list \in CallIds => calls[page.list] # "unused"
    /\ ~page.open => page.own = None /\ ~page.resumed /\ page.list = "idle"

\* A page with a request of its own follows that one, and nothing it is stopping.
PageFollows(page) ==
    /\ page.own # None => page.id = page.own /\ ~page.resumed
    /\ page.stopping # None => page.own = None

PagesOK ==
    /\ pages \in [Pages -> LongCalls!Page]
    /\ \A p \in Pages : PageNames(pages[p]) /\ (~Hasty => PageFollows(pages[p]))

CallsInv == RegistryOK /\ StoredOK /\ PagesOK

LEMMA CallsInit ==
    ASSUME LongCalls!Init PROVE CallsInv
<1> USE DEF LongCalls!Init
<1>1. RegistryOK
  BY DEF RegistryOK, LongCalls!Places, LongCalls!RunningIsOpen, LongCalls!RunningIds,
     LongCalls!Registered
<1>2. StoredOK
  BY DEF StoredOK, LongCalls!StatusTellsTruth, LongCalls!Registered
<1>3. LongCalls!Away \in LongCalls!Page
  BY DEF LongCalls!Away, LongCalls!Page
<1>4. "idle" \notin CallIds
  BY CallsAssumption DEF LongCalls!NoneAssumption
<1>5. PageNames(LongCalls!Away) /\ PageFollows(LongCalls!Away)
  BY <1>3, <1>4 DEF PageNames, PageFollows, LongCalls!Away
<1>6. PagesOK
  BY <1>3, <1>5 DEF PagesOK
<1> QED  BY <1>1, <1>2, <1>6 DEF CallsInv

-----------------------------------------------------------------------------
(* The requests and the registry.                                          *)

\* The entry of one id changes, the others stay or, being old, go.
LEMMA RegistryStep ==
    ASSUME CallsInv, [LongCalls!Next]_(LongCalls!vars)
    PROVE  RegistryOK' /\ StoredOK'
<1> USE DEF LongCalls!Registered, LongCalls!RunningIds
<1>0. /\ RegistryOK /\ StoredOK /\ PagesOK
      /\ \A id \in CallIds : ops[id] # None => ops[id] \in LongCalls!Operation
  BY DEF CallsInv, RegistryOK
<1>1. ASSUME NEW id \in CallIds, LongCalls!trackOperation(id) PROVE RegistryOK' /\ StoredOK'
  <2> DEFINE new == [status |-> "running", asked |-> FALSE, before |-> LongCalls!RunningIds,
                     old |-> FALSE]
  <2>1. /\ calls[id] = "sent" /\ calls' = [calls EXCEPT ![id] = "working"]
        /\ ops' = [LongCalls!gcLocked EXCEPT ![id] = new]
        /\ UNCHANGED <<droppedCalls, posts, stopped, stored, pages>>
    BY <1>1 DEF LongCalls!trackOperation, LongCalls!Start
  <2>2. new \in LongCalls!Operation /\ new # None
    <3>1. new \in LongCalls!Operation
      BY DEF LongCalls!Operation
    <3> QED  BY <3>1, CallsAssumption DEF LongCalls!NoneAssumption
  <2>3. new.status = "running" /\ ~new.asked /\ ~new.old
    OBVIOUS
  <2> HIDE DEF new
  <2>4. \A x \in CallIds :
           \/ LongCalls!gcLocked[x] = ops[x]
           \/ LongCalls!gcLocked[x] = None /\ ops[x] # None /\ ops[x].old
    BY DEF LongCalls!gcLocked
  <2>5. /\ ops' \in [CallIds -> LongCalls!Operation \cup {None}]
        /\ \A x \in CallIds : x # id => ops'[x] = LongCalls!gcLocked[x]
        /\ ops'[id] = new
    BY <1>0, <2>1, <2>2 DEF LongCalls!gcLocked, RegistryOK
  <2>6. /\ calls' \in [CallIds -> LongCalls!Places]
        /\ \A x \in CallIds : calls'[x] = IF x = id THEN "working" ELSE calls[x]
    BY <1>0, <2>1 DEF RegistryOK, LongCalls!Places
  <2>7. RegistryOK'
    BY <1>0, <2>2, <2>3, <2>4, <2>5, <2>6 DEF RegistryOK, LongCalls!RunningIsOpen, LongCalls!Operation,
       LongCalls!Places
  <2>8. StoredOK'
    <3>1. ASSUME NEW x \in CallIds
          PROVE  /\ calls'[x] \in {"saved", "done"} => x \in stored'
                 /\ calls'[x] \in {"unused", "sent", "working", "failed"} => x \notin stored'
                 /\ x \in posts' \/ (ops'[x] # None /\ ops'[x].asked)
                      => x \in stopped' \/ calls'[x] \notin {"unused", "sent", "working"}
      <4>1. CASE x = id
        BY <1>0, <2>1, <2>3, <2>5, <2>6, <4>1 DEF StoredOK
      <4>2. CASE x # id
        BY <1>0, <2>1, <2>4, <2>5, <2>6, <4>2 DEF StoredOK
      <4> QED  BY <4>1, <4>2
    <3>2. ASSUME NEW x \in CallIds, ops'[x] # None
          PROVE  /\ ops'[x].status = "succeeded" => x \in stored'
                 /\ ops'[x].status \in {"cancelled", "failed"} => x \notin stored'
                 /\ ops'[x].status = "cancelled" => x \in stopped'
      <4>1. CASE x = id
        BY <2>3, <2>5, <4>1
      <4>2. CASE x # id
        BY <1>0, <2>1, <2>4, <2>5, <3>2, <4>2 DEF StoredOK, LongCalls!StatusTellsTruth
      <4> QED  BY <4>1, <4>2
    <3> QED  BY <1>0, <2>1, <3>1, <3>2 DEF StoredOK, LongCalls!StatusTellsTruth
  <2> QED  BY <2>7, <2>8
\* One id at a time: an entry that is written anew or goes, a call that moves on.
<1>2. ASSUME NEW id \in CallIds, LongCalls!Returns(id) PROVE RegistryOK' /\ StoredOK'
  <2> DEFINE end == LongCalls!EndOf(ops[id], calls[id] = "saved")
  <2>1. /\ calls[id] \in {"working", "saved"}
        /\ calls' = [calls EXCEPT ![id] = IF @ = "saved" THEN "done" ELSE "failed"]
        /\ id \in LongCalls!Registered /\ ops[id].status = "running"
        /\ ops' = [ops EXCEPT ![id].status = end]
        /\ UNCHANGED <<posts, stopped, stored, pages>>
    BY <1>0, <1>2 DEF LongCalls!Returns, LongCalls!Finish, RegistryOK, LongCalls!RunningIsOpen
  <2>2. /\ end \in {"succeeded", "cancelled", "failed"}
        /\ end = "succeeded" <=> calls[id] = "saved"
        /\ end = "cancelled" => ops[id].asked
    <3>1. CASE calls[id] = "saved"
      BY <3>1 DEF LongCalls!EndOf
    <3>2. CASE calls[id] # "saved" /\ ops[id].asked
      BY <3>2 DEF LongCalls!EndOf
    <3>3. CASE calls[id] # "saved" /\ ~ops[id].asked
      BY <3>3 DEF LongCalls!EndOf
    <3> QED  BY <3>1, <3>2, <3>3
  <2> HIDE DEF end
  <2>3. ops[id] \in LongCalls!Operation /\ ops[id] # None
    BY <1>0, <2>1
  <2>4. /\ ops' \in [CallIds -> LongCalls!Operation \cup {None}]
        /\ \A x \in CallIds : x # id => ops'[x] = ops[x]
        /\ ops'[id] \in LongCalls!Operation
        /\ ops'[id].status = end /\ ops'[id].asked = ops[id].asked /\ ops'[id].old = ops[id].old
    BY <1>0, <2>1, <2>2, <2>3 DEF RegistryOK, LongCalls!Operation, LongCalls!Ended
  <2>5. /\ calls' \in [CallIds -> LongCalls!Places]
        /\ \A x \in CallIds : x # id => calls'[x] = calls[x]
        /\ calls'[id] = IF calls[id] = "saved" THEN "done" ELSE "failed"
    BY <1>0, <2>1 DEF RegistryOK, LongCalls!Places
  <2>6. ops'[id] # None
    BY <2>4, CallsAssumption DEF LongCalls!NoneAssumption
  <2>7. RegistryOK'
    BY <1>0, <2>1, <2>2, <2>4, <2>5, <2>6 DEF RegistryOK, LongCalls!RunningIsOpen
  <2>8. StoredOK'
    <3>1. ASSUME NEW x \in CallIds
          PROVE  /\ calls'[x] \in {"saved", "done"} => x \in stored'
                 /\ calls'[x] \in {"unused", "sent", "working", "failed"} => x \notin stored'
                 /\ x \in posts' \/ (ops'[x] # None /\ ops'[x].asked)
                      => x \in stopped' \/ calls'[x] \notin {"unused", "sent", "working"}
      <4>1. CASE x = id
        BY <1>0, <2>1, <2>4, <2>5, <4>1 DEF StoredOK
      <4>2. CASE x # id
        BY <1>0, <2>1, <2>4, <2>5, <4>2 DEF StoredOK
      <4> QED  BY <4>1, <4>2
    <3>2. ASSUME NEW x \in CallIds, ops'[x] # None
          PROVE  /\ ops'[x].status = "succeeded" => x \in stored'
                 /\ ops'[x].status \in {"cancelled", "failed"} => x \notin stored'
                 /\ ops'[x].status = "cancelled" => x \in stopped'
      <4>1. CASE x = id
        BY <1>0, <2>1, <2>2, <2>3, <2>4, <2>5, <4>1 DEF StoredOK
      <4>2. CASE x # id
        BY <1>0, <2>1, <2>4, <3>2, <4>2 DEF StoredOK, LongCalls!StatusTellsTruth
      <4> QED  BY <4>1, <4>2
    <3> QED  BY <1>0, <2>1, <3>1, <3>2 DEF StoredOK, LongCalls!StatusTellsTruth
  <2> QED  BY <2>7, <2>8
<1>3. ASSUME NEW id \in CallIds, LongCalls!Vanishes(id) PROVE RegistryOK' /\ StoredOK'
  <2>1. /\ calls[id] = "sent" /\ calls' = [calls EXCEPT ![id] = "gone"]
        /\ UNCHANGED <<ops, posts, stopped, stored, pages>>
    BY <1>3 DEF LongCalls!Vanishes
  <2>2. /\ calls' \in [CallIds -> LongCalls!Places]
        /\ \A x \in CallIds : calls'[x] = IF x = id THEN "gone" ELSE calls[x]
    BY <1>0, <2>1 DEF RegistryOK, LongCalls!Places
  <2> QED  BY <1>0, <2>1, <2>2 DEF RegistryOK, StoredOK, LongCalls!RunningIsOpen, LongCalls!StatusTellsTruth
<1>4. ASSUME NEW id \in CallIds, LongCalls!Saves(id) PROVE RegistryOK' /\ StoredOK'
  <2>1. /\ calls[id] = "working" /\ calls' = [calls EXCEPT ![id] = "saved"]
        /\ stored' = stored \cup {id}
        /\ UNCHANGED <<ops, posts, stopped, pages>>
    BY <1>4 DEF LongCalls!Saves
  <2>2. /\ calls' \in [CallIds -> LongCalls!Places]
        /\ \A x \in CallIds : calls'[x] = IF x = id THEN "saved" ELSE calls[x]
    BY <1>0, <2>1 DEF RegistryOK, LongCalls!Places
  <2> QED  BY <1>0, <2>1, <2>2 DEF RegistryOK, StoredOK, LongCalls!RunningIsOpen, LongCalls!StatusTellsTruth
<1>5. ASSUME NEW id \in CallIds, LongCalls!Ages(id) PROVE RegistryOK' /\ StoredOK'
  <2>1. /\ id \in LongCalls!Registered /\ ops[id].status # "running"
        /\ ops' = [ops EXCEPT ![id].old = TRUE]
        /\ UNCHANGED <<calls, posts, stopped, stored, pages>>
    BY <1>5 DEF LongCalls!Ages
  <2>2. /\ ops' \in [CallIds -> LongCalls!Operation \cup {None}]
        /\ \A x \in CallIds : x # id => ops'[x] = ops[x]
        /\ ops'[id] \in LongCalls!Operation
        /\ ops'[id].status = ops[id].status /\ ops'[id].asked = ops[id].asked
    BY <1>0, <2>1 DEF RegistryOK, LongCalls!Operation
  <2>3. ops'[id] # None
    BY <2>2, CallsAssumption DEF LongCalls!NoneAssumption
  <2> QED  BY <1>0, <2>1, <2>2, <2>3 DEF RegistryOK, StoredOK, LongCalls!RunningIsOpen, LongCalls!StatusTellsTruth
<1>6. ASSUME NEW id \in CallIds, LongCalls!handleCancelOperation(id) PROVE RegistryOK' /\ StoredOK'
  <2>1. /\ id \in posts /\ posts' = posts \ {id}
        /\ ops' = IF id \in LongCalls!RunningIds THEN [ops EXCEPT ![id].asked = TRUE] ELSE ops
        /\ UNCHANGED <<calls, stopped, stored, pages>>
    BY <1>6 DEF LongCalls!handleCancelOperation, LongCalls!Cancel
  <2>2. CASE id \in LongCalls!RunningIds
    <3>1. /\ ops' \in [CallIds -> LongCalls!Operation \cup {None}]
          /\ \A x \in CallIds : x # id => ops'[x] = ops[x]
          /\ ops'[id] \in LongCalls!Operation
          /\ ops'[id].status = ops[id].status /\ ops'[id].old = ops[id].old
      BY <1>0, <2>1, <2>2 DEF RegistryOK, LongCalls!Operation
    <3>2. ops'[id] # None /\ ops[id] # None
      BY <2>2, <3>1, CallsAssumption DEF LongCalls!NoneAssumption
    <3> QED  BY <1>0, <2>1, <3>1, <3>2 DEF RegistryOK, StoredOK, LongCalls!RunningIsOpen, LongCalls!StatusTellsTruth
  <2>3. CASE id \notin LongCalls!RunningIds
    BY <1>0, <2>1, <2>3 DEF RegistryOK, StoredOK, LongCalls!RunningIsOpen, LongCalls!StatusTellsTruth
  <2> QED  BY <2>2, <2>3
<1>7. ASSUME LongCalls!Restart PROVE RegistryOK' /\ StoredOK'
  <2>1. /\ ops' = [id \in CallIds |-> None]
        /\ calls' = [id \in CallIds |-> IF calls[id] \in {"working", "saved"} THEN "gone" ELSE calls[id]]
        /\ UNCHANGED <<posts, stopped, stored, pages>>
    BY <1>7 DEF LongCalls!Restart
  <2> QED  BY <1>0, <2>1 DEF RegistryOK, StoredOK, LongCalls!RunningIsOpen, LongCalls!StatusTellsTruth, LongCalls!Places
<1>8. ASSUME NEW p \in Pages, NEW id \in CallIds, LongCalls!begin(p, id) PROVE RegistryOK' /\ StoredOK'
  <2>1. /\ calls[id] = "unused" /\ calls' = [calls EXCEPT ![id] = "sent"]
        /\ UNCHANGED <<ops, posts, stopped, stored>>
    BY <1>8 DEF LongCalls!begin
  <2>2. /\ calls' \in [CallIds -> LongCalls!Places]
        /\ \A x \in CallIds : calls'[x] = IF x = id THEN "sent" ELSE calls[x]
    BY <1>0, <2>1 DEF RegistryOK, LongCalls!Places
  <2> QED  BY <1>0, <2>1, <2>2 DEF RegistryOK, StoredOK, LongCalls!RunningIsOpen, LongCalls!StatusTellsTruth
<1>9. ASSUME NEW p \in Pages, LongCalls!cancel(p) PROVE RegistryOK' /\ StoredOK'
  <2> DEFINE id == pages[p].id
  <2>1. /\ id # None
        /\ posts' = posts \cup {id}
        /\ stopped' = IF calls[id] \in {"sent", "working"} THEN stopped \cup {id} ELSE stopped
        /\ UNCHANGED <<ops, calls, stored>>
    BY <1>9 DEF LongCalls!cancel
  <2>2. id \in CallIds /\ calls[id] # "unused"
    BY <1>0, <2>1 DEF PagesOK, PageNames, LongCalls!Page
  <2> HIDE DEF id
  <2> QED  BY <1>0, <2>1, <2>2 DEF RegistryOK, StoredOK, LongCalls!RunningIsOpen, LongCalls!StatusTellsTruth
<1>10. ASSUME UNCHANGED <<ops, calls, posts, stopped, stored>> PROVE RegistryOK' /\ StoredOK'
  BY <1>0, <1>10 DEF RegistryOK, StoredOK, LongCalls!RunningIsOpen, LongCalls!StatusTellsTruth
<1> QED
  BY <1>1, <1>2, <1>3, <1>4, <1>5, <1>6, <1>7, <1>8, <1>9, <1>10
  DEF LongCalls!Next, LongCalls!vars, LongCalls!Call, LongCalls!OpenPage, LongCalls!LeavePage,
      LongCalls!Answered, LongCalls!Polls, LongCalls!handleListProjectOperations, LongCalls!Adopts,
      LongCalls!CancelAnswered

-----------------------------------------------------------------------------
(* The pages.                                                              *)

\* A page is shown that names begun calls only; the other pages stay.
LEMMA PageShown ==
    ASSUME PagesOK, NEW p \in Pages, NEW page \in LongCalls!Page, LongCalls!Show(p, page),
           \A id \in CallIds : calls[id] # "unused" => calls'[id] # "unused",
           page.id # None => calls'[page.id] # "unused",
           page.list \in CallIds => calls'[page.list] # "unused",
           ~page.open => page.own = None /\ ~page.resumed /\ page.list = "idle",
           ~Hasty => PageFollows(page)
    PROVE  PagesOK'
<1>1. /\ pages' \in [Pages -> LongCalls!Page]
      /\ \A q \in Pages : pages'[q] = IF q = p THEN page ELSE pages[q]
  BY DEF PagesOK, LongCalls!Show
<1>2. ASSUME NEW q \in Pages PROVE PageNames(pages[q])'
  <2>1. CASE q = p
    BY <1>1, <2>1 DEF PageNames
  <2>2. CASE q # p
    <3>1. /\ PageNames(pages[q]) /\ pages'[q] = pages[q]
      BY <1>1, <2>2 DEF PagesOK
    <3>2. pages[q].id \in CallIds \cup {None}
      BY <3>1 DEF PageNames, LongCalls!Page
    <3> QED  BY <3>1, <3>2 DEF PageNames
  <2> QED  BY <2>1, <2>2
<1>3. ASSUME NEW q \in Pages, ~Hasty PROVE PageFollows(pages[q])'
  BY <1>1, <1>3 DEF PagesOK, PageFollows
<1> QED  BY <1>1, <1>2, <1>3 DEF PagesOK

\* A call never becomes one that was not begun.
LEMMA CallsGoOn ==
    ASSUME CallsInv, [LongCalls!Next]_(LongCalls!vars), NEW id \in CallIds, calls[id] # "unused"
    PROVE  calls'[id] # "unused"
<1>1. calls \in [CallIds -> LongCalls!Places]
  BY DEF CallsInv, RegistryOK
<1> QED
  BY <1>1
  DEF LongCalls!Next, LongCalls!vars, LongCalls!Call, LongCalls!trackOperation, LongCalls!Returns,
      LongCalls!Vanishes, LongCalls!Saves, LongCalls!Ages, LongCalls!handleCancelOperation,
      LongCalls!Restart, LongCalls!OpenPage, LongCalls!LeavePage, LongCalls!begin,
      LongCalls!Answered, LongCalls!Polls, LongCalls!handleListProjectOperations,
      LongCalls!Adopts, LongCalls!cancel, LongCalls!CancelAnswered

\* Each thing a page does leaves it naming begun calls and following its own.
LEMMA PagesStep ==
    ASSUME CallsInv, [LongCalls!Next]_(LongCalls!vars)
    PROVE  PagesOK'
<1>0. /\ RegistryOK /\ StoredOK /\ PagesOK
      /\ \A p \in Pages : PageNames(pages[p]) /\ (~Hasty => PageFollows(pages[p]))
      /\ pages \in [Pages -> LongCalls!Page]
      /\ stored \subseteq CallIds
      /\ \A id \in CallIds : calls[id] # "unused" => calls'[id] # "unused"
  BY CallsGoOn DEF CallsInv, StoredOK, PagesOK
<1>00. {"idle", "asked"} \cap (CallIds \cup {None}) = {} /\ None \notin CallIds
  BY CallsAssumption DEF LongCalls!NoneAssumption
<1>000. \A p \in Pages : pages[p].id \in CallIds \cup {None}
  BY <1>0 DEF LongCalls!Page
<1>1. ASSUME NEW p \in Pages, LongCalls!OpenPage(p) PROVE PagesOK'
  <2> DEFINE page == LongCalls!Loaded([LongCalls!Away EXCEPT !.open = TRUE, !.list = "asked"])
  <2>1. LongCalls!Show(p, page)
    BY <1>1 DEF LongCalls!OpenPage
  <2>2. /\ LongCalls!Away.id = None /\ LongCalls!Away.own = None
        /\ LongCalls!Away.stopping = None /\ LongCalls!Away \in LongCalls!Page
    BY DEF LongCalls!Away, LongCalls!Page
  <2> DEFINE opened == [LongCalls!Away EXCEPT !.open = TRUE, !.list = "asked"]
  <2>3. /\ opened \in LongCalls!Page
        /\ opened.id = None /\ opened.list = "asked" /\ opened.open /\ opened.own = None
        /\ opened.stopping = None
    BY <2>2 DEF LongCalls!Page
  <2> HIDE DEF opened
  <2>4. /\ page \in LongCalls!Page
        /\ page.id = None /\ page.list = "asked" /\ page.open /\ page.own = None
        /\ page.stopping = None
    BY <1>0, <2>3 DEF LongCalls!Page, LongCalls!Loaded, opened
  <2> HIDE DEF page
  <2> QED  BY <1>0, <1>00, <2>1, <2>4, PageShown DEF PageFollows
<1>2. ASSUME NEW p \in Pages, LongCalls!LeavePage(p) PROVE PagesOK'
  <2>1. LongCalls!Show(p, LongCalls!Away)
    BY <1>2 DEF LongCalls!LeavePage
  <2>2. LongCalls!Away \in LongCalls!Page
    BY DEF LongCalls!Away, LongCalls!Page
  <2> QED  BY <1>0, <1>00, <2>1, <2>2, PageShown DEF PageFollows, LongCalls!Away
<1>3. ASSUME NEW p \in Pages, NEW id \in CallIds, LongCalls!begin(p, id) PROVE PagesOK'
  <2> DEFINE page == [pages[p] EXCEPT !.id = id, !.own = id, !.seen = "none"]
  <2>1. LongCalls!Show(p, page) /\ calls'[id] # "unused"
    BY <1>0, <1>3 DEF LongCalls!begin, RegistryOK, LongCalls!Places
  <2>2. pages[p] \in LongCalls!Page
    BY <1>0
  <2>3. /\ page \in LongCalls!Page /\ page.id = id /\ page.own = id
        /\ page.open = pages[p].open /\ page.resumed = pages[p].resumed
        /\ page.list = pages[p].list /\ page.stopping = pages[p].stopping
    BY <2>2 DEF LongCalls!Page
  <2> HIDE DEF page
  <2>4. pages[p].open /\ ~pages[p].resumed /\ (~Hasty => pages[p].stopping = None)
    BY <1>3 DEF LongCalls!begin, LongCalls!Writing
  <2> QED  BY <1>0, <1>00, <2>1, <2>3, <2>4, <1>000, PageShown DEF PageNames, PageFollows
<1>4. ASSUME NEW p \in Pages, LongCalls!Answered(p) PROVE PagesOK'
  <2> DEFINE page == LongCalls!Loaded([pages[p] EXCEPT !.own = None])
             next == IF calls[pages[p].own] = "done" THEN LongCalls!end(page) ELSE page
  <2>1. LongCalls!Show(p, next)
    BY <1>4 DEF LongCalls!Answered
  <2>2. pages[p] \in LongCalls!Page
    BY <1>0
  <2>3. /\ page \in LongCalls!Page /\ page.own = None /\ page.id = pages[p].id
        /\ page.open = pages[p].open /\ page.resumed = pages[p].resumed
        /\ page.list = pages[p].list /\ page.stopping = pages[p].stopping
    BY <1>0, <2>2 DEF LongCalls!Page, LongCalls!Loaded
  <2> HIDE DEF page
  <2>4. /\ next \in LongCalls!Page /\ next.own = None /\ next.id \in {None, page.id}
        /\ next.open = page.open /\ (next.resumed => page.resumed)
        /\ next.list = page.list /\ next.stopping = page.stopping
    BY <2>3 DEF LongCalls!Page, LongCalls!end
  <2> HIDE DEF next
  <2> QED  BY <1>0, <2>1, <2>3, <2>4, <1>000, PageShown DEF PageNames, PageFollows
<1>5. ASSUME NEW p \in Pages, LongCalls!Polls(p) PROVE PagesOK'
  <2> DEFINE page == [pages[p] EXCEPT !.seen = ops[pages[p].id].status]
             next == LongCalls!Settled(page)
  <2>1. LongCalls!Show(p, next) /\ pages[p].id \in LongCalls!Registered /\ pages[p].resumed
    BY <1>5 DEF LongCalls!Polls
  <2>2. pages[p] \in LongCalls!Page /\ ops[pages[p].id] \in LongCalls!Operation
    BY <1>0, <2>1 DEF LongCalls!Registered, RegistryOK
  <2>3. /\ page \in LongCalls!Page /\ page.own = pages[p].own /\ page.id = pages[p].id
        /\ page.open = pages[p].open /\ page.resumed = pages[p].resumed
        /\ page.list = pages[p].list /\ page.stopping = pages[p].stopping
    BY <2>2 DEF LongCalls!Page, LongCalls!Operation
  <2> HIDE DEF page
  <2>4. /\ next \in LongCalls!Page /\ next.own = page.own /\ next.id \in {None, page.id}
        /\ next.open = page.open /\ (next.resumed => page.resumed)
        /\ next.list = page.list /\ next.stopping = page.stopping
    BY <1>0, <2>3 DEF LongCalls!Page, LongCalls!Settled, LongCalls!Loaded, LongCalls!end
  <2> HIDE DEF next
  <2> QED  BY <1>0, <2>1, <2>3, <2>4, <1>000, PageShown DEF PageNames, PageFollows
<1>6. ASSUME NEW p \in Pages, LongCalls!handleListProjectOperations(p) PROVE PagesOK'
  <2>1. PICK found \in LongCalls!Running \cup {None} :
           LongCalls!Show(p, [pages[p] EXCEPT !.list = found])
    BY <1>6 DEF LongCalls!handleListProjectOperations
  <2> DEFINE page == [pages[p] EXCEPT !.list = found]
  <2>2. pages[p] \in LongCalls!Page
    BY <1>0
  <2>3. found \in CallIds \cup {None} /\ (found \in CallIds => calls[found] # "unused")
    <3>1. found # None => found \in LongCalls!RunningIds /\ found \in CallIds
      BY <2>1 DEF LongCalls!Running, LongCalls!RunningIds, LongCalls!Registered
    <3>2. \A id \in CallIds : id \in LongCalls!RunningIds => calls[id] # "unused"
      BY <1>0 DEF RegistryOK, LongCalls!RunningIsOpen
    <3> QED  BY <1>00, <3>1, <3>2
  <2>4. /\ page \in LongCalls!Page /\ page.own = pages[p].own /\ page.id = pages[p].id
        /\ page.open = pages[p].open /\ page.resumed = pages[p].resumed
        /\ page.list = found /\ page.stopping = pages[p].stopping
    BY <2>2, <2>3 DEF LongCalls!Page
  <2>5. LongCalls!Show(p, page)
    BY <2>1
  <2> HIDE DEF page
  <2>6. pages[p].list = "asked" /\ pages[p].open
    BY <1>0, <1>6 DEF LongCalls!handleListProjectOperations, PageNames
  <2> QED  BY <1>0, <1>000, <2>3, <2>4, <2>5, <2>6, PageShown DEF PageNames, PageFollows
<1>7. ASSUME NEW p \in Pages, LongCalls!Adopts(p) PROVE PagesOK'
  <2> DEFINE page == LongCalls!Adopted(pages[p])
             next == [page EXCEPT !.list = "idle"]
  <2>1. LongCalls!Show(p, next) /\ pages[p].list \notin {"idle", "asked"}
    BY <1>7 DEF LongCalls!Adopts
  <2>2. pages[p] \in LongCalls!Page /\ pages[p].list \in CallIds \cup {None}
    BY <1>0, <2>1 DEF LongCalls!Page
  <2>3. /\ page \in LongCalls!Page /\ page.own = pages[p].own
        /\ page.open = pages[p].open /\ page.stopping = pages[p].stopping
        /\ \/ page.id = pages[p].id /\ page.resumed = pages[p].resumed
           \/ pages[p].id = None /\ pages[p].list # None /\ page.id = pages[p].list /\ page.resumed
    BY <2>2 DEF LongCalls!Page, LongCalls!Adopted
  <2> HIDE DEF page
  <2>4. /\ next \in LongCalls!Page /\ next.own = page.own /\ next.id = page.id
        /\ next.open = page.open /\ next.resumed = page.resumed
        /\ next.list = "idle" /\ next.stopping = page.stopping
    BY <2>3 DEF LongCalls!Page
  <2> HIDE DEF next
  <2>5. next.id # None => calls'[next.id] # "unused"
    BY <1>0, <1>000, <2>2, <2>3, <2>4 DEF PageNames
  <2>6. ~next.open => next.own = None /\ ~next.resumed /\ next.list = "idle"
    <3>1. ~pages[p].open => pages[p].list = "idle"
      BY <1>0 DEF PageNames
    <3> QED  BY <1>0, <2>1, <2>3, <2>4, <3>1 DEF PageNames
  <2>7. ~Hasty => PageFollows(next)
    BY <1>0, <2>3, <2>4 DEF PageFollows
  <2> QED  BY <1>0, <1>00, <2>1, <2>4, <2>5, <2>6, <2>7, PageShown
<1>8. ASSUME NEW p \in Pages, LongCalls!cancel(p) PROVE PagesOK'
  <2> DEFINE page == [pages[p] EXCEPT !.own = None, !.stopping = pages[p].id]
  <2>1. LongCalls!Show(p, page)
    BY <1>8 DEF LongCalls!cancel
  <2>2. pages[p] \in LongCalls!Page
    BY <1>0
  <2>3. /\ page \in LongCalls!Page /\ page.own = None /\ page.id = pages[p].id
        /\ page.open = pages[p].open /\ page.resumed = pages[p].resumed
        /\ page.list = pages[p].list
    BY <2>2 DEF LongCalls!Page
  <2> HIDE DEF page
  <2> QED  BY <1>0, <2>1, <2>3, <1>000, PageShown DEF PageNames, PageFollows
<1>9. ASSUME NEW p \in Pages, LongCalls!CancelAnswered(p) PROVE PagesOK'
  <2> DEFINE page == LongCalls!end([pages[p] EXCEPT !.stopping = None])
  <2>1. LongCalls!Show(p, page) /\ pages[p].stopping # None
    BY <1>9 DEF LongCalls!CancelAnswered
  <2>2. pages[p] \in LongCalls!Page
    BY <1>0
  <2>3. /\ page \in LongCalls!Page /\ page.own = pages[p].own /\ page.id = None
        /\ page.open = pages[p].open /\ ~page.resumed /\ page.stopping = None
        /\ page.list = pages[p].list
    BY <2>2 DEF LongCalls!Page, LongCalls!end
  <2> HIDE DEF page
  <2> QED  BY <1>0, <2>1, <2>3, <1>000, PageShown DEF PageNames, PageFollows
<1>10. ASSUME pages' = pages PROVE PagesOK'
  <2>1. ASSUME NEW p \in Pages PROVE PageNames(pages[p])'
    <3>1. PageNames(pages[p]) /\ pages[p].id \in CallIds \cup {None}
      BY <1>0 DEF PagesOK, LongCalls!Page
    <3> QED  BY <1>0, <1>10, <3>1 DEF PageNames
  <2> QED  BY <1>0, <1>10, <2>1 DEF PagesOK, PageFollows
<1> QED
  BY <1>1, <1>2, <1>3, <1>4, <1>5, <1>6, <1>7, <1>8, <1>9, <1>10
  DEF LongCalls!Next, LongCalls!vars, LongCalls!Call, LongCalls!trackOperation, LongCalls!Returns,
      LongCalls!Vanishes, LongCalls!Saves, LongCalls!Ages, LongCalls!handleCancelOperation,
      LongCalls!Restart

LEMMA CallsStep ==
    ASSUME CallsInv, [LongCalls!Next]_(LongCalls!vars) PROVE CallsInv'
BY RegistryStep, PagesStep DEF CallsInv

-----------------------------------------------------------------------------
(* What the registry and the pages promise.                                *)

\* An entry that ended is overwritten by no start: its id is not sent again.
LEMMA EndedStaysEnded ==
    ASSUME CallsInv, [LongCalls!Next]_(LongCalls!vars),
           NEW id \in LongCalls!Registered, ops[id].status \in LongCalls!Ended, ops'[id] # None
    PROVE  ops'[id].status = ops[id].status
<1>1. id \in CallIds /\ ops[id] # None /\ ops[id] \in LongCalls!Operation
  BY DEF LongCalls!Registered, CallsInv, RegistryOK
<1>2. calls[id] \notin {"unused", "sent", "working", "saved"} /\ id \notin LongCalls!RunningIds
  BY <1>1 DEF CallsInv, RegistryOK, LongCalls!RunningIsOpen, LongCalls!RunningIds, LongCalls!Registered,
     LongCalls!Ended
<1>3. ops \in [CallIds -> LongCalls!Operation \cup {None}]
  BY DEF CallsInv, RegistryOK
<1>4. ASSUME NEW x \in CallIds, LongCalls!trackOperation(x) PROVE ops'[id] = ops[id]
  <2>1. x # id
    BY <1>2, <1>4 DEF LongCalls!trackOperation
  <2> QED  BY <1>1, <1>4, <2>1 DEF LongCalls!trackOperation, LongCalls!Start, LongCalls!gcLocked
<1>5. ASSUME NEW x \in CallIds, LongCalls!Returns(x) PROVE ops'[id] = ops[id]
  <2>1. x # id
    BY <1>2, <1>5 DEF LongCalls!Returns
  <2> QED  BY <1>1, <1>3, <1>5, <2>1 DEF LongCalls!Returns, LongCalls!Finish
<1>6. ASSUME NEW x \in CallIds, LongCalls!Ages(x) PROVE ops'[id].status = ops[id].status
  BY <1>1, <1>3, <1>6 DEF LongCalls!Ages, LongCalls!Operation
<1>7. ASSUME NEW x \in CallIds, LongCalls!handleCancelOperation(x) PROVE ops'[id] = ops[id]
  <2>1. ops' = ops \/ (x # id /\ ops' = [ops EXCEPT ![x].asked = TRUE])
    BY <1>2, <1>7 DEF LongCalls!handleCancelOperation, LongCalls!Cancel
  <2> QED  BY <1>1, <1>3, <2>1
<1>8. CASE LongCalls!Restart
  BY <1>1, <1>8 DEF LongCalls!Restart
<1>9. CASE UNCHANGED ops
  BY <1>9
<1> QED
  BY <1>4, <1>5, <1>6, <1>7, <1>8, <1>9
  DEF LongCalls!Next, LongCalls!vars, LongCalls!Call, LongCalls!Vanishes, LongCalls!Saves,
      LongCalls!OpenPage, LongCalls!LeavePage, LongCalls!begin, LongCalls!Answered, LongCalls!Polls,
      LongCalls!handleListProjectOperations, LongCalls!Adopts, LongCalls!cancel,
      LongCalls!CancelAnswered

\* A page that stops following a run without having asked it to stop has loaded
\* what is stored, and nothing is stored in that step.
LEMMA SettledShows ==
    ASSUME CallsInv, [LongCalls!Next]_(LongCalls!vars), NEW p \in Pages,
           LongCalls!Writing(p), pages'[p].open, ~LongCalls!Writing(p)',
           pages[p].stopping = None, pages'[p].stopping = None
    PROVE  stored \subseteq pages'[p].shown
<1>1. /\ pages \in [Pages -> LongCalls!Page] /\ pages[p] \in LongCalls!Page /\ pages[p].open
      /\ \A q \in Pages : ~pages[q].open => ~LongCalls!Writing(q)
  BY DEF CallsInv, PagesOK, PageNames, LongCalls!Writing
<1>2. None \notin CallIds
  BY CallsAssumption DEF LongCalls!NoneAssumption
<1>3. CASE UNCHANGED pages
  BY <1>3 DEF LongCalls!Writing
<1>4. ASSUME NEW q \in Pages, q # p, NEW page, LongCalls!Show(q, page) PROVE FALSE
  <2>1. pages'[p] = pages[p]
    BY <1>1, <1>4 DEF LongCalls!Show
  <2> QED  BY <2>1 DEF LongCalls!Writing
<1>5. ASSUME NEW q \in Pages, LongCalls!OpenPage(q) PROVE FALSE
  <2>1. q = p
    BY <1>4, <1>5 DEF LongCalls!OpenPage
  <2> QED  BY <1>1, <1>5, <2>1 DEF LongCalls!OpenPage
<1>6. ASSUME NEW q \in Pages, LongCalls!LeavePage(q) PROVE FALSE
  <2>1. q = p
    BY <1>4, <1>6 DEF LongCalls!LeavePage
  <2>2. pages'[p] = LongCalls!Away
    BY <1>1, <1>6, <2>1 DEF LongCalls!LeavePage, LongCalls!Show
  <2> QED  BY <2>2 DEF LongCalls!Away
<1>7. ASSUME NEW q \in Pages, NEW id \in CallIds, LongCalls!begin(q, id) PROVE FALSE
  <2>1. q = p
    BY <1>4, <1>7 DEF LongCalls!begin
  <2> QED  BY <1>7, <2>1 DEF LongCalls!begin
<1>8. ASSUME NEW q \in Pages, LongCalls!Answered(q) PROVE stored \subseteq pages'[p].shown
  <2> DEFINE page == LongCalls!Loaded([pages[p] EXCEPT !.own = None])
             next == IF calls[pages[q].own] = "done" THEN LongCalls!end(page) ELSE page
  <2>1. q = p
    BY <1>4, <1>8 DEF LongCalls!Answered
  <2>2. page \in LongCalls!Page /\ page.shown = stored
    BY <1>1 DEF LongCalls!Page, LongCalls!Loaded, CallsInv, StoredOK
  <2>3. pages'[p] = next
    BY <1>1, <1>8, <2>1 DEF LongCalls!Answered, LongCalls!Show
  <2> HIDE DEF page
  <2>4. next.shown = stored
    BY <2>2 DEF LongCalls!Page, LongCalls!end
  <2> QED  BY <2>3, <2>4
<1>9. ASSUME NEW q \in Pages, LongCalls!Polls(q) PROVE stored \subseteq pages'[p].shown
  <2> DEFINE page == [pages[p] EXCEPT !.seen = ops[pages[p].id].status]
  <2>1. q = p /\ pages'[p] = LongCalls!Settled(page) /\ pages[p].resumed
    <3>1. q = p
      BY <1>4, <1>9 DEF LongCalls!Polls
    <3> QED  BY <1>1, <1>9, <3>1 DEF LongCalls!Polls, LongCalls!Show
  <2>2. ops[pages[p].id] \in LongCalls!Operation
    BY <1>9, <2>1 DEF LongCalls!Polls, LongCalls!Registered, CallsInv, RegistryOK
  <2>3. page \in LongCalls!Page /\ page.resumed
    BY <1>1, <2>1, <2>2 DEF LongCalls!Page, LongCalls!Operation
  <2> HIDE DEF page
  <2>4. pages'[p] # page
    BY <2>3 DEF LongCalls!Writing
  <2> DEFINE closed == IF page.seen = "failed" THEN [page EXCEPT !.resumed = FALSE]
                       ELSE LongCalls!end(page)
  <2>5. pages'[p] = LongCalls!Loaded(closed)
    BY <2>1, <2>4 DEF LongCalls!Settled
  <2>6. closed \in LongCalls!Page
    BY <2>3 DEF LongCalls!Page, LongCalls!end
  <2> HIDE DEF closed
  <2> QED  BY <2>5, <2>6 DEF LongCalls!Page, LongCalls!Loaded
<1>10. ASSUME NEW q \in Pages, LongCalls!handleListProjectOperations(q) PROVE FALSE
  <2>1. q = p
    BY <1>4, <1>10 DEF LongCalls!handleListProjectOperations
  <2>2. PICK found : pages'[p] = [pages[p] EXCEPT !.list = found]
    BY <1>1, <1>10, <2>1 DEF LongCalls!handleListProjectOperations, LongCalls!Show
  <2> QED  BY <1>1, <2>2 DEF LongCalls!Writing, LongCalls!Page
<1>11. ASSUME NEW q \in Pages, LongCalls!Adopts(q) PROVE FALSE
  <2> DEFINE page == LongCalls!Adopted(pages[p])
  <2>1. q = p /\ pages[p].list \in CallIds \cup {None}
    <3>1. q = p
      BY <1>4, <1>11 DEF LongCalls!Adopts
    <3> QED  BY <1>1, <1>11, <3>1 DEF LongCalls!Adopts, LongCalls!Page
  <2>2. pages'[p] = [page EXCEPT !.list = "idle"]
    BY <1>1, <1>11, <2>1 DEF LongCalls!Adopts, LongCalls!Show
  <2>3. page \in LongCalls!Page /\ page.own = pages[p].own /\ (pages[p].resumed => page.resumed)
    BY <1>1, <2>1 DEF LongCalls!Page, LongCalls!Adopted
  <2> HIDE DEF page
  <2> QED  BY <2>2, <2>3 DEF LongCalls!Writing, LongCalls!Page
<1>12. ASSUME NEW q \in Pages, LongCalls!cancel(q) PROVE FALSE
  <2>1. q = p
    BY <1>4, <1>12 DEF LongCalls!cancel
  <2>2. pages'[p] = [pages[p] EXCEPT !.own = None, !.stopping = pages[p].id] /\ pages[p].id # None
    BY <1>1, <1>12, <2>1 DEF LongCalls!cancel, LongCalls!Show
  <2> QED  BY <1>1, <2>2 DEF LongCalls!Page
<1>13. ASSUME NEW q \in Pages, LongCalls!CancelAnswered(q) PROVE FALSE
  <2>1. q = p
    BY <1>4, <1>13 DEF LongCalls!CancelAnswered
  <2> QED  BY <1>13, <2>1 DEF LongCalls!CancelAnswered
<1> QED
  BY <1>3, <1>5, <1>6, <1>7, <1>8, <1>9, <1>10, <1>11, <1>12, <1>13
  DEF LongCalls!Next, LongCalls!vars, LongCalls!Call, LongCalls!trackOperation, LongCalls!Returns,
      LongCalls!Vanishes, LongCalls!Saves, LongCalls!Ages, LongCalls!handleCancelOperation,
      LongCalls!Restart

\* Whatever is stopped, restarted, adopted or asked for again: an id runs in the
\* registry exactly while its call does, and what the registry says of an ended call
\* is so and stays; a page that settles shows what its run stored.
THEOREM RegistryTellsTruth ==
    LongCalls!Spec => /\ [](LongCalls!RunningIsOpen /\ LongCalls!StatusTellsTruth)
                      /\ LongCalls!EndStands /\ LongCalls!SettledIsShown
<1>1. CallsInv => LongCalls!RunningIsOpen /\ LongCalls!StatusTellsTruth
  BY DEF CallsInv, RegistryOK, StoredOK
<1>2. ASSUME CallsInv, [LongCalls!Next]_(LongCalls!vars)
      PROVE  \A id \in LongCalls!Registered :
                ops[id].status \in LongCalls!Ended /\ ops'[id] # None => ops'[id].status = ops[id].status
  BY <1>2, EndedStaysEnded
<1>3. ASSUME CallsInv, [LongCalls!Next]_(LongCalls!vars)
      PROVE  \A p \in Pages :
                LET id == pages[p].id
                IN  /\ LongCalls!Writing(p) /\ pages'[p].open /\ ~LongCalls!Writing(p)'
                    /\ pages[p].stopping = None /\ pages'[p].stopping = None
                    /\ id \in stored
                    => id \in pages'[p].shown
  BY <1>3, SettledShows
<1> QED
  BY <1>1, <1>2, <1>3, CallsInit, CallsStep, PTL
  DEF LongCalls!Spec, LongCalls!EndStands, LongCalls!SettledIsShown

\* Where no Creator starts a call before a stop was answered, the pages tell the
\* truth too: one with a request of its own follows that one.
THEOREM OperationsTellTruthAlways ==
    ASSUME Hasty = FALSE
    PROVE  LongCalls!Spec => OperationsTellTruth
<1>1. CallsInv => LongCalls!FollowsOwn
  BY DEF CallsInv, PagesOK, PageFollows, LongCalls!FollowsOwn
<1>2. LongCalls!Spec => [](LongCalls!FollowsOwn)
  BY <1>1, CallsInit, CallsStep, PTL DEF LongCalls!Spec
<1> QED  BY <1>2, RegistryTellsTruth, PTL DEF OperationsTellTruth, LongCalls!OperationsTellTruth

-----------------------------------------------------------------------------
(* The two side by side.                                                   *)

\* Each part does in the joint run only what it does alone.
THEOREM SideBySide == OneOfSpec => Spec /\ LongCalls!Spec
<1>1. OneOfInit => Init /\ LongCalls!Init
  BY DEF OneOfInit
<1>2. [OneOfNext]_<<part, voiceVars, callVars>> => [Next]_vars /\ [LongCalls!Next]_(LongCalls!vars)
  BY DEF OneOfNext, voiceVars, callVars, vars, LongCalls!vars
<1> QED  BY <1>1, <1>2, PTL DEF OneOfSpec, Spec, LongCalls!Spec
=============================================================================
