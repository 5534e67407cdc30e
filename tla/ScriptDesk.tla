------------------------------ MODULE ScriptDesk ------------------------------
(***************************************************************************)
(* The dialogue of the beats (authoring-service, script_units.go,          *)
(* script_writer.go, script_replace.go, the generic unit buttons of        *)
(* review_units.go).  One row per beat holds its lines; a request reads    *)
(* rows, works on its copy, for minutes when the model writes, and saves   *)
(* each row back whole.  The beats below the dialogue may change meanwhile *)
(* (BeatSheet): here a beat is the version of its content and its status.  *)
(* The wording of a dialogue is the number of the request that wrote it.   *)
(***************************************************************************)
EXTENDS Integers, FiniteSets

CONSTANTS
    Beats,          \* keys of the beats of the sheet
    Threads,        \* goroutines that may serve a request at one time
    MaxLines,       \* lines a dialogue may hold
    MaxVersions,    \* bound: contents a beat may have
    MaxChanges,     \* bound: changes of the beats
    MaxRequests     \* bound: requests on the dialogue

SetsAssumption == IsFiniteSet(Beats) /\ Threads # {}
BoundsAssumption ==
    /\ {MaxLines, MaxVersions} \subseteq Nat \ {0}
    /\ {MaxChanges, MaxRequests} \subseteq Nat

VARIABLES
    beat,      \* beat |-> its content version, 0 once deleted, and its status
    editable,  \* the project is a draft or failed, so its inputs may change
    script,    \* beat |-> its stored dialogue, NoScript without a row
    job,       \* thread |-> the request it serves and what it has read
    changes,
    requests

vars == <<beat, editable, script, job, changes, requests>>

-----------------------------------------------------------------------------
(* A dialogue: the numbers of its lines, the number the next line takes,   *)
(* the request that wrote its wording, whether the Creator did, its status *)
(* and the version of the beat it records, 0 for none.                     *)

Script == [lines : SUBSET Nat, nextSeq : Nat \ {0}, words : Nat, mine : BOOLEAN,
           approved : BOOLEAN, sha : 0 .. MaxVersions]

NoScript == [lines |-> {}, nextSeq |-> 0]

Idle == [op |-> "none"]

Stored(b) == script[b] # NoScript

\* UnitSHA of the beat: the hash of its content, none for a beat that is gone.
UnitSHA(b) == beat[b].version

\* The beat changed since its dialogue was written, as the script screen says.
Stale(b) == Stored(b) /\ script[b].sha # UnitSHA(b)

InSheet == {b \in Beats : beat[b].version # 0}

beatsApproved == InSheet # {} /\ \A b \in InSheet : beat[b].approved

\* ScriptBeat.Validate: what an edit and a reply must both satisfy.
Validate(new) ==
    Cardinality(new.lines) <= MaxLines /\ \A n \in new.lines : n < new.nextSeq

\* How many lines a reply of use has.
ParseScriptReply == 1 .. MaxLines

Init ==
    /\ beat = [b \in Beats |-> [version |-> 1, approved |-> TRUE]]
    /\ editable = TRUE
    /\ script = [b \in Beats |-> NoScript]
    /\ job = [t \in Threads |-> Idle]
    /\ changes = 0 /\ requests = 0

-----------------------------------------------------------------------------
(* The beat sheet and the render saga.                                     *)

ChangeBeat(b) ==
    /\ editable /\ changes < MaxChanges /\ b \in InSheet
    /\ \/ \E v \in 1 .. MaxVersions \ {beat[b].version} :
             beat' = [beat EXCEPT ![b] = [version |-> v, approved |-> FALSE]]
       \/ beat' = [beat EXCEPT ![b].version = 0]
    /\ changes' = changes + 1
    /\ UNCHANGED <<editable, script, job, requests>>

ApproveBeat(b) ==
    /\ editable /\ b \in InSheet /\ ~beat[b].approved
    /\ beat' = [beat EXCEPT ![b].approved = TRUE]
    /\ UNCHANGED <<editable, script, job, changes, requests>>

\* A row is replaced whole, or deleted.
saveScriptUnit(b, new) == script' = [script EXCEPT ![b] = new]

\* The second write of a beat's deletion.
DeleteUnit(b) ==
    /\ b \notin InSheet /\ Stored(b)
    /\ saveScriptUnit(b, NoScript)
    /\ UNCHANGED <<beat, editable, job, changes, requests>>

Lock ==
    /\ editable' = ~editable
    /\ UNCHANGED <<beat, script, job, changes, requests>>

-----------------------------------------------------------------------------
(* The first half of a request: its checks and what it reads.              *)

Serve(t, op, todo) ==
    /\ job[t] = Idle /\ editable /\ requests < MaxRequests
    /\ requests' = requests + 1
    /\ job' = [job EXCEPT ![t] =
                  [op |-> op, todo |-> todo, stamp |-> requests + 1, read |-> script,
                   sha |-> [b \in Beats |-> UnitSHA(b)]]]
    /\ UNCHANGED <<beat, editable, script, changes>>

Edit(t, b) == b \in InSheet /\ Serve(t, "Edit", {b})

Redo(t, b) == b \in InSheet /\ beatsApproved /\ Serve(t, "Redo", {b})

Unwritten(asked) == {b \in asked \cap InSheet : script[b].lines = {}}

\* The beats without lines, all or the one asked for.
Generate(t, asked) ==
    /\ beatsApproved
    /\ LET todo == Unwritten(asked)
       IN  /\ todo # {} /\ (asked # Beats => todo = asked)
           /\ Serve(t, "Generate", todo)

\* Mutant: the beats that are approved are not skipped.
ReplaceableAll(matching) == {b \in matching : Stored(b)}

\* The beats whose lines match the word, the approved ones skipped.
Replaceable(matching) == {b \in matching : Stored(b) /\ ~script[b].approved}

Replace(t, matching) ==
    /\ \A b \in matching : b \in InSheet /\ script[b].lines # {}
    /\ Replaceable(matching) # {}
    /\ Serve(t, "Replace", Replaceable(matching))

Approve(t, b) == Stored(b) /\ script[b].lines # {} /\ Serve(t, "Approve", {b})

Unapprove(t, b) == Stored(b) /\ Serve(t, "Unapprove", {b})

-----------------------------------------------------------------------------
(* The second half: the row of one beat is saved from the copy read.       *)

saveScript(t, b, new) ==
    LET rest == job[t].todo \ {b}
    IN  /\ saveScriptUnit(b, new)
        /\ job' = [job EXCEPT ![t] = IF rest = {} THEN Idle ELSE [job[t] EXCEPT !.todo = rest]]
        /\ UNCHANGED <<beat, editable, changes, requests>>

\* What an edit finds: the row, or an empty one of the beat as it is now.
Editable(j, b) ==
    IF j.read[b] # NoScript THEN j.read[b]
    ELSE [lines |-> {}, nextSeq |-> 1, words |-> 0, mine |-> FALSE, approved |-> FALSE,
          sha |-> j.sha[b]]

\* Mutant: an edit records the beat as it is now.
EditedAsFresh(j, b) ==
    {[Editable(j, b) EXCEPT !.words = j.stamp, !.mine = TRUE, !.approved = FALSE,
                            !.sha = UnitSHA(b)]}

\* Lines are taken out, and at most one is put in, under the next number.
EditedTo(j, old, out, more) ==
    [old EXCEPT !.lines = (@ \ out) \cup (old.nextSeq .. old.nextSeq + more - 1),
                !.nextSeq = @ + more, !.words = j.stamp, !.mine = TRUE, !.approved = FALSE]

Edited(j, b) ==
    LET old == Editable(j, b)
    IN  {EditedTo(j, old, out, more) : out \in SUBSET old.lines, more \in 0 .. 1}

EndEdit(t) ==
    /\ job[t].op = "Edit"
    /\ \E b \in job[t].todo : \E new \in Edited(job[t], b) :
          Validate(new) /\ saveScript(t, b, new)

\* Redo goes on from the row's number, Generate starts a dialogue anew.
NumberedFrom(j, b) ==
    IF j.op = "Redo" /\ j.read[b] # NoScript THEN j.read[b].nextSeq ELSE 1

\* The lines the model wrote; the beat's hash is read once they are there.
writeBeat(t, b) ==
    \E n \in ParseScriptReply :
        LET next == NumberedFrom(job[t], b)
        IN  saveScript(t, b,
                [lines |-> next .. next + n - 1, nextSeq |-> next + n, words |-> job[t].stamp,
                 mine |-> FALSE, approved |-> FALSE, sha |-> UnitSHA(b)])

EndWrite(t) ==
    /\ job[t].op \in {"Redo", "Generate"}
    /\ \E b \in job[t].todo : writeBeat(t, b)

EndReplace(t) ==
    /\ job[t].op = "Replace"
    /\ \E b \in job[t].todo :
          saveScript(t, b, [job[t].read[b] EXCEPT !.words = job[t].stamp, !.mine = TRUE,
                                                  !.approved = FALSE])

EndSetStatus(t) ==
    /\ job[t].op \in {"Approve", "Unapprove"}
    /\ \E b \in job[t].todo :
          saveScript(t, b, [job[t].read[b] EXCEPT !.approved = job[t].op = "Approve"])

\* An unusable reply, a failed query, a cancel or a restart: what a run has
\* saved stays, the rest is not written.
GiveUp(t) ==
    /\ job[t] # Idle
    /\ job' = [job EXCEPT ![t] = Idle]
    /\ UNCHANGED <<beat, editable, script, changes, requests>>

Request(t) ==
    \/ \E b \in Beats : Edit(t, b) \/ Redo(t, b) \/ Approve(t, b) \/ Unapprove(t, b)
    \/ \E asked \in {Beats} \cup {{b} : b \in Beats} : Generate(t, asked)
    \/ \E matching \in SUBSET Beats : Replace(t, matching)

End(t) == EndEdit(t) \/ EndWrite(t) \/ EndReplace(t) \/ EndSetStatus(t) \/ GiveUp(t)

Next ==
    \/ Lock
    \/ \E b \in Beats : ChangeBeat(b) \/ ApproveBeat(b) \/ DeleteUnit(b)
    \/ \E t \in Threads : Request(t) \/ End(t)

Spec == Init /\ [][Next]_vars

-----------------------------------------------------------------------------
\* A row has the shape of project_script, its lines are numbered below the
\* counter, and only a dialogue with lines is approved (ScriptBeat.Validate,
\* CheckApprovable).
TypeOK ==
    /\ beat \in [Beats -> [version : 0 .. MaxVersions, approved : BOOLEAN]]
    /\ editable \in BOOLEAN
    /\ \A b \in Beats : Stored(b) =>
          /\ script[b] \in Script
          /\ \A n \in script[b].lines : n < script[b].nextSeq
          /\ script[b].approved => script[b].lines # {}
    /\ \A t \in Threads : job[t] = Idle \/ job[t].todo \subseteq Beats
    /\ changes \in 0 .. MaxChanges /\ requests \in 0 .. MaxRequests

\* Nothing happens to approved dialogue but what the Creator asks of that beat, and
\* that sends it back to review; what the Creator wrote by hand goes only when that
\* beat is written again or deleted.  A run over the whole script spares both
\* (Replace, Generate, Edit, Redo, setStatus).
SparedDialogueStands ==
    [][\A b \in InSheet :
          /\ Stored(b) /\ script[b].approved /\ script'[b] # script[b] =>
                /\ \E t \in Threads :
                      job[t].op \in {"Edit", "Redo", "Unapprove"} /\ job[t].todo = {b}
                /\ ~script'[b].approved
          /\ /\ Stored(b) /\ script[b].mine /\ script[b].lines # {}
             /\ script'[b] = NoScript \/ ~script'[b].mine
             => \E t \in Threads : job[t].op = "Redo" /\ job[t].todo = {b}]_vars

\* A dialogue that reads as out of date goes on doing so until the model writes
\* it again or the beat gets that content back: no edit, replacement or approval
\* makes it read as written from the beat of now (Edit, Replace, setStatus).
StaleUntilRewritten ==
    [][\A b \in Beats : Stale(b) /\ beat'[b] = beat[b] /\ script'[b] # NoScript
          => Stale(b)' \/ \E t \in Threads : job[t].op \in {"Redo", "Generate"}]_vars

=============================================================================
