------------------------------ MODULE ScriptLock ------------------------------
(***************************************************************************)
(* Locking the script (authoring-service, script_lock_desk.go,             *)
(* script_lock_ai.go, handoff_units.go, domain/script_review.go).  The     *)
(* desk keeps a handoff note per beat, one review of the whole dialogue,   *)
(* one glossary and the locked versions.  Every row is read whole, worked  *)
(* on, for minutes when the model writes, and saved whole; nothing holds a *)
(* lock in between.  The dialogue of a beat is its wording and its status  *)
(* (ScriptDesk has its life); brief, facts, story and beat sheet stay as   *)
(* they are.                                                               *)
(***************************************************************************)
EXTENDS Integers, Sequences, FiniteSets

CONSTANTS
    Beats,          \* keys of the beats of the sheet
    Threads,        \* goroutines that may serve a request at one time
    Wordings,       \* wordings a dialogue or a note may have
    Flagged,        \* wordings of a dialogue the machine checks find fault with
    Notes,          \* texts the Creator may note on the review
    Terms,          \* terms the glossary may hold
    MaxFindings,    \* bound: findings the model reports over a behaviour
    MaxChanges,     \* bound: changes of the dialogue at its own desk
    MaxRequests     \* bound: requests on this desk

ASSUME SetsAssumption ==
    /\ IsFiniteSet(Beats) /\ Beats # {} /\ Threads # {}
    /\ 1 \in Wordings /\ Wordings \subseteq Nat \ {0} /\ Flagged \subseteq Wordings
ASSUME BoundsAssumption == {MaxFindings, MaxChanges, MaxRequests} \subseteq Nat

VARIABLES
    editable,  \* the project is a draft or failed, so its inputs may change
    talk,      \* beat |-> wording and status of its dialogue
    note,      \* beat |-> its handoff note, NoNote without a row
    review,    \* the review of the script
    glossary,  \* the terms of the glossary
    versions,  \* the locked versions, in order
    job,       \* thread |-> the request it serves and what it has read
    changes,
    requests,
    approved,  \* history: <<beat, wording>> of every approved dialogue
    vouched,   \* history: <<beat, note, dialogue>> saved or confirmed as fitting
    passed,    \* history: <<beat, note>> of every approved note
    reviewed,  \* history: the dialogues the model has reviewed
    done,      \* history: findings whose line was put in, or that are gone
    torn       \* history: versions whose lock read different rows twice

desk == <<note, review, glossary, versions>>
history == <<approved, vouched, passed, reviewed, done, torn>>
bounds == <<changes, requests>>
vars == <<editable, talk, desk, job, bounds, history>>

-----------------------------------------------------------------------------
(* The dialogue, the notes and the review.                                 *)

NoNote == [words |-> 0, isApproved |-> FALSE, sha |-> 0]

Idle == [op |-> "none"]

Unreviewed == [found |-> {}, next |-> 1, decided |-> {}, mine |-> {}, sha |-> <<>>]

\* The hash of the dialogue of the whole script.
ScriptSHA(dialogue) == [b \in Beats |-> dialogue[b].words]

\* All dialogue approved: the lock screen is open and the model may be asked.
ready(dialogue) == \A b \in Beats : dialogue[b].isApproved

\* A beat without a row has note sha 0; a row of no items has words 0.
Written(n) == n.sha # 0

\* What a finding says: the replacement of a line or the line for a note it
\* carries, and the beat. One that carries neither can only be accepted.
Says == [kind : {"fix", "handoff"}, beat : Beats]

ReviewId == {<<"m-review", 0>>}    \* the machine's finding on the review itself

\* reviewFinal: the machine finding on the review itself, none when it passed.
reviewFinal(r, dialogue) ==
    IF r.sha = <<>> THEN {[id |-> <<"m-review", 0>>, says |-> <<"never">>]}
    ELSE IF r.sha # ScriptSHA(dialogue)
         THEN {[id |-> <<"m-review", 0>>, says |-> <<"changed">>]}
         ELSE {}

\* MachineFindings: worked out on every read.  Of what it finds in the lines only
\* that there is a fault is kept; it says the same of any wording at fault.
MachineFindings(r, dialogue) ==
    reviewFinal(r, dialogue)
    \cup {[id |-> <<"m-flag", b>>, says |-> <<"at fault">>] :
             b \in {x \in Beats : dialogue[x].words \in Flagged}}

MachineId(id) == id[1] \in {"m-review", "m-flag"}

Findings(r, dialogue) == r.found \cup MachineFindings(r, dialogue)

\* A decision counts for the words it was taken on.
StateOf(r, f) ==
    LET taken == {d \in r.decided : d.id = f.id /\ d.says = f.says}
    IN  IF taken = {} THEN "open" ELSE (CHOOSE d \in taken : TRUE).state

Decide(r, f, state) ==
    [r EXCEPT !.decided = {d \in @ : d.id # f.id}
                          \cup {[id |-> f.id, says |-> f.says, state |-> state]}]

OpenFindings(r, dialogue) == {f \in Findings(r, dialogue) : StateOf(r, f) = "open"}

\* An acceptance stays with a finding the model repeats, in other words too.
AcceptedAgain(prev, same) ==
    {[id |-> f.id, says |-> f.says, state |-> "accepted"] :
        f \in {g \in same : \E d \in prev.decided : d.id = g.id /\ d.state = "accepted"}}

\* ApplyReview: same are the findings the reply repeats under their numbers, new
\* the ones it reports anew, shown the dialogue the model was given.
ApplyReview(prev, same, new, shown) ==
    LET left == {f \in prev.found : StateOf(prev, f) # "fixed" /\ \A g \in same : g.id # f.id}
        gone == {f \in left : StateOf(prev, f) = "open"}
        keeps(d) == MachineId(d.id) \/ \E f \in left \ gone : f.id = d.id
    IN  [prev EXCEPT
            !.found = same \cup new \cup left,
            !.next = @ + Cardinality(new),
            !.decided = {d \in @ : keeps(d)} \cup AcceptedAgain(prev, same)
                        \cup {[id |-> f.id, says |-> f.says, state |-> "fixed"] : f \in gone},
            !.sha = shown]

\* A usable reply repeats findings made before, in words of its own, and has at
\* most one that is new, with the next number.
ParseReviewReply(prev) ==
    LET fresh == IF prev.next > MaxFindings THEN {}
                 ELSE {{[id |-> <<"r", prev.next>>, says |-> s]} : s \in Says}
    IN  UNION {{[same |-> {[id |-> n, says |-> said[n]] : n \in again}, new |-> new] :
                   said \in [again -> Says], new \in {{}} \cup fresh} :
               again \in SUBSET {f.id : f \in prev.found}}

\* A usable note has an item, and may bring terms.
ParseHandoffReply == [words : Wordings, terms : {{}} \cup {{g} : g \in Terms}]

\* Merge: the rows the glossary has stay as they are.
Merge(terms, rows) == terms \cup rows

\* All dialogue is approved; the notes are not written yet, or all are approved.
Init ==
    /\ editable = TRUE
    /\ talk = [b \in Beats |-> [words |-> 1, isApproved |-> TRUE]]
    /\ note \in {[b \in Beats |-> NoNote],
                [b \in Beats |-> [words |-> 1, isApproved |-> TRUE, sha |-> 1]]}
    /\ review = Unreviewed
    /\ glossary = {}
    /\ versions = <<>>
    /\ job = [t \in Threads |-> Idle]
    /\ changes = 0 /\ requests = 0
    /\ approved = {<<b, 1>> : b \in Beats}
    /\ passed = {<<b, 1>> : b \in {x \in Beats : Written(note[x])}}
    /\ vouched = {<<b, 1, 1>> : b \in {x \in Beats : Written(note[x])}}
    /\ reviewed = {} /\ done = {} /\ torn = {}

-----------------------------------------------------------------------------
(* The dialogue desk and the render saga.                                  *)

\* The dialogue of b is written again, by hand or by the model.
EditDialogue(b) ==
    /\ editable /\ changes < MaxChanges
    /\ \E w \in Wordings : talk' = [talk EXCEPT ![b] = [words |-> w, isApproved |-> FALSE]]
    /\ changes' = changes + 1
    /\ UNCHANGED <<editable, desk, job, requests, history>>

ApproveDialogue(b) ==
    /\ editable /\ ~talk[b].isApproved
    /\ talk' = [talk EXCEPT ![b].isApproved = TRUE]
    /\ approved' = approved \cup {<<b, talk[b].words>>}
    /\ UNCHANGED <<editable, desk, job, bounds, vouched, passed, reviewed, done, torn>>

\* checkAuthoringUnlocked: a render starts, or ends.
Render ==
    /\ editable' = ~editable
    /\ UNCHANGED <<talk, desk, job, bounds, history>>

-----------------------------------------------------------------------------
(* The first half of a request: its checks and what it reads.              *)

Serve(t, request) ==
    /\ job[t] = Idle /\ editable /\ requests < MaxRequests
    /\ requests' = requests + 1
    /\ job' = [job EXCEPT ![t] = request]
    /\ UNCHANGED <<editable, talk, desk, changes, history>>

OnNote(t, op, b) == Serve(t, [op |-> op, beat |-> b, note |-> note[b]])

Edit(t, b) == OnNote(t, "Edit", b)

Approve(t, b) == note[b].words # 0 /\ OnNote(t, "Approve", b)

Unapprove(t, b) == Written(note[b]) /\ OnNote(t, "Unapprove", b)

ConfirmHandoff(t, b) == note[b].words # 0 /\ OnNote(t, "Confirm", b)

Redo(t, b) ==
    ready(talk) /\ Serve(t, [op |-> "Write", beats |-> {b}, glossary |-> glossary])

\* The beats without a note, all or the one asked for.
GenerateHandoff(t, asked) ==
    LET todo == {b \in asked : ~Written(note[b])}
    IN  /\ ready(talk)
        /\ todo # {} /\ (asked # Beats => todo = asked)
        /\ Serve(t, [op |-> "Write", beats |-> todo, glossary |-> glossary])

Review(t) == ready(talk) /\ Serve(t, [op |-> "Review", review |-> review, shown |-> ScriptSHA(talk)])

OnFinding(t, op, f) ==
    ready(talk) /\ Serve(t, [op |-> op, finding |-> f, review |-> review])

Accept(t, f) == f \in Findings(review, talk) /\ OnFinding(t, "Accept", f)

ApplyFix(t, f) ==
    /\ f \in review.found /\ f.says.kind = "fix" /\ StateOf(review, f) = "open"
    /\ OnFinding(t, "ApplyFix", f)

AddToHandoff(t, f) ==
    /\ ready(talk)
    /\ f \in review.found /\ f.says.kind = "handoff" /\ StateOf(review, f) = "open"
    /\ Serve(t, [op |-> "AddToHandoff", finding |-> f, review |-> review,
                 note |-> note[f.says.beat]])

AddNote(t, n) ==
    n \notin review.mine /\ Serve(t, [op |-> "AddNote", text |-> n, review |-> review])

AddTerm(t, g) ==
    g \notin glossary /\ Serve(t, [op |-> "AddTerm", text |-> g, glossary |-> glossary])

\* What the Creator accepted, as it is frozen: the machine's findings whatever
\* they say now, the model's as they are worded.
Accepted(r) ==
    {d.id : d \in {x \in r.decided :
        /\ x.state = "accepted"
        /\ MachineId(x.id) \/ \E f \in r.found : f.id = x.id /\ f.says = x.says}}

CurrentParts ==
    [talk |-> ScriptSHA(talk), note |-> [b \in Beats |-> note[b].words], glossary |-> glossary,
     mine |-> review.mine, accepted |-> Accepted(review)]

\* Mutant: the staleness of a note does not hold the lock up.
NotesDoneStale == \A b \in Beats : note[b].isApproved

NotesDone == \A b \in Beats : note[b].isApproved /\ note[b].sha = talk[b].words

CanLock == ready(talk) /\ NotesDone /\ OpenFindings(review, talk) = {}

SomethingToLock == versions # <<>> => versions[Len(versions)] # CurrentParts

\* The state is checked now, what is frozen is read again to be saved.
Lock(t) ==
    /\ CanLock /\ SomethingToLock
    /\ Serve(t, [op |-> "Lock", next |-> Len(versions) + 1, seen |-> <<talk, note, review, glossary>>])

-----------------------------------------------------------------------------
(* The second half: what is saved from the copy read.                      *)

Done(t) == job' = [job EXCEPT ![t] = Idle]

\* The row of the note of b, whatever it was.
saveLockUnit(b, row) == note' = [note EXCEPT ![b] = row]

\* saveHandoff: the note of b goes in as built from the dialogue of now.
saveHandoff(b, words, isApproved) ==
    /\ saveLockUnit(b, [words |-> words, isApproved |-> isApproved, sha |-> talk[b].words])
    /\ vouched' = vouched \cup {<<b, words, talk[b].words>>}

EndEdit(t) ==
    /\ job[t].op = "Edit" /\ Done(t)
    /\ \E w \in Wordings \cup {0} : saveHandoff(job[t].beat, w, FALSE)
    /\ UNCHANGED <<editable, talk, review, glossary, versions, bounds, approved, passed, reviewed,
                   done, torn>>

EndConfirm(t) ==
    /\ job[t].op = "Confirm" /\ Done(t)
    /\ saveHandoff(job[t].beat, job[t].note.words, TRUE)
    /\ passed' = passed \cup {<<job[t].beat, job[t].note.words>>}
    /\ UNCHANGED <<editable, talk, review, glossary, versions, bounds, approved, reviewed, done, torn>>

\* setStatus: the row as it was read, with the status.
WithStatus(j) == [j.note EXCEPT !.isApproved = (j.op = "Approve")]

EndSetStatus(t) ==
    /\ job[t].op \in {"Approve", "Unapprove"} /\ Done(t)
    /\ saveLockUnit(job[t].beat, WithStatus(job[t]))
    /\ passed' = IF job[t].op = "Approve"
                 THEN passed \cup {<<job[t].beat, job[t].note.words>>} ELSE passed
    /\ UNCHANGED <<editable, talk, review, glossary, versions, bounds, approved, vouched, reviewed,
                   done, torn>>

\* writeHandoff goes on with the next beat, for which it reads the glossary again.
NextBeat(t, left, terms) ==
    job' = [job EXCEPT ![t] =
               IF left = {} THEN Idle ELSE [op |-> "Write", beats |-> left, glossary |-> terms]]

writeHandoff(t) ==
    /\ job[t].op = "Write"
    /\ \E b \in job[t].beats, reply \in ParseHandoffReply :
          /\ saveHandoff(b, reply.words, FALSE)
          /\ IF reply.terms = {} THEN NextBeat(t, job[t].beats \ {b}, glossary)
             ELSE job' = [job EXCEPT ![t] =
                             [op |-> "Terms", beats |-> job[t].beats \ {b},
                              glossary |-> Merge(job[t].glossary, reply.terms)]]
    /\ UNCHANGED <<editable, talk, review, glossary, versions, bounds, approved, passed, reviewed,
                   done, torn>>

EndTerms(t) ==
    /\ job[t].op = "Terms"
    /\ glossary' = job[t].glossary
    /\ NextBeat(t, job[t].beats, glossary')
    /\ UNCHANGED <<editable, talk, note, review, versions, bounds, history>>

EndAddTerm(t) ==
    /\ job[t].op = "AddTerm" /\ Done(t)
    /\ glossary' = Merge(job[t].glossary, {job[t].text})
    /\ UNCHANGED <<editable, talk, note, review, versions, bounds, history>>

EndReview(t) ==
    /\ job[t].op = "Review" /\ Done(t)
    /\ LET prev == job[t].review
       IN  \E reply \in ParseReviewReply(prev) :
              /\ review' = ApplyReview(prev, reply.same, reply.new, job[t].shown)
              /\ done' = done \cup {f \in prev.found : \A g \in reply.same : g.id # f.id}
              /\ reviewed' = reviewed \cup {job[t].shown}
    /\ UNCHANGED <<editable, talk, note, glossary, versions, bounds, approved, vouched, passed, torn>>

\* Mutant: the decision is written before what it says was done.
DecideFirst(t) ==
    /\ job[t].op = "ApplyFix"
    /\ review' = Decide(job[t].review, job[t].finding, "fixed")
    /\ job' = [job EXCEPT ![t] = Idle]
    /\ UNCHANGED <<editable, talk, note, glossary, versions, bounds, history>>

\* Accept, and the last write of ApplyFix and AddToHandoff.
EndDecide(t) ==
    /\ job[t].op \in {"Accept", "Decide"} /\ Done(t)
    /\ review' = Decide(job[t].review, job[t].finding,
                        IF job[t].op = "Accept" THEN "accepted" ELSE "fixed")
    /\ UNCHANGED <<editable, talk, note, glossary, versions, bounds, history>>

EndAddNote(t) ==
    /\ job[t].op = "AddNote" /\ Done(t)
    /\ review' = [job[t].review EXCEPT !.mine = @ \cup {job[t].text}]
    /\ UNCHANGED <<editable, talk, note, glossary, versions, bounds, history>>

ThenDecide(t) ==
    job' = [job EXCEPT ![t] = [op |-> "Decide", finding |-> @.finding, review |-> @.review]]

\* The edit reads the dialogue of now and puts the finding's line in.
PutFix(t) ==
    /\ job[t].op = "ApplyFix" /\ ThenDecide(t)
    /\ \E w \in Wordings :
          talk' = [talk EXCEPT ![job[t].finding.says.beat] = [words |-> w, isApproved |-> FALSE]]
    /\ done' = done \cup {job[t].finding}
    /\ UNCHANGED <<editable, desk, bounds, approved, vouched, passed, reviewed, torn>>

PutInHandoff(t) ==
    /\ job[t].op = "AddToHandoff" /\ ThenDecide(t)
    /\ \E w \in Wordings : saveHandoff(job[t].finding.says.beat, w, FALSE)
    /\ done' = done \cup {job[t].finding}
    /\ UNCHANGED <<editable, talk, review, glossary, versions, bounds, approved, passed, reviewed, torn>>

\* The insert of version n, which fails when it is there.
SaveScriptVersion(n, parts) == IF n \in DOMAIN versions THEN versions ELSE Append(versions, parts)

EndLock(t) ==
    /\ job[t].op = "Lock" /\ Done(t)
    /\ versions' = SaveScriptVersion(job[t].next, CurrentParts)
    /\ torn' = IF versions' = versions \/ job[t].seen = <<talk, note, review, glossary>>
               THEN torn ELSE torn \cup {job[t].next}
    /\ UNCHANGED <<editable, talk, note, review, glossary, bounds, approved, vouched, passed, reviewed,
                   done>>

\* An unusable reply, a failed query, a cancel or a restart: what is saved
\* stays, the rest is not written.
GiveUp(t) ==
    /\ job[t] # Idle /\ Done(t)
    /\ UNCHANGED <<editable, talk, desk, bounds, history>>

Request(t) ==
    \/ \E b \in Beats : \/ Edit(t, b) \/ Approve(t, b) \/ Unapprove(t, b)
                       \/ ConfirmHandoff(t, b) \/ Redo(t, b)
    \/ \E asked \in {Beats} \cup {{b} : b \in Beats} : GenerateHandoff(t, asked)
    \/ \E f \in Findings(review, talk) : Accept(t, f) \/ ApplyFix(t, f) \/ AddToHandoff(t, f)
    \/ (\E n \in Notes : AddNote(t, n)) \/ (\E g \in Terms : AddTerm(t, g))
    \/ Review(t) \/ Lock(t)

End(t) ==
    \/ EndEdit(t) \/ EndConfirm(t) \/ EndSetStatus(t) \/ writeHandoff(t) \/ EndTerms(t)
    \/ EndAddTerm(t) \/ EndReview(t) \/ EndDecide(t) \/ EndAddNote(t) \/ PutFix(t)
    \/ PutInHandoff(t) \/ EndLock(t) \/ GiveUp(t)

Next ==
    \/ Render
    \/ \E b \in Beats : EditDialogue(b) \/ ApproveDialogue(b)
    \/ \E t \in Threads : Request(t) \/ End(t)

Spec == Init /\ [][Next]_vars

-----------------------------------------------------------------------------
\* The rows hold what their columns allow, and no note of no item is approved
\* (CheckApprovable, ConfirmHandoff).
TypeOK ==
    /\ editable \in BOOLEAN
    /\ talk \in [Beats -> [words : Wordings, isApproved : BOOLEAN]]
    /\ note \in [Beats -> [words : Wordings \cup {0}, isApproved : BOOLEAN, sha : Wordings \cup {0}]]
    /\ \A b \in Beats : note[b].isApproved => Written(note[b]) /\ note[b].words # 0
    /\ review.next \in 1 .. MaxFindings + 1 /\ review.mine \subseteq Notes
    /\ \A f \in review.found : f.id[2] < review.next /\ f.says \in Says
    /\ \A f, g \in review.found : f.id = g.id => f = g
    /\ \A d, e \in review.decided : d.id = e.id => d = e
    /\ glossary \subseteq Terms
    /\ changes \in 0 .. MaxChanges /\ requests \in 0 .. MaxRequests

\* Every locked version was ready for it: its dialogue was approved as it reads,
\* reviewed as it reads by the model or taken by the Creator without, and the note
\* of every beat was approved as it reads and written or confirmed for exactly
\* that dialogue; a fault the machine finds in it was accepted.  Of a lock whose two
\* reads found different rows this does not hold, and it is not said here (State,
\* CanLock, saveHandoff, Lock).
LockedWasReady ==
    \A n \in DOMAIN versions \ torn : LET v == versions[n] IN
        /\ \A b \in Beats : /\ <<b, v.talk[b]>> \in approved
                            /\ <<b, v.note[b], v.talk[b]>> \in vouched
                            /\ <<b, v.note[b]>> \in passed
                            /\ v.talk[b] \in Flagged => <<"m-flag", b>> \in v.accepted
        /\ v.talk \in reviewed \/ v.accepted \cap ReviewId # {}

\* A finding counts as fixed only when its line was put into the dialogue or the
\* note, or the model looked again and did not report it: a request that stops
\* half-way leaves it open (ApplyFix, AddToHandoff, ApplyReview).
FixedWasDone ==
    \A f \in review.found : StateOf(review, f) = "fixed" => f \in done

=============================================================================
