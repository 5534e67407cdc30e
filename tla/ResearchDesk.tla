----------------------------- MODULE ResearchDesk -----------------------------
(***************************************************************************)
(* The research step (authoring-service, research_desk.go,                 *)
(* research_facts.go, research_questions.go, research_gate.go and          *)
(* source_verifier.go).  The step keeps numbered questions, a table of     *)
(* facts and one gate row: the approval of the table, whether the step is  *)
(* skipped and the number the next question takes.  A handler reads a row  *)
(* whole, works on its copy and saves it whole.  A fact whose link or      *)
(* quote is new is checked in the background: a job is queued, a worker    *)
(* reads the page and writes the result, if the fact still cites what the  *)
(* job was given.  The wording of questions and claims is left out.        *)
(***************************************************************************)
EXTENDS Integers, FiniteSets, FiniteSetsExt, Bags, BagsExt

CONSTANTS
    Threads,       \* goroutines that may serve a request at one time
    Urls,          \* links a fact may cite, besides none
    Quotes,        \* quotes a fact may carry, besides none
    MaxFacts,      \* bound: fact codes
    MaxQuestions,  \* bound: question codes
    MaxRequests,   \* bound: requests on this desk
    MaxRestarts    \* bound: restarts of the service

ASSUME ThreadsAssumption == Threads # {} /\ Quotes # {}
ASSUME BoundsAssumption ==
    {MaxFacts, MaxQuestions} \subseteq Nat \ {0} /\ {MaxRequests, MaxRestarts} \subseteq Nat

VARIABLES
    facts,      \* code |-> the stored fact, over the codes in use
    questions,  \* code |-> whether the question is the Creator's
    gate,       \* the gate row
    queue,      \* bag of the checks queued or running
    call,       \* thread |-> the request it serves and what it has read
    requests,
    restarts,
    used,       \* history: question codes ever given
    table,      \* history: the table as the last approval found it
    orderly     \* history: no two requests overlapped, no restart cut one

bounds == <<requests, restarts>>
vars == <<facts, questions, gate, queue, call, bounds, used, table, orderly>>

-----------------------------------------------------------------------------
NoUrl == "no link"
BadUrl == "no usable link"
NoQuote == "no quote"
NoCode == 0
ASSUME NoneAssumption == Urls \cap {NoUrl, BadUrl} = {} /\ NoQuote \notin Quotes
Idle == [op |-> "none"]

\* The most questions one reply of the model may hold.
MaxGeneratedQuestions == 12

Codes == 1..MaxFacts
Sources == [url : Urls \cup {NoUrl}, quote : Quotes \cup {NoQuote}]
SourceFields == {"url", "quote"}

SourceOf(fact) == [url |-> fact.url, quote |-> fact.quote]

\* The state of a link; "of", a history, is the source it was found for.
Link(state, source) == [state |-> state, of |-> source]

\* What the Creator approves of a fact: the tick "must" is not in it, since a
\* check that finds the quote sets it.
TableOf(stored) ==
    [id \in DOMAIN stored |-> <<SourceOf(stored[id]), stored[id].keep>>]

NextFactID(ids) == IF ids = {} THEN 1 ELSE Max(ids) + 1

withFactField(fact, source) == [fact EXCEPT !.url = source.url, !.quote = source.quote]

\* mergePasted: a field the Creator wrote stays, the others are the paste's.
mergePasted(stored, pasted) ==
    withFactField(stored, [f \in SourceFields |->
                              IF f \in stored.mine THEN stored[f] ELSE pasted[f]])

FreshFact(source, mine) ==
    [url |-> source.url, quote |-> source.quote, keep |-> TRUE, must |-> FALSE,
     mine |-> mine, link |-> Link("none", source)]

\* A field the Creator changes by hand becomes theirs.
Edited(stored, source) ==
    [withFactField(stored, source) EXCEPT
        !.mine = @ \cup {f \in SourceFields : stored[f] # source[f]}]

\* saveAndCheck marks the link, saveFact stores the fact as it is.
Marked(fact, anew) ==
    IF ~anew THEN fact
    ELSE [fact EXCEPT !.link = Link(IF fact.url = NoUrl THEN "none" ELSE "run",
                                    SourceOf(fact))]

\* A generation that keeps the Creator's questions, or replaces them too.
Generates(local) == local.op \in {"generate", "replace"}

\* Mutant: the number past the questions that exist, without the counter.
NextWithoutCounter(counter, existing) == Max({1} \cup {q + 1 : q \in existing})

\* Past the counter of the gate and past every question that exists.
nextQuestionNumber(counter, existing) == Max({1, counter} \cup {q + 1 : q \in existing})

\* A generation removes the questions it replaces; kept is read before the AI.
Replaced(existing, replaceEdited) ==
    {q \in DOMAIN existing : ~existing[q] \/ replaceEdited}

\* A row is read when it has a code and its link, if any, is usable; that it
\* answers a question that exists is requireQuestion.
Rows == [id : Codes \cup {NoCode}, url : Urls \cup {NoUrl, BadUrl},
         quote : Quotes \cup {NoQuote}]

readClaim(row) == row.id # NoCode /\ row.url # BadUrl

\* Of two rows with one code the later is taken.
ParseResearchPaste(rows) ==
    LET read == {i \in DOMAIN rows : readClaim(rows[i])}
    IN  [id \in {rows[i].id : i \in read} |->
            SourceOf(rows[Max({i \in read : rows[i].id = id})])]

\* What the answers of at most MaxFacts rows hold.
PastedClaims ==
    {ParseResearchPaste(rows) : rows \in UNION {[1..n -> Rows] : n \in 1..MaxFacts}}

\* ParseResearchQuestionsReply: how many questions a reply of use may hold, of
\* those there is room for from the number next on.
QuestionsInReply(next) == {n \in 1..MaxGeneratedQuestions : next + n - 1 <= MaxQuestions}

\* A page is the set of the quotes it holds; a quote too short is on no page.
MatchQuote(page, quote) == quote \in page

\* What a check of a link may find: with no quote the page is not read.
check(source) ==
    IF source.quote = NoQuote THEN {"bad"}
    ELSE {"na"} \cup {IF MatchQuote(page, source.quote) THEN "ok" ELSE "bad" :
                          page \in SUBSET Quotes}

\* A question row is replaced whole.
saveResearchQuestionUnit(q, mine) ==
    questions' = [p \in DOMAIN questions \cup {q} |-> IF p = q THEN mine ELSE questions[p]]

deleteResearchQuestionUnit(q) == questions' = [p \in DOMAIN questions \ {q} |-> questions[p]]

\* A fact, added or pasted, answers a question that exists.
requireQuestion == questions # <<>>

\* A project whose questions were generated and whose first pasted answer, one
\* fact, was read and checked.
Init ==
    /\ questions = [q \in {1} |-> FALSE]
    /\ \E url \in Urls, quote \in Quotes :
          facts = [id \in {1} |->
                      [FreshFact([url |-> url, quote |-> quote], {}) EXCEPT
                          !.must = TRUE, !.link.state = "ok"]]
    /\ gate = [status |-> "pending", skipped |-> FALSE, next |-> 2]
    /\ queue = EmptyBag
    /\ call = [t \in Threads |-> Idle]
    /\ requests = 0
    /\ restarts = 0
    /\ used = {1}
    /\ table = TableOf(facts)
    /\ orderly = TRUE

-----------------------------------------------------------------------------
(* A thread takes a request: what it reads first is in its call.           *)

Begins(t, local) ==
    /\ call[t] = Idle
    /\ requests < MaxRequests
    /\ requests' = requests + 1
    /\ call' = [call EXCEPT ![t] = local]
    /\ orderly' = (orderly /\ \A other \in Threads : call[other] = Idle)
    /\ UNCHANGED <<facts, questions, gate, queue, restarts, used, table>>

Goes(t, local) == call' = [call EXCEPT ![t] = local]

Returns(t) == Goes(t, Idle)

\* A call that will save a fact; left are the codes it has still to load.
OnFact(op, id, fact, anew) ==
    [op |-> op, at |-> "save", id |-> id, fact |-> fact, anew |-> anew,
     left |-> {}, claims |-> <<>>]

\* A call that loads facts one by one; claims is what a pasted answer says.
OverFacts(op, ids, claims) ==
    [op |-> op, at |-> "load", left |-> ids, claims |-> claims]

SetFactFlags(t) ==
    \E id \in DOMAIN facts, must, keep \in BOOLEAN :
        /\ <<must, keep>> # <<facts[id].must, facts[id].keep>>
        /\ Begins(t, OnFact("flags", id,
                            [facts[id] EXCEPT !.must = must, !.keep = keep], FALSE))

EditFact(t) ==
    \E id \in DOMAIN facts, source \in Sources :
        /\ source # SourceOf(facts[id])
        /\ Begins(t, OnFact("edit", id, Edited(facts[id], source), TRUE))

AddFact(t) ==
    LET id == NextFactID(DOMAIN facts)
        written(source) == {f \in SourceFields : source[f] \notin {NoUrl, NoQuote}}
    IN  /\ id \in Codes
        /\ requireQuestion
        /\ \E source \in Sources :
               Begins(t, OnFact("add", id, FreshFact(source, written(source)), TRUE))

\* The claims of a pasted answer, by code; one with none changes nothing.
IngestPaste(t) ==
    /\ requireQuestion
    /\ \E claims \in PastedClaims :
           DOMAIN claims # {} /\ Begins(t, OverFacts("paste", DOMAIN claims, claims))

\* The facts to check again, by default the kept ones with a link.
Verify(t) ==
    \E ids \in (SUBSET DOMAIN facts) \ {{}} :
        Begins(t, OverFacts("verify", ids, <<>>))

SetSkipped(t) ==
    \E skipped \in BOOLEAN :
        Begins(t, [op |-> "skip", at |-> "saveGate",
                   gate |-> [gate EXCEPT !.skipped = skipped]])

\* setStatus of the gate; approving it is refused while the step is skipped.
Approve(t) ==
    /\ ~gate.skipped
    /\ Begins(t, [op |-> "approve", at |-> "check",
                  gate |-> [gate EXCEPT !.status = "approved"]])

Unapprove(t) ==
    Begins(t, [op |-> "unapprove", at |-> "saveGate",
               gate |-> [gate EXCEPT !.status = "pending"]])

GenerateQuestions(t) ==
    \E replaceEdited \in BOOLEAN :
        Begins(t, [op |-> IF replaceEdited THEN "replace" ELSE "generate",
                   at |-> "ai", existing |-> DOMAIN questions,
                   gone |-> Replaced(questions, replaceEdited)])

\* A call that will write n questions from the number next, then the gate.
Writing(op, n, next, row, gone) ==
    [op |-> op, at |-> "write", left |-> n, next |-> next,
     gate |-> [row EXCEPT !.next = next + n], gone |-> gone]

AddQuestion(t) ==
    LET next == nextQuestionNumber(gate.next, DOMAIN questions)
    IN  /\ next <= MaxQuestions
        /\ Begins(t, Writing("ask", 1, next, gate, {}))

EditQuestion(t) ==
    \E q \in DOMAIN questions : Begins(t, [op |-> "reword", at |-> "reword", q |-> q])

DeleteQuestion(t) ==
    \E q \in DOMAIN questions :
        Begins(t, [op |-> "drop", at |-> "delete", gone |-> {q}])

-----------------------------------------------------------------------------
(* Facts: load, save, queue the check, reopen the gate.                    *)

ToSave(local, id, fact, anew) ==
    [op |-> local.op, at |-> "save", id |-> id, fact |-> fact, anew |-> anew,
     left |-> local.left \ {id}, claims |-> local.claims]

\* IngestPaste takes its next claim: a new code, or a merge into the stored fact.
LoadClaim(t) ==
    /\ call[t].op = "paste" /\ call[t].at = "load"
    /\ \E id \in call[t].left :
          LET claim == call[t].claims[id]
              known == id \in DOMAIN facts
              fact == IF known THEN mergePasted(facts[id], claim) ELSE FreshFact(claim, {})
          IN  Goes(t, ToSave(call[t], id, fact,
                             ~known \/ SourceOf(fact) # SourceOf(facts[id])))
    /\ UNCHANGED <<facts, questions, gate, queue, bounds, used, table, orderly>>

\* Verify takes the facts in the order of their codes.
LoadToVerify(t) ==
    /\ call[t].op = "verify" /\ call[t].at = "load"
    /\ LET id == Min(call[t].left) IN Goes(t, ToSave(call[t], id, facts[id], TRUE))
    /\ UNCHANGED <<facts, questions, gate, queue, bounds, used, table, orderly>>

\* The row is replaced whole, and its check queued.
SaveFact(t) ==
    LET local == call[t]
        saved == Marked(local.fact, local.anew)
        starts == local.anew /\ saved.link.state = "run"
        job == [id |-> local.id, source |-> SourceOf(saved)]
    IN  /\ local.op # "none" /\ local.at = "save"
        /\ facts' = [id \in DOMAIN facts \cup {local.id} |->
                        IF id = local.id THEN saved ELSE facts[id]]
        /\ queue' = IF starts THEN BagAdd(queue, job) ELSE queue
        /\ IF local.left # {} THEN Goes(t, OverFacts(local.op, local.left, local.claims))
           ELSE IF local.op = "verify" THEN Returns(t)
           ELSE Goes(t, [op |-> local.op, at |-> "reopen"])
        /\ UNCHANGED <<questions, gate, bounds, used, table, orderly>>

\* Mutant: the approval stays when a fact has changed.
GateStays(t) ==
    /\ call[t].op # "none" /\ call[t].at = "reopen"
    /\ Returns(t)
    /\ UNCHANGED <<facts, questions, gate, queue, bounds, used, table, orderly>>

\* reopenGate: the Creator approved the table as it was.
reopenGate(t) ==
    /\ call[t].op # "none" /\ call[t].at = "reopen"
    /\ IF gate.status # "approved" THEN Returns(t)
       ELSE Goes(t, [op |-> call[t].op, at |-> "saveGate",
                     gate |-> [gate EXCEPT !.status = "pending"]])
    /\ UNCHANGED <<facts, questions, gate, queue, bounds, used, table, orderly>>

-----------------------------------------------------------------------------
(* The gate and the questions.                                             *)

\* CheckApprovable refuses a table with no kept fact.
CheckApprovable(t) ==
    /\ call[t].op = "approve" /\ call[t].at = "check"
    /\ IF \E id \in DOMAIN facts : facts[id].keep
       THEN Goes(t, [op |-> "approve", at |-> "saveGate", gate |-> call[t].gate])
       ELSE Returns(t)
    /\ UNCHANGED <<facts, questions, gate, queue, bounds, used, table, orderly>>

\* The gate row is replaced whole.
saveGate(t) ==
    LET local == call[t]
    IN  /\ local.op # "none" /\ local.at = "saveGate"
        /\ gate' = local.gate
        /\ table' = IF local.op = "approve" THEN TableOf(facts) ELSE table
        /\ IF Generates(local) /\ local.gone # {}
           THEN Goes(t, [op |-> local.op, at |-> "delete", gone |-> local.gone])
           ELSE Returns(t)
        /\ UNCHANGED <<facts, questions, queue, bounds, used, orderly>>

\* The model answered, minutes later, with n questions or with nothing of use.
OnQuestions(t) ==
    LET local == call[t]
        next == nextQuestionNumber(gate.next, local.existing)
    IN  /\ Generates(local) /\ local.at = "ai"
        /\ \/ Returns(t)
           \/ \E n \in QuestionsInReply(next) :
                  Goes(t, Writing(local.op, n, next, gate, local.gone))
        /\ UNCHANGED <<facts, questions, gate, queue, bounds, used, table, orderly>>

WriteQuestion(t) ==
    LET local == call[t]
    IN  /\ local.op # "none" /\ local.at = "write"
        /\ saveResearchQuestionUnit(local.next, local.op = "ask")
        /\ used' = used \cup {local.next}
        /\ Goes(t, [op |-> local.op, at |-> IF local.left = 1 THEN "saveGate" ELSE "write",
                    left |-> local.left - 1, next |-> local.next + 1,
                    gate |-> local.gate, gone |-> local.gone])
        /\ UNCHANGED <<facts, gate, queue, bounds, table, orderly>>

\* The reworded question is saved whole and is the Creator's.
SaveWording(t) ==
    LET q == call[t].q
    IN  /\ call[t].op = "reword"
        /\ saveResearchQuestionUnit(q, TRUE)
        /\ Returns(t)
        /\ UNCHANGED <<facts, gate, queue, bounds, used, table, orderly>>

\* A question that is not there any more is no error.
RemoveQuestion(t) ==
    LET local == call[t]
        q == Min(local.gone)
    IN  /\ local.op # "none" /\ local.at = "delete"
        /\ deleteResearchQuestionUnit(q)
        /\ IF local.gone = {q} THEN Returns(t)
           ELSE Goes(t, [op |-> local.op, at |-> "delete", gone |-> local.gone \ {q}])
        /\ UNCHANGED <<facts, gate, queue, bounds, used, table, orderly>>

-----------------------------------------------------------------------------
(* The background checks, and a restart of the service.                    *)

\* Mutant: the result is stored whatever the fact cites by now.
SavedAnyway(stored, job, state) ==
    [stored EXCEPT !.link = Link(state, job.source), !.must = @ \/ state = "ok"]

\* SaveFactLink: stored only while the fact cites what the check was given.  A
\* quote that was found ticks the fact as one to be said.
SaveFactLink(stored, job, state) ==
    IF SourceOf(stored) # job.source THEN stored
    ELSE [stored EXCEPT !.link = Link(state, job.source),
                        !.must = @ \/ state = "ok"]

\* A worker read the page: it holds the quote, does not, or cannot be read.
Check ==
    \E job \in BagToSet(queue) : \E state \in check(job.source) :
        /\ queue' = BagRemove(queue, job)
        /\ facts' = [facts EXCEPT ![job.id] = SaveFactLink(@, job, state)]
        /\ UNCHANGED <<questions, gate, call, bounds, used, table, orderly>>

\* ResetRunningFactLinks: no check survives a restart.
Interrupted(stored) ==
    IF stored.link.state = "run" THEN [stored EXCEPT !.link.state = "na"] ELSE stored

Restart ==
    /\ restarts < MaxRestarts
    /\ restarts' = restarts + 1
    /\ call' = [t \in Threads |-> Idle]
    /\ queue' = EmptyBag
    /\ facts' = [id \in DOMAIN facts |-> Interrupted(facts[id])]
    /\ orderly' = (orderly /\ call' = call)
    /\ UNCHANGED <<questions, gate, requests, used, table>>

Serve(t) ==
    \/ SetFactFlags(t) \/ EditFact(t) \/ AddFact(t) \/ IngestPaste(t) \/ Verify(t)
    \/ SetSkipped(t) \/ Approve(t) \/ Unapprove(t)
    \/ GenerateQuestions(t) \/ AddQuestion(t) \/ EditQuestion(t) \/ DeleteQuestion(t)

Step(t) ==
    \/ LoadClaim(t) \/ LoadToVerify(t) \/ SaveFact(t) \/ reopenGate(t)
    \/ CheckApprovable(t) \/ saveGate(t)
    \/ OnQuestions(t) \/ WriteQuestion(t) \/ SaveWording(t) \/ RemoveQuestion(t)

Next == (\E t \in Threads : Serve(t) \/ Step(t)) \/ Check \/ Restart

Spec == Init /\ [][Next]_vars

-----------------------------------------------------------------------------
(* Properties.                                                             *)

LinkStates == {"none", "run", "ok", "bad", "na"}

Stored(fact) ==
    /\ SourceOf(fact) \in Sources
    /\ {fact.keep, fact.must} \subseteq BOOLEAN
    /\ fact.mine \subseteq SourceFields
    /\ fact.link.state \in LinkStates /\ fact.link.of \in Sources

\* The rows have their shape; a fact with a link was queued for a check.
TypeOK ==
    /\ DOMAIN facts \subseteq Codes /\ \A id \in DOMAIN facts : Stored(facts[id])
    /\ \A id \in DOMAIN facts :
          (facts[id].link.state = "none") <=> (facts[id].url = NoUrl)
    /\ DOMAIN questions \subseteq 1..MaxQuestions
    /\ \A q \in DOMAIN questions : questions[q] \in BOOLEAN
    /\ gate \in [status : {"pending", "approved"}, skipped : BOOLEAN,
                 next : 1..(MaxQuestions + 1)]
    /\ IsABag(queue)
    /\ DOMAIN call = Threads
    /\ requests \in 0..MaxRequests /\ restarts \in 0..MaxRestarts
    /\ used \subseteq 1..MaxQuestions /\ orderly \in BOOLEAN

\* The link state a fact shows was found for the link and the quote it has now,
\* however checks, edits, pasted answers and restarts interleave: saveAndCheck
\* on every new source, SaveFactLink only while the source is the same.
LinkIsOfSource ==
    \A id \in DOMAIN facts : facts[id].link.of = SourceOf(facts[id])

\* With one request at a time, an approved table is the table the Creator
\* approved: whatever changed a fact sent the gate back (reopenGate).
ApprovedTableStands ==
    orderly /\ gate.status = "approved" /\ (\A t \in Threads : call[t] = Idle)
        => TableOf(facts) = table

\* With one request at a time, a new question takes a code no question ever had,
\* so a fact keeps pointing at the question it answered.
CodesNeverReused ==
    [][orderly' => \A q \in DOMAIN questions' \ DOMAIN questions : q \notin used]_vars

=============================================================================
