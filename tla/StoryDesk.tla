------------------------------- MODULE StoryDesk -------------------------------
(***************************************************************************)
(* The first steps of authoring: the idea, the brief and the story         *)
(* (authoring-service, project_idea.go, project_brief.go, story_desk.go).  *)
(* Each document is one row that the model writes from the step before:    *)
(* the idea from what the Creator typed, the brief from the approved idea, *)
(* the story from the approved brief and the kept facts.  The row keeps    *)
(* the hash of what it was written from, which tells the Creator when that *)
(* has changed.  A request reads the row, works on its copy, for minutes   *)
(* when a model is asked, and saves it whole.  A text is told apart by who *)
(* wrote it, from what, and whether the machine check takes it; a hash is  *)
(* the content it is of.  The project stays open for authoring and its     *)
(* form, short or long, as it was chosen.                                  *)
(***************************************************************************)
EXTENDS Integers

CONSTANTS
    Threads,      \* goroutines that may serve a request at one time
    Subjects,     \* what the Creator may type on the first step
    IdeaFields, BriefFields, StoryFields,
    Arc,          \* the field of the story whose beats cite facts
    Facts,        \* facts of the research table
    Wordings,     \* texts a field may hold
    Unfit,        \* a text the machine check refuses: too long, out of range
    NoInput,      \* the hash of nothing
    MaxRequests,  \* bound: requests on the three desks
    MaxChanges    \* bound: changes of the subject, the facts and the research

FieldsAssumption ==
    /\ Arc \in StoryFields
    /\ {} \notin {Threads, Subjects, IdeaFields, BriefFields}
    /\ Wordings \ {Unfit} # {}
BoundsAssumption == {MaxRequests, MaxChanges} \subseteq Nat

VARIABLES
    subject,   \* what the Creator typed, with the language
    kept,      \* facts the Creator keeps
    resolved,  \* whether the research step is approved or skipped
    row,       \* document |-> its row, over the documents that exist
    review,    \* document |-> the model's latest review, where there is one
    call,      \* thread |-> the request it serves and its copy of the row
    requests, changes,
    checked    \* history: document |-> contents an approval has validated

inputs == <<subject, kept, resolved>>
vars == <<inputs, row, review, call, requests, changes, checked>>

-----------------------------------------------------------------------------
Idle == [op |-> "none"]

Fields == [idea |-> IdeaFields, brief |-> BriefFields, story |-> StoryFields]
Documents == DOMAIN Fields

\* The text of a field; "of", a history, is what the model was given to write it.
Text(by, wording, of, cites) == [by |-> by, wording |-> wording, of |-> of, cites |-> cites]
Empty == Text("nobody", Unfit, NoInput, {})

\* Validate: every field holds a text, and one the machine check takes.
Valid(content) == \A f \in DOMAIN content : content[f].wording # Unfit

Written(d) == d \in DOMAIN row
Approved(d) == Written(d) /\ row[d].status = "approved"

\* A new empty row of a document that has none.
NewRow(d, of) ==
    [content |-> [f \in Fields[d] |-> Empty], mine |-> {}, status |-> "pending",
     of |-> of, arcByHand |-> FALSE]

current(d) == IF Written(d) THEN row[d] ELSE NewRow(d, NoInput)

\* What each document is written from, as its row records it.
ApprovedHash(d) == IF Approved(d) THEN row[d].content ELSE NoInput
IdeaInput == subject
BriefInput == ApprovedHash("idea")
StoryInput == [brief |-> ApprovedHash("brief"), facts |-> kept]

\* What the screens show as out of date, of documents that exist.
InputChanged == row["idea"].of # IdeaInput
IdeaChanged == Approved("idea") /\ row["brief"].of # BriefInput
BriefStale == Approved("brief") /\ row["story"].of.brief # StoryInput.brief
ResearchStale == resolved /\ row["story"].of.facts # StoryInput.facts
ReviewStale(d) == review[d].hash # row[d].content

cited(content) == IF Arc \in DOMAIN content THEN content[Arc].cites ELSE {}

\* Mutant: an arc of the Creator's is not looked at.
CheckReplyOnly(content, known) ==
    cited(content) \subseteq known \/ content[Arc].by = "creator"

\* CheckStoryFacts: every fact the arc cites is one of these.
CheckStoryFacts(content, known) == cited(content) \subseteq known

\* A field the Creator owns stays as the copy has it.
KeepCreatorFields(copy, reply) ==
    [f \in DOMAIN copy.content |-> IF f \in copy.mine THEN copy.content[f] ELSE reply[f]]

\* What the model answers for every field, cites being the facts of the arc.
Reply(d, wording, of, cites) ==
    [f \in Fields[d] |-> Text("ai", wording, of, IF f = Arc THEN cites ELSE {})]

\* The replies a document is read from: every field is there and passes the
\* machine check.
ParseProjectIdeaReply(of) == {r \in {Reply("idea", w, of, {}) : w \in Wordings} : Valid(r)}
ParseProjectBriefReply(of) == {r \in {Reply("brief", w, of, {}) : w \in Wordings} : Valid(r)}

\* A beat that cites a fact the model was not given makes the answer unusable.
ParseStoryReply(of) ==
    {r \in {Reply("story", w, of, cites) : w \in Wordings, cites \in SUBSET Facts} :
        Valid(r) /\ cited(r) \subseteq of.facts}

\* The row after a run of the model: it waits for approval.
Rewritten(copy, content, of) ==
    [content |-> content, mine |-> copy.mine, status |-> "pending", of |-> of,
     arcByHand |-> FALSE]

\* A field changed by hand is the Creator's, an emptied one is not.
markCreatorField(mine, f, owned) == (mine \ {f}) \cup (IF owned THEN {f} ELSE {})

\* The field of the patch with its text, and who owns the fields then.
patched(content, patch) == [content EXCEPT ![patch.field] = patch.text]
owners(copy, patch) ==
    IF patch.text = copy.content[patch.field] THEN copy.mine
    ELSE markCreatorField(copy.mine, patch.field, patch.text # Empty)

\* Mutant: an edit leaves the approval.
EditedKeepsStatus(copy, patch) ==
    [copy EXCEPT !.content = patched(copy.content, patch), !.mine = owners(copy, patch)]

\* A change sends the row back to waiting; arcByHand, a history, is whether
\* the arc was changed by hand since the model last wrote.
Edited(copy, patch) ==
    LET content == patched(copy.content, patch)
    IN  [content |-> content,
         mine |-> owners(copy, patch),
         status |-> IF content = copy.content THEN copy.status ELSE "pending",
         of |-> copy.of,
         arcByHand |-> copy.arcByHand \/ cited(content) # cited(copy.content)]

\* What the Creator may type: a field emptied or worded, an arc with its facts.
Typed(f, citable) ==
    {Empty} \cup
    {Text("creator", w, NoInput, c) : w \in Wordings, c \in IF f = Arc THEN SUBSET citable ELSE {{}}}
Patches(d, citable) ==
    UNION {{[field |-> f, text |-> text] : text \in Typed(f, citable)} : f \in Fields[d]}

\* The row an edit starts from: one not written yet records the input of now.
EditRow(d, input) == IF Written(d) THEN row[d] ELSE NewRow(d, input)

-----------------------------------------------------------------------------
(* A thread takes a request and reads what it needs.                       *)

Begins(t, local) ==
    /\ call[t] = Idle
    /\ requests < MaxRequests
    /\ requests' = requests + 1
    /\ call' = [call EXCEPT ![t] = local]
    /\ UNCHANGED <<inputs, row, review, changes>>

\* A call that asks the model, and one that has the row to save already.
Asks(op, d, input) == [op |-> op, doc |-> d, row |-> current(d), input |-> input]
Saves(d, saved) == [op |-> "save", doc |-> d, row |-> saved]

GenerateIdea(t) ==
    /\ Begins(t, Asks("generate", "idea", IdeaInput))
    /\ UNCHANGED checked

\* The brief needs an approved idea.
GenerateBrief(t) ==
    /\ Approved("idea")
    /\ Begins(t, Asks("generate", "brief", BriefInput))
    /\ UNCHANGED checked

\* The story needs the approved brief, the research done, and a field to write.
GenerateStory(t) ==
    /\ Approved("brief") /\ resolved
    /\ current("story").mine # StoryFields
    /\ Begins(t, Asks("generate", "story", StoryInput))
    /\ UNCHANGED checked

EditIdea(t) ==
    \E patch \in Patches("idea", {}) :
        /\ Begins(t, Saves("idea", Edited(EditRow("idea", IdeaInput), patch)))
        /\ UNCHANGED checked

EditBrief(t) ==
    \E patch \in Patches("brief", {}) :
        /\ Begins(t, Saves("brief", Edited(EditRow("brief", BriefInput), patch)))
        /\ UNCHANGED checked

\* A beat of the arc may cite the kept facts only.  The first edit records
\* the facts it may cite, so its arc does not count as changed since.
EditStory(t) ==
    \E patch \in Patches("story", kept) :
        LET edited == Edited(EditRow("story", StoryInput), patch)
        IN  /\ Begins(t, Saves("story", [edited EXCEPT !.arcByHand = @ /\ Written("story")]))
            /\ UNCHANGED checked

\* The machine check, and the row as it was read is approved.
Approves(t, d) ==
    /\ Written(d)
    /\ Valid(row[d].content)
    /\ Begins(t, Saves(d, [row[d] EXCEPT !.status = "approved"]))
    /\ checked' = [checked EXCEPT ![d] = @ \cup {row[d].content}]

ApproveIdea(t) == Approves(t, "idea")
ApproveBrief(t) == Approves(t, "brief")
ApproveStory(t) == Approves(t, "story")

Unapproves(t, d) ==
    /\ Written(d)
    /\ Begins(t, Saves(d, [row[d] EXCEPT !.status = "pending"]))
    /\ UNCHANGED checked

UnapproveIdea(t) == Unapproves(t, "idea")
UnapproveBrief(t) == Unapproves(t, "brief")
UnapproveStory(t) == Unapproves(t, "story")

\* A review reads a document that passes the machine check.
Reviews(t, d) ==
    /\ Written(d)
    /\ Valid(row[d].content)
    /\ Begins(t, Asks("review", d, NoInput))
    /\ UNCHANGED checked

ReviewIdea(t) == Reviews(t, "idea")
ReviewBrief(t) == Approved("idea") /\ Reviews(t, "brief")

-----------------------------------------------------------------------------
(* The model answers, and the row is saved whole.                          *)

Returns(t) == call' = [call EXCEPT ![t] = Idle]

\* Insert or replace.
Upsert(table, d, r) == [e \in DOMAIN table \cup {d} |-> IF e = d THEN r ELSE table[e]]

Saved(t, d, saved) ==
    /\ row' = Upsert(row, d, saved)
    /\ Returns(t)
    /\ UNCHANGED <<inputs, review, requests, changes, checked>>

Save(t) == call[t].op = "save" /\ Saved(t, call[t].doc, call[t].row)

Generating(t, d) == call[t].op = "generate" /\ call[t].doc = d

\* Mutant: the hash is read again when the answer is there.
WriteAnswerRehashed(t, d, content) ==
    LET now == [idea |-> IdeaInput, brief |-> BriefInput, story |-> StoryInput]
    IN  /\ Valid(content)
        /\ Saved(t, d, Rewritten(call[t].row, content, now[d]))

\* The answer with the Creator's fields, the hash of what it was written from.
WriteAnswer(t, d, content) ==
    /\ Valid(content)
    /\ Saved(t, d, Rewritten(call[t].row, content, call[t].input))

Kept(t, reply) == KeepCreatorFields(call[t].row, reply)

WriteIdea(t) ==
    /\ Generating(t, "idea")
    /\ \E reply \in ParseProjectIdeaReply(call[t].input) :
          WriteAnswer(t, "idea", Kept(t, reply))

WriteBrief(t) ==
    /\ Generating(t, "brief")
    /\ \E reply \in ParseProjectBriefReply(call[t].input) :
          WriteAnswer(t, "brief", Kept(t, reply))

\* The answer, and the arc when it is the Creator's, cite the facts read.
WriteStory(t) ==
    /\ Generating(t, "story")
    /\ \E reply \in ParseStoryReply(call[t].input) :
          LET content == Kept(t, reply)
          IN  /\ CheckStoryFacts(content, call[t].input.facts)
              /\ WriteAnswer(t, "story", content)

\* No answer, one that cannot be read or one the checks refuse: nothing is stored.
Fail(t) ==
    /\ call[t].op \in {"generate", "review"}
    /\ Returns(t)
    /\ UNCHANGED <<inputs, row, review, requests, changes, checked>>

\* The hash is of the content read; "read", a history, is that content.
ReviewOf(content) == [hash |-> content, read |-> content]

WriteReview(t) ==
    LET local == call[t]
    IN  /\ local.op = "review"
        /\ review' = Upsert(review, local.doc, ReviewOf(local.row.content))
        /\ Returns(t)
        /\ UNCHANGED <<inputs, row, requests, changes, checked>>

-----------------------------------------------------------------------------
(* What the Creator does meanwhile on the other steps.                     *)

Changes ==
    /\ changes < MaxChanges
    /\ changes' = changes + 1
    /\ UNCHANGED <<row, review, call, requests, checked>>

\* UpdateProjectTopic.
UpdateTopic ==
    /\ \E topic \in Subjects \ {subject} : subject' = topic
    /\ Changes
    /\ UNCHANGED <<kept, resolved>>

\* A fact is kept or dropped, which reopens an approved table, not a skipped one.
ChangeFacts ==
    /\ \E fact \in Facts :
          kept' = IF fact \in kept THEN kept \ {fact} ELSE kept \cup {fact}
    /\ resolved' \in {FALSE, resolved}
    /\ Changes
    /\ UNCHANGED subject

\* The research step is approved or skipped, or opened again.
ResearchStanding ==
    /\ resolved' = ~resolved
    /\ Changes
    /\ UNCHANGED <<subject, kept>>

-----------------------------------------------------------------------------
\* A new project, or one whose idea and brief are approved.
Init ==
    /\ subject \in Subjects
    /\ kept = Facts
    /\ \E wording \in Wordings \ {Unfit} :
          LET answered(d, of) ==
                [Rewritten(NewRow(d, of), Reply(d, wording, of, {}), of) EXCEPT !.status = "approved"]
              idea == answered("idea", subject)
              brief == answered("brief", idea.content)
          IN  \/ row = <<>> /\ resolved = FALSE
              \/ row = [d \in {"idea", "brief"} |-> IF d = "idea" THEN idea ELSE brief]
                 /\ resolved = TRUE
    /\ review = <<>>
    /\ call = [t \in Threads |-> Idle]
    /\ requests = 0
    /\ changes = 0
    /\ checked = [d \in Documents |-> IF Written(d) THEN {row[d].content} ELSE {}]

Request(t) ==
    \/ GenerateIdea(t) \/ EditIdea(t) \/ ApproveIdea(t) \/ UnapproveIdea(t) \/ ReviewIdea(t)
    \/ GenerateBrief(t) \/ EditBrief(t) \/ ApproveBrief(t) \/ UnapproveBrief(t) \/ ReviewBrief(t)
    \/ GenerateStory(t) \/ EditStory(t) \/ ApproveStory(t) \/ UnapproveStory(t)

Next ==
    \/ \E t \in Threads :
          \/ Request(t)
          \/ Save(t)
          \/ WriteIdea(t) \/ WriteBrief(t) \/ WriteStory(t) \/ WriteReview(t)
          \/ Fail(t)
    \/ UpdateTopic \/ ChangeFacts \/ ResearchStanding

Spec == Init /\ [][Next]_vars

-----------------------------------------------------------------------------
\* Every row has its fields, and only the Creator's texts are the Creator's.
TypeOK ==
    /\ subject \in Subjects /\ kept \subseteq Facts /\ resolved \in BOOLEAN
    /\ DOMAIN row \subseteq Documents /\ DOMAIN review \subseteq {"idea", "brief"}
    /\ \A d \in DOMAIN row :
          /\ DOMAIN row[d].content = Fields[d]
          /\ row[d].mine = {f \in Fields[d] : row[d].content[f].by = "creator"}
          /\ row[d].status \in {"pending", "approved"}
    /\ requests \in 0..MaxRequests /\ changes \in 0..MaxChanges

-----------------------------------------------------------------------------
(* Properties.                                                             *)

AiWrittenFrom(d, input) ==
    \A f \in Fields[d] : row[d].content[f].by = "ai" => row[d].content[f].of = input

\* What a screen shows as up to date was written from, or read, what there is
\* now: InputChanged, IdeaChanged, BriefStale, ResearchStale and ReviewStale
\* compare hashes taken minutes before the save.
FreshIsOfInput ==
    /\ Written("idea") /\ ~InputChanged => AiWrittenFrom("idea", IdeaInput)
    /\ Written("brief") /\ Approved("idea") /\ ~IdeaChanged =>
          AiWrittenFrom("brief", BriefInput)
    /\ Written("story") /\ Approved("brief") /\ resolved /\ ~BriefStale /\ ~ResearchStale =>
          AiWrittenFrom("story", StoryInput)
    /\ \A d \in DOMAIN review :
          Written(d) /\ ~ReviewStale(d) => review[d].read = row[d].content

\* The later steps read approved documents only: what they read passed the
\* machine check and an approval as it stands, whatever edits, runs of the
\* model and approvals overlapped.
ApprovedWasApproved ==
    \A d \in DOMAIN row : Approved(d) => row[d].content \in checked[d]

\* A story the screen shows as fresh against the research, and whose arc was
\* not changed by hand since the model last ran, cites no dropped fact, the
\* Creator's own arc included.
FreshStoryCitesKept ==
    Written("story") /\ resolved /\ ~ResearchStale /\ ~row["story"].arcByHand =>
        cited(row["story"].content) \subseteq kept

=============================================================================
