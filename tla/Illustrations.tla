----------------------------- MODULE Illustrations -----------------------------
(***************************************************************************)
(* The library of drawings and the list of drawings each video needs       *)
(* (authoring-service, illustrations.go, illustration_drawer.go,           *)
(* project_illustrations.go).  A drawing has a name unique in the library, *)
(* code the renderer accepted, a version and the preview of one version.   *)
(* Drawing with the model takes minutes; the rows are read whole before    *)
(* it and saved whole after.  A row of a video's list links a drawing; the *)
(* database clears the link when the drawing is deleted.  Kit built-ins,   *)
(* folders, tiers and the storyboard's hash are left out.                  *)
(***************************************************************************)
EXTENDS Integers, Sequences, FiniteSets, SequencesExt

CONSTANTS
    Threads,       \* goroutines that may serve a request at one time
    Projects,      \* videos with a list of drawings
    Names,         \* component names of drawings
    Codes,         \* code the renderer accepts
    MaxExemplars,  \* drawings the Hinh mau folder may hold
    MaxDrawings,   \* bound: drawings ever made, the first ones included
    MaxRows,       \* bound: rows ever made
    MaxRequests,   \* bound: requests
    MaxRestarts    \* bound: restarts of the service

ASSUME SetsAssumption == Threads # {} /\ IsFiniteSet(Names) /\ Names # {} /\ Codes # {}
ASSUME BoundsAssumption ==
    /\ {MaxExemplars, MaxDrawings, MaxRows, MaxRequests, MaxRestarts} \subseteq Nat
    /\ MaxExemplars > 0 /\ MaxDrawings > Cardinality(Names)

VARIABLES
    lib,       \* id |-> drawing, over the drawings in the library
    rows,      \* id |-> row of a video's list
    drawing,   \* in memory: the rows being drawn
    status,    \* project |-> where its video stands, at the orchestrator
    call,      \* thread |-> the request it serves and what it has read
    requests,
    restarts,
    made,      \* history: drawings ever made
    listed,    \* history: rows ever made
    blessed,   \* history: <<drawing, name, code>> a request approved
    orderly    \* history: no two requests overlapped, no restart cut one

counters == <<requests, restarts, made, listed>>
vars == <<lib, rows, drawing, status, call, counters, blessed, orderly>>

-----------------------------------------------------------------------------
Idle == [op |-> "none", at |-> "idle"]

NoDrawing == 0    \* the link of a row, or the source of a drawing, that has none

Drawing(name, code, state, exemplar, source) ==
    [status |-> state, name |-> name, code |-> code, exemplar |-> exemplar,
     source |-> source, version |-> 1, preview |-> [code |-> code, version |-> 0]]

ReadOnly(d) == d.exemplar # "no"

Exemplars == {id \in DOMAIN lib : lib[id].exemplar # "no"}

Taken(name) == \E id \in DOMAIN lib : lib[id].name = name

\* A name is that of a drawing, <<n, 0>>, or of its k-th exemplar copy.
ExemplarCopyName(name) ==
    LET used == {k \in 1..MaxDrawings : Taken(<<name[1], k>>)}
    IN  <<name[1], Min((1..MaxDrawings + 1) \ used)>>

\* A project that reached its result screen, or failed after it.
DoneWithLibrary(p) == status[p] \in {"ready_to_publish", "failed_at_publish_video"}

\* FindIllustrationUsers, by the rows that link the drawing.
Users(id) == {rows[r].project : r \in {s \in DOMAIN rows : rows[s].ill = id}}

Row(p, name, state, ill) == [name |-> name, state |-> state, project |-> p, ill |-> ill]

RowsOf(p) == {r \in DOMAIN rows : rows[r].project = p}

\* What Plan keeps of the list: the rows with a drawing, and the skipped ones.
Kept(p) == {r \in RowsOf(p) : rows[r].ill # NoDrawing \/ rows[r].state = "skipped"}

\* The new row for a name: the kept one, the library's drawing, or one to draw.
PlannedRow(p, name, catalog) ==
    LET old == {r \in Kept(p) : rows[r].name = name}
        found == {c \in catalog : c.name = name}
    IN  IF old # {} THEN rows[Max(old)]
        ELSE IF found # {} THEN Row(p, name, "reused", (CHOOSE c \in found : TRUE).id)
        ELSE Row(p, name, "planned", NoDrawing)

\* SetSkipped(false): back to the drawing the row had, or to planned.
TakenBack(row) ==
    IF row.ill = NoDrawing THEN "planned"
    ELSE IF row.ill \in DOMAIN lib /\ ReadOnly(lib[row.ill]) THEN "reused" ELSE "drawn"

\* Approved drawings, and one of the original exemplars; no video has a list.
Init ==
    /\ \E approved \in SUBSET Names :
          LET c == CHOOSE d \in Codes : TRUE
              names == SetToSeq(approved)
              id == Len(names) + 1
          IN  /\ lib = [i \in 1..id |->
                          IF i = id THEN Drawing(<<"mau", 0>>, c, "approved", "original", NoDrawing)
                          ELSE Drawing(<<names[i], 0>>, c, "approved", "no", NoDrawing)]
              /\ blessed = {<<i, lib[i].name, c>> : i \in 1..id}
              /\ made = id
    /\ rows = <<>>
    /\ drawing = {}
    /\ status = [p \in Projects |-> "working"]
    /\ call = [t \in Threads |-> Idle]
    /\ requests = 0 /\ restarts = 0 /\ listed = 0
    /\ orderly = TRUE

-----------------------------------------------------------------------------
(* A thread takes a request on the library.                                *)

Begins(t, local) ==
    /\ call[t] = Idle
    /\ requests < MaxRequests
    /\ requests' = requests + 1
    /\ call' = [call EXCEPT ![t] = local]
    /\ orderly' = (orderly /\ \A other \in Threads : call[other] = Idle)
    /\ UNCHANGED <<lib, rows, drawing, status, restarts, made, listed, blessed>>

Goes(t, local) == call' = [call EXCEPT ![t] = local]

Returns(t) == Goes(t, Idle)

\* A call that will insert a drawing; row is what a list's draw will save.
Inserting(op, d, r, row) == [op |-> op, at |-> "insert", r |-> r, row |-> row, new |-> d]

NoRow == Row("none", <<>>, "none", NoDrawing)

\* Create and a draw straight into the library: the code was accepted.
Create(t) ==
    \E n \in Names, c \in Codes :
        Begins(t, Inserting("create", Drawing(<<n, 0>>, c, "draft", "no", NoDrawing), 0, NoRow))

\* Mutants of Edited: the status stays approved; the version stays.
EditedKeepsStatus(d, name, code) ==
    IF name = d.name /\ code = d.code THEN d
    ELSE [d EXCEPT !.name = name, !.code = code, !.version = @ + 1]
EditedSameVersion(d, name, code) ==
    [d EXCEPT !.name = name, !.code = code, !.status = "draft"]

\* What an edit saves: other code or another name is a new draft version.
Edited(d, name, code) ==
    IF name = d.name /\ code = d.code THEN d
    ELSE [d EXCEPT !.name = name, !.code = code, !.status = "draft", !.version = @ + 1]

Update(t) ==
    \E id \in DOMAIN lib, n \in Names, c \in Codes :
        /\ ~ReadOnly(lib[id])
        /\ Begins(t, [op |-> "update", at |-> "update", id |-> id,
                      new |-> Edited(lib[id], <<n, 0>>, c),
                      redrawn |-> lib[id].name # <<n, 0>> \/ lib[id].code # c])

\* The model draws it anew under its name: a draft, be the code what it was.
Redrawn(d, code) == [d EXCEPT !.code = code, !.status = "draft", !.version = @ + 1]

Redraw(t) ==
    \E id \in DOMAIN lib, c \in Codes :
        /\ ~ReadOnly(lib[id])
        /\ Begins(t, [op |-> "update", at |-> "update", id |-> id,
                      new |-> Redrawn(lib[id], c), redrawn |-> TRUE])

SetStatus(t) ==
    \E id \in DOMAIN lib, s \in {"draft", "approved"} :
        /\ ~ReadOnly(lib[id])
        /\ Begins(t, [op |-> "status", at |-> "update", id |-> id,
                      new |-> [lib[id] EXCEPT !.status = s], redrawn |-> FALSE])

\* MakeExemplar checks what it read of the library, and renders the copy.
MakeExemplar(t) ==
    \E id \in DOMAIN lib :
        LET src == lib[id]
        IN  /\ src.exemplar = "no" /\ src.status = "approved"
            /\ \A e \in Exemplars : lib[e].source # id
            /\ Cardinality(Exemplars) < MaxExemplars
            /\ Begins(t, Inserting("exemplar",
                   Drawing(ExemplarCopyName(src.name), src.code, "approved", "copy", id),
                   0, NoRow))

\* A call that will delete a drawing unless a video not in ignore needs it.
Removing(op, id, ignore, r, row) ==
    [op |-> op, at |-> "check", id |-> id, r |-> r, row |-> row, ignore |-> ignore,
     attempt |-> 1, checked |-> {}]

Delete(t) ==
    \E id \in DOMAIN lib :
        /\ ~ReadOnly(lib[id])
        /\ Begins(t, Removing("delete", id, {}, 0, NoRow))

\* UnmakeExemplar deletes a copy; an original goes back to its folder.
UnmakeExemplar(t) ==
    \E id \in Exemplars :
        IF lib[id].exemplar = "copy"
        THEN Begins(t, Removing("unmake", id, {}, 0, NoRow))
        ELSE Begins(t, [op |-> "release", at |-> "release", id |-> id])

\* A call that will save the preview of the drawing d.
Previewing(op, id, d) ==
    [op |-> op, at |-> "preview", preview |-> [code |-> d.code, version |-> d.version],
     id |-> id, r |-> 0, row |-> NoRow]

\* Rerender, and Preview of a version that has none.
Rerender(t) ==
    \E id \in DOMAIN lib :
        Begins(t, Previewing("rerender", id, lib[id]))

-----------------------------------------------------------------------------
(* A thread takes a request on a video's list.                             *)

\* Plan reads the approved drawings that are no exemplar copies, then asks.
Plan(t) ==
    \E p \in Projects :
        Begins(t, [op |-> "plan", at |-> "plan", project |-> p,
                   catalog |-> {[name |-> lib[id].name, id |-> id] : id \in
                       {i \in DOMAIN lib : lib[i].status = "approved"
                                           /\ lib[i].exemplar # "copy"}}])

Draw(t) ==
    \E r \in DOMAIN rows :
        /\ rows[r].state # "reused"
        /\ ~(rows[r].state = "drawn" /\ rows[r].ill \in DOMAIN lib)
        /\ Begins(t, [op |-> "draw", at |-> "start", r |-> r, row |-> rows[r]])

SavingRow(op, r, row) == [op |-> op, at |-> "saveRow", r |-> r, row |-> row]

SetSkipped(t) ==
    \E r \in DOMAIN rows : \E s \in {"skipped", TakenBack(rows[r])} :
        Begins(t, SavingRow(IF s = "skipped" THEN "skip" ELSE "unskip", r,
                            [rows[r] EXCEPT !.state = s]))

\* SetTier: a drawing not detailed enough is to be drawn anew under its own name.
SetTier(t) ==
    \E r \in DOMAIN rows, n \in Names :
        /\ rows[r].state # "drawing"
        /\ \/ Begins(t, SavingRow("tier", r, rows[r]))
           \/ /\ rows[r].ill \in DOMAIN lib
              /\ Begins(t, SavingRow("tier", r, Row(rows[r].project, <<n, 0>>, "planned",
                                                    NoDrawing)))

\* DeleteDrawing: the video's own draft goes, and its row is skipped.
DeleteDrawing(t) ==
    \E r \in DOMAIN rows :
        LET row == rows[r]
        IN  /\ row.state = "drawn" /\ row.ill \in DOMAIN lib
            /\ lib[row.ill].status = "draft" /\ ~ReadOnly(lib[row.ill])
            /\ Begins(t, Removing("deleteDrawing", row.ill, {row.project}, r,
                                  Row(row.project, row.name, "skipped", NoDrawing)))

-----------------------------------------------------------------------------
(* The library's rows.                                                     *)

\* Mutant of ExemplarFits: the check made before the render is trusted.
FitsUnderName(d) == d.source \in DOMAIN lib

\* CreateExemplar counts again under the lock of the folder.
ExemplarFits(d) ==
    /\ d.source \in DOMAIN lib
    /\ \A e \in Exemplars : lib[e].source # d.source
    /\ Cardinality(Exemplars) < MaxExemplars

\* A row of a list's draw that came to nothing.
FailedDraw(local) ==
    [op |-> local.op, at |-> "endDraw", r |-> local.r,
     row |-> [local.row EXCEPT !.state = "failed"]]

Insert(t) ==
    LET local == call[t]
        fits == ~Taken(local.new.name) /\ (local.op = "exemplar" => ExemplarFits(local.new))
        id == made + 1
    IN  /\ local.at = "insert"
        /\ \/ /\ fits /\ id <= MaxDrawings
              /\ made' = id
              /\ lib' = [i \in DOMAIN lib \cup {id} |-> IF i = id THEN local.new ELSE lib[i]]
              /\ Goes(t, [Previewing(local.op, id, local.new) EXCEPT
                             !.r = local.r,
                             !.row = [local.row EXCEPT !.state = "drawn", !.ill = id,
                                                       !.name = local.new.name]])
           \/ /\ ~fits
              /\ IF local.op = "draw" THEN Goes(t, FailedDraw(local)) ELSE Returns(t)
              /\ UNCHANGED <<lib, made>>
        /\ UNCHANGED <<rows, drawing, status, requests, restarts, listed, blessed, orderly>>

\* UpdateIllustration writes the copy over the row, all but what an exemplar is
\* and the preview; the name is unique.
UpdateIllustration(t) ==
    LET local == call[t]
        new == local.new
        fits == local.id \in DOMAIN lib
                /\ \A i \in DOMAIN lib \ {local.id} : lib[i].name # new.name
    IN  /\ local.at = "update"
        /\ IF fits
           THEN /\ lib' = [lib EXCEPT ![local.id] =
                             [@ EXCEPT !.name = new.name, !.code = new.code,
                                       !.status = new.status, !.version = new.version]]
                /\ blessed' = IF local.op = "status" /\ new.status = "approved"
                              THEN blessed \cup {<<local.id, new.name, new.code>>}
                              ELSE blessed
                /\ IF local.redrawn THEN Goes(t, Previewing(local.op, local.id, new))
                   ELSE Returns(t)
           ELSE Returns(t) /\ UNCHANGED <<lib, blessed>>
        /\ UNCHANGED <<rows, drawing, status, counters, orderly>>

\* SaveIllustrationPreview stores the picture with the version it was made of.
SavePreview(t) ==
    LET local == call[t]
    IN  /\ local.at = "preview"
        /\ lib' = [i \in DOMAIN lib |->
                      IF i = local.id THEN [lib[i] EXCEPT !.preview = local.preview]
                      ELSE lib[i]]
        /\ IF local.op = "draw"
           THEN Goes(t, [op |-> "draw", at |-> "endDraw", r |-> local.r, row |-> local.row])
           ELSE Returns(t)
        /\ UNCHANGED <<rows, drawing, status, counters, blessed, orderly>>

\* checkUnused: refused while a video that is not done links the drawing.
CheckUnused(t) ==
    LET local == call[t]
        users == Users(local.id)
    IN  /\ local.at = "check"
        /\ IF \E p \in users \ local.ignore : ~DoneWithLibrary(p)
           THEN Returns(t)
           ELSE Goes(t, [local EXCEPT !.at = "delete", !.checked = local.ignore \cup users])
        /\ UNCHANGED <<lib, rows, drawing, status, counters, blessed, orderly>>

\* Links and sources of the drawing are cleared by the database.
Cleared(id) ==
    /\ lib' = [i \in DOMAIN lib \ {id} |->
                  IF lib[i].source = id THEN [lib[i] EXCEPT !.source = NoDrawing] ELSE lib[i]]
    /\ rows' = [r \in DOMAIN rows |->
                  IF rows[r].ill = id THEN [rows[r] EXCEPT !.ill = NoDrawing] ELSE rows[r]]

\* Mutant of DeleteIllustration: the check made before is trusted.
DeletesAsChecked(t) ==
    LET local == call[t]
    IN  /\ local.at = "delete"
        /\ Cleared(local.id)
        /\ IF local.op = "deleteDrawing"
           THEN Goes(t, SavingRow(local.op, local.r, local.row))
           ELSE Returns(t)
        /\ UNCHANGED <<drawing, status, counters, blessed, orderly>>

\* DeleteIllustration refuses when a video that was not checked links the
\* drawing; the check is then made once more.
DeleteIllustration(t) ==
    LET local == call[t]
    IN  /\ local.at = "delete"
        /\ IF Users(local.id) \subseteq local.checked
           THEN /\ Cleared(local.id)
                /\ IF local.op = "deleteDrawing"
                   THEN Goes(t, SavingRow(local.op, local.r, local.row))
                   ELSE Returns(t)
           ELSE /\ IF local.attempt < 2
                   THEN Goes(t, [local EXCEPT !.at = "check", !.attempt = @ + 1])
                   ELSE Returns(t)
                /\ UNCHANGED <<lib, rows>>
        /\ UNCHANGED <<drawing, status, counters, blessed, orderly>>

\* ReleaseExemplar files an original back as an ordinary drawing.
ReleaseExemplar(t) ==
    LET id == call[t].id
    IN  /\ call[t].at = "release"
        /\ lib' = IF id \in Exemplars THEN [lib EXCEPT ![id].exemplar = "no"] ELSE lib
        /\ Returns(t)
        /\ UNCHANGED <<rows, drawing, status, counters, blessed, orderly>>

-----------------------------------------------------------------------------
(* The rows of a video's list.                                             *)

\* The row as it would be saved; a link to a drawing that is gone is refused, a
\* row that is gone is no error.
Refused(r, row) == r \in DOMAIN rows /\ row.ill \notin DOMAIN lib \cup {NoDrawing}

SavesRow(r, row) ==
    rows' = IF Refused(r, row) THEN rows ELSE [s \in DOMAIN rows |-> IF s = r THEN row ELSE rows[s]]

SaveRow(t) ==
    /\ call[t].at = "saveRow"
    /\ SavesRow(call[t].r, call[t].row)
    /\ Returns(t)
    /\ UNCHANGED <<lib, drawing, status, counters, blessed, orderly>>

\* The row was read before the lock is taken; one in flight is not drawn again.
StartDraw(t) ==
    LET local == call[t]
        row == [local.row EXCEPT !.state = "drawing"]
    IN  /\ local.at = "start"
        /\ IF local.r \in drawing \/ Refused(local.r, row)
           THEN Returns(t) /\ UNCHANGED <<rows, drawing>>
           ELSE /\ drawing' = drawing \cup {local.r}
                /\ SavesRow(local.r, row)
                /\ Goes(t, [local EXCEPT !.at = "ai", !.row = row])
        /\ UNCHANGED <<lib, status, counters, blessed, orderly>>

\* Some attempts later the renderer accepts the model's drawing, or none.
OnDrawing(t) ==
    LET local == call[t]
    IN  /\ local.at = "ai"
        /\ \/ Goes(t, FailedDraw(local))
           \/ \E n \in Names, c \in Codes :
                  Goes(t, Inserting("draw", Drawing(<<n, 0>>, c, "draft", "no", NoDrawing),
                                    local.r, local.row))
        /\ UNCHANGED <<lib, rows, drawing, status, counters, blessed, orderly>>

EndDraw(t) ==
    /\ call[t].at = "endDraw"
    /\ SavesRow(call[t].r, call[t].row)
    /\ drawing' = drawing \ {call[t].r}
    /\ Returns(t)
    /\ UNCHANGED <<lib, status, counters, blessed, orderly>>

\* The model's plan, laid over what the list has by now.
OnPlan(t) ==
    LET local == call[t]
    IN  /\ local.at = "plan"
        /\ \/ Returns(t)
           \/ \E wanted \in SUBSET Names :
                  Goes(t, [op |-> local.op, at |-> "replace", project |-> local.project,
                           list |-> {PlannedRow(local.project, <<n, 0>>, local.catalog) :
                                        n \in wanted}])
        /\ UNCHANGED <<lib, rows, drawing, status, counters, blessed, orderly>>

\* ReplaceProjectIllustrations: new rows with new ids, in one transaction.
Replace(t) ==
    LET local == call[t]
        list == SetToSeq(local.list)
        ids == listed + 1 .. listed + Len(list)
    IN  /\ local.at = "replace"
        /\ Returns(t)
        /\ IF \E row \in local.list : row.ill \notin DOMAIN lib \cup {NoDrawing}
           THEN UNCHANGED <<rows, listed>>
           ELSE /\ listed + Len(list) <= MaxRows
                /\ listed' = listed + Len(list)
                /\ rows' = [r \in (DOMAIN rows \ RowsOf(local.project)) \cup ids |->
                              IF r \in ids THEN list[r - listed] ELSE rows[r]]
        /\ UNCHANGED <<lib, drawing, status, requests, restarts, made, blessed, orderly>>

-----------------------------------------------------------------------------
\* The video at the orchestrator; one that failed to publish can start again.
Moves(p) ==
    /\ \/ /\ status[p] = "working"
          /\ \E s \in {"ready_to_publish", "failed_at_publish_video"} :
                status' = [status EXCEPT ![p] = s]
       \/ /\ status[p] = "failed_at_publish_video"
          /\ status' = [status EXCEPT ![p] = "working"]
    /\ UNCHANGED <<lib, rows, drawing, call, counters, blessed, orderly>>

Restart ==
    /\ restarts < MaxRestarts
    /\ restarts' = restarts + 1
    /\ call' = [t \in Threads |-> Idle]
    /\ drawing' = {}
    /\ orderly' = (orderly /\ call' = call)
    /\ UNCHANGED <<lib, rows, status, requests, made, listed, blessed>>

Serve(t) ==
    \/ Create(t) \/ Update(t) \/ Redraw(t) \/ SetStatus(t) \/ MakeExemplar(t) \/ UnmakeExemplar(t)
    \/ Delete(t) \/ Rerender(t)
    \/ Plan(t) \/ Draw(t) \/ SetSkipped(t) \/ SetTier(t) \/ DeleteDrawing(t)

Step(t) ==
    \/ Insert(t) \/ UpdateIllustration(t) \/ SavePreview(t) \/ CheckUnused(t)
    \/ DeleteIllustration(t) \/ ReleaseExemplar(t)
    \/ SaveRow(t) \/ StartDraw(t) \/ OnDrawing(t) \/ EndDraw(t) \/ OnPlan(t) \/ Replace(t)

Next ==
    \/ \E t \in Threads : Serve(t) \/ Step(t)
    \/ \E p \in Projects : Moves(p)
    \/ Restart

Spec == Init /\ [][Next]_vars

-----------------------------------------------------------------------------
(* Properties.                                                             *)

\* The library and the lists have their shape; a link is to a drawing there is.
TypeOK ==
    /\ \A id \in DOMAIN lib :
          /\ id \in 1..made
          /\ lib[id].status \in {"draft", "approved"}
          /\ lib[id].exemplar \in {"no", "original", "copy"}
          /\ lib[id].source \in DOMAIN lib \cup {NoDrawing}
    /\ \A r \in DOMAIN rows :
          /\ r \in 1..listed /\ rows[r].project \in Projects
          /\ rows[r].ill \in DOMAIN lib \cup {NoDrawing}
          /\ rows[r].state \in {"planned", "drawing", "drawn", "reused", "failed", "skipped"}
    /\ drawing \subseteq 1..listed
    /\ DOMAIN call = Threads /\ orderly \in BOOLEAN
    /\ made \in 0..MaxDrawings /\ listed \in 0..MaxRows

\* However requests overlap, the Hinh mau stay within their number, and a drawing
\* has one copy among them (CreateExemplar's lock, after a check made minutes
\* before).
ExemplarsBounded ==
    /\ Cardinality(Exemplars) <= MaxExemplars
    /\ \A e, f \in Exemplars :
          e # f /\ lib[e].source = lib[f].source => lib[e].source = NoDrawing

\* However requests overlap, the code of an approved drawing is code a request
\* approved under that name: the status is saved with the code it was read with.
ApprovedWasApproved ==
    \A id \in DOMAIN lib :
        lib[id].status = "approved" /\ lib[id].exemplar = "no"
            => <<id, lib[id].name, lib[id].code>> \in blessed

\* With one request at a time, the preview stored for the version of a drawing
\* shows the code of that version: new code takes a new version.
PreviewIsOfCode ==
    orderly => \A id \in DOMAIN lib :
        lib[id].preview.version = lib[id].version => lib[id].preview.code = lib[id].code

\* However requests overlap, a drawing a video links is deleted only when the
\* video was looked at and found done, or deletes its own draft.
LinkedStays ==
    [][\A id \in DOMAIN lib \ DOMAIN lib' :
            \E t \in Threads :
                /\ call[t].at = "delete" /\ call[t].id = id /\ call'[t] # call[t]
                /\ Users(id) \subseteq call[t].checked]_vars

=============================================================================
